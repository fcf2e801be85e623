-------------------------- MODULE MC_Curation_proofs --------------------------
(***************************************************************************)
(* Proofs about CreativeGraph, for any assets, creatives, pool threads and  *)
(* handlers and any bounds, as MC_Curation runs it.                        *)
(***************************************************************************)
EXTENDS MC_Curation, TLAPS

(* The stages of what changed the rows and has not rebuilt the mirror yet,  *)
(* those before an analysis or a merge commits.                            *)
Pending == {"count", "cleanup", "unlist", "sync", "rebuild", "remirror", "neomerge", "neosplit"}
Machine == {"tags", "retag", "cluster", "attach", "sync"}
Merging == {"automerge", "autocommit"}

(* The mirror lists the rows, or somebody is on the way to rebuild it, or    *)
(* somebody was and stopped.                                               *)
Coming == owed \/ \E p \in Graph!Procs : proc[p].pc \in Pending
MirrorInv == mirror.nodes = rows \cup Graph!Variants \/ Coming

(* One automatic merge at a time has rebuilt the mirror and not committed:  *)
(* its target stays, its variants stay, and its mirror lists the rows there *)
(* will be, unless a rebuild is on the way.                                *)
After(p) == {a \in Assets : Graph!Merged(p)[a] # Graph!None}
CopyInv == \A p \in Graph!Procs : proc[p].pc = "autocommit" =>
    /\ \A q \in Graph!Procs : proc[q].pc = "autocommit" => q = p
    /\ proc[p].to \in rows /\ proc[p].moves \subseteq Graph!Variants
    /\ Coming \/ proc[p].copy.nodes = Graph!Left(p) \cup After(p)

(* What the stages of threads and requests have at hand.                    *)
StageOK(p, r) ==
    /\ r.pc \in Machine \cup {"delete"} => r.asset \in Assets
    /\ p \in PoolThreads /\ r.pc \in {"count", "cleanup", "unlist", "sync"} =>
          r.asset \in Assets /\ r.to \in GraphCreatives
    /\ r.pc \in {"merge", "neomerge", "neosplit"} \cup Merging => r.to \in GraphCreatives
    /\ r.pc \in {"merge"} \cup Merging => r.from # r.to
    /\ r.pc = "attach" => r.to \in used \cup {Graph!None}

(* A thread at a competitor's asset that was marked in time has read the    *)
(* mark and joins nobody; no thread is about to join such a creative.       *)
Settled == late \cup regrouped
Kept == marked \ Settled
EarlyOK(r) ==
    /\ r.pc \in {"retag", "cluster", "attach"} =>
          /\ r.asset \in Kept => r.mark
          /\ r.mark => r.asset \in Lab
          /\ r.mark => r.asset \in marked \cup Settled \/ asset[r.asset] = "deleted"
    /\ r.pc \in {"cluster", "attach"} /\ r.erase => r.asset \in Settled
    /\ r.pc = "attach" => /\ r.asset \in Kept => r.to = Graph!None
                          /\ r.to # Graph!None => \A a \in Kept : family[a] # r.to

(* What is clustered is analysed, and material marked in time is alone.     *)
ApartInv ==
    /\ \A p \in Graph!Procs : EarlyOK(proc[p])
    /\ \A a \in Assets : family[a] # Graph!None => asset[a] \in {"completed", "failed"}
    /\ \A a \in Kept : Graph!MarkedApart(a)

StagesInv == \A p \in Graph!Procs : StageOK(p, proc[p])
GraphInv == Graph!TypeOK /\ StagesInv /\ MirrorInv /\ CopyInv /\ ApartInv

-----------------------------------------------------------------------------
(* One process moves.                                                      *)
LEMMA ProcessMoves ==
    ASSUME GraphInv, NEW p \in Graph!Procs, NEW r \in Graph!Process, Graph!Become(p, r)
    PROVE  /\ proc' \in [Graph!Procs -> Graph!Process] /\ proc'[p] = r
           /\ \A q \in Graph!Procs \ {p} : proc'[q] = proc[q]
BY DEF GraphInv, Graph!TypeOK, Graph!Become

(* The two kinds of processes, and what is known of one.                    *)
LEMMA ProcessIs ==
    ASSUME GraphInv, NEW p \in Graph!Procs
    PROVE  /\ proc[p] \in Graph!Process /\ StageOK(p, proc[p]) /\ EarlyOK(proc[p])
           /\ p \in PoolThreads \/ p \in Handlers
           /\ p \in PoolThreads => p \notin Handlers
BY CurationAssumption DEF GraphInv, Graph!TypeOK, StagesInv, ApartInv, Graph!Procs

LEMMA CountIs ==
    ASSUME GraphInv
    PROVE  /\ count \in [runs : 0..MaxRuns, human : 0..MaxHuman] /\ neo \in Graph!Copies
           /\ mirror \in Graph!Copies
BY DEF GraphInv, Graph!TypeOK

LEMMA RowsAre ==
    ASSUME GraphInv
    PROVE  /\ asset \in [Assets -> {"absent", "pending", "completed", "failed", "deleted"}]
           /\ late \subseteq Lab /\ marked \subseteq Lab /\ regrouped \subseteq Assets
           /\ family \in [Assets -> rows \cup {Graph!None}] /\ rows \subseteq used
           /\ used \subseteq GraphCreatives /\ Graph!None \notin rows
           /\ Lab \subseteq Assets
BY CurationAssumption DEF GraphInv, Graph!TypeOK

LEMMA IdleIs ==
    /\ Graph!Idle \in Graph!Process /\ Graph!Idle.pc = "idle"
    /\ Graph!Judging \in Graph!Process /\ Graph!Judging.pc = "judge"
<1>1. PICK no, i : no = FALSE /\ i = Graph!Idle
  OBVIOUS
<1>2. [nodes |-> {}, edges |-> {}] \in Graph!Copies
  BY DEF Graph!Copies
<1>3. i \in Graph!Process /\ i.pc = "idle"
  BY <1>1, <1>2 DEF Graph!Idle, Graph!Process
<1>4. PICK r : r = [i EXCEPT !.pc = "judge"]
  OBVIOUS
<1>5. r \in Graph!Process /\ r.pc = "judge"
  BY <1>3, <1>4 DEF Graph!Process
<1> QED BY <1>1, <1>3, <1>4, <1>5 DEF Graph!Judging

(* A rebuild on the way stays so while its process goes on.                 *)
LEMMA ComingStays ==
    ASSUME GraphInv, NEW p \in Graph!Procs, NEW r \in Graph!Process, Graph!Become(p, r),
           owed' = owed, proc[p].pc \in Pending => r.pc \in Pending
    PROVE  Coming => Coming'
BY ProcessMoves DEF Coming, Graph!Procs

(* A process that has not rebuilt the mirror leaves the one that has alone.  *)
LEMMA CopyStays ==
    ASSUME GraphInv, NEW p \in Graph!Procs, NEW r \in Graph!Process, Graph!Become(p, r),
           UNCHANGED <<family, rows>>, Coming => Coming', r.pc # "autocommit"
    PROVE  CopyInv'
<1>1. /\ proc'[p] = r /\ \A q \in Graph!Procs \ {p} : proc'[q] = proc[q]
  BY ProcessMoves
<1> SUFFICES ASSUME NEW x \in Graph!Procs, proc'[x].pc = "autocommit"
             PROVE  /\ \A q \in Graph!Procs : proc'[q].pc = "autocommit" => q = x
                    /\ proc'[x].to \in rows' /\ proc'[x].moves \subseteq Graph!Variants'
                    /\ Coming' \/ proc'[x].copy.nodes = Graph!Left(x)' \cup After(x)'
  BY DEF CopyInv, Graph!Procs
<1>2. x # p /\ proc'[x] = proc[x] /\ proc[x].pc = "autocommit"
  BY <1>1
<1>3. /\ \A q \in Graph!Procs : proc[q].pc = "autocommit" => q = x
      /\ proc[x].to \in rows /\ proc[x].moves \subseteq Graph!Variants
      /\ Coming \/ proc[x].copy.nodes = Graph!Left(x) \cup After(x)
  BY <1>2 DEF GraphInv, CopyInv
<1>4. Graph!Left(x)' = Graph!Left(x) /\ After(x)' = After(x) /\ Graph!Variants' = Graph!Variants
  BY <1>2 DEF Graph!Left, After, Graph!Merged, Graph!Cascade, Graph!Variants
<1>5. \A q \in Graph!Procs : proc'[q].pc = "autocommit" => q = x
  BY <1>1, <1>3
<1> QED BY <1>2, <1>3, <1>4, <1>5

(* What a thread has read of the marks stays good while marks and groups    *)
(* only settle and marked creatives only become fresh or empty.             *)
Settles ==
    /\ Settled \subseteq Settled' /\ Kept' \subseteq Kept /\ used \subseteq used'
    /\ \A a \in marked : a \in marked' \cup Settled' \/ asset'[a] = "deleted"
    /\ \A a \in Assets : asset[a] = "deleted" => asset'[a] = "deleted"
    /\ \A a \in Kept' : family'[a] \in {family[a], Graph!None} \/ family'[a] \notin used
LEMMA EarlyStays ==
    ASSUME GraphInv, NEW q \in Graph!Procs, NEW s, s = proc[q], Settles
    PROVE  EarlyOK(s)'
<1>1. EarlyOK(s) /\ StageOK(q, s)
  BY ProcessIs
<1>2. s.pc \in {"retag", "cluster", "attach"} => s.asset \in Assets
  BY <1>1 DEF StageOK, Machine
<1>3. s.pc = "attach" /\ s.to # Graph!None => \A a \in Kept' : family'[a] # s.to
  <2> SUFFICES ASSUME s.pc = "attach", s.to # Graph!None, NEW a \in Kept' PROVE family'[a] # s.to
    OBVIOUS
  <2>1. s.to \in used /\ a \in Kept
    BY <1>1 DEF StageOK, Settles
  <2>2. family[a] # s.to
    BY <1>1, <2>1 DEF EarlyOK
  <2> QED BY <2>1, <2>2 DEF Settles
<1>4. s.pc = "attach" /\ s.asset \in Kept' => s.to = Graph!None
  BY <1>1 DEF EarlyOK, Settles
<1>5. s.pc \in {"retag", "cluster", "attach"} /\ s.asset \in Kept' => s.mark
  BY <1>1, Zenon DEF EarlyOK, Settles
<1>6. s.pc \in {"cluster", "attach"} /\ s.erase => s.asset \in Settled'
  BY <1>1, Zenon DEF EarlyOK, Settles
<1>7. s.pc \in {"retag", "cluster", "attach"} /\ s.mark =>
         s.asset \in marked' \cup Settled' \/ asset'[s.asset] = "deleted"
  <2>1. s.asset \in Assets /\ (s.asset \in marked \cup Settled \/ asset[s.asset] = "deleted") =>
           s.asset \in marked' \cup Settled' \/ asset'[s.asset] = "deleted"
    BY DEF Settles
  <2> QED BY <1>1, <1>2, <2>1, Zenon DEF EarlyOK
<1>8. s.pc \in {"retag", "cluster", "attach"} /\ s.mark => s.asset \in Lab
  BY <1>1, Zenon DEF EarlyOK
<1> QED BY <1>3, <1>4, <1>5, <1>6, <1>7, <1>8, Zenon DEF EarlyOK

LEMMA EarliesStay ==
    ASSUME GraphInv, NEW p \in Graph!Procs, NEW r \in Graph!Process, Graph!Become(p, r),
           Settles, EarlyOK(r)'
    PROVE  \A q \in Graph!Procs : EarlyOK(proc[q])'
<1> SUFFICES ASSUME NEW q \in Graph!Procs PROVE EarlyOK(proc[q])'
  BY DEF Graph!Procs
<1>1. CASE q = p
  BY <1>1, ProcessMoves
<1>2. CASE q # p
  <2>1. PICK s : s = proc[q]
    OBVIOUS
  <2>2. proc'[q] = s
    BY <1>2, <2>1, ProcessMoves
  <2> QED BY <2>1, <2>2, EarlyStays
<1> QED BY <1>1, <1>2

(* A step that leaves the rows and the marks alone.                         *)
LEMMA QuietMoves ==
    ASSUME GraphInv, NEW p \in Graph!Procs, NEW r \in Graph!Process, Graph!Become(p, r),
           UNCHANGED <<asset, marked, late, regrouped, family, rows, used, mirror, owed, startup>>,
           neo' \in Graph!Copies, count' \in [runs : 0..MaxRuns, human : 0..MaxHuman],
           StageOK(p, r), EarlyOK(r), proc[p].pc \in Pending => r.pc \in Pending,
           CopyInv'
    PROVE  GraphInv'
<1>1. /\ proc' \in [Graph!Procs -> Graph!Process] /\ proc'[p] = r
      /\ \A q \in Graph!Procs \ {p} : proc'[q] = proc[q]
  BY ProcessMoves
<1>2. Graph!TypeOK'
  <2>1. UNCHANGED <<Graph!Procs, Graph!Process, Graph!Copies, Graph!Nodes>>
    BY DEF Graph!Procs, Graph!Process, Graph!Copies, Graph!Nodes
  <2> QED BY <1>1, <2>1 DEF GraphInv, Graph!TypeOK
<1>3. StagesInv'
  BY <1>1 DEF GraphInv, StagesInv, StageOK, Graph!Procs
<1>4. MirrorInv'
  <2>1. MirrorInv
    BY DEF GraphInv
  <2> QED BY <2>1, ComingStays DEF MirrorInv, Graph!Variants
<1>5. ApartInv'
  <2>1. Settles
    BY DEF Settles, Settled, Kept
  <2>2. EarlyOK(r)'
    BY DEF EarlyOK, Settled, Kept
  <2>3. \A q \in Graph!Procs : EarlyOK(proc[q])'
    BY <2>1, <2>2, EarliesStay
  <2> QED BY <2>3 DEF GraphInv, ApartInv, Kept, Settled, Graph!MarkedApart, Graph!Procs
<1> QED BY <1>2, <1>3, <1>4, <1>5 DEF GraphInv

(* An open request may only count itself.                                   *)
LEMMA RequestIs ==
    ASSUME GraphInv, NEW h \in Handlers, Graph!Request(h)
    PROVE  count' \in [runs : 0..MaxRuns, human : 0..MaxHuman] /\ proc[h].pc = "idle"
<1>1. PICK n \in 0..MaxHuman : n = count.human + 1
  BY CountIs, ScanAssumption DEF Graph!Request
<1>2. count' = [count EXCEPT !.human = n]
  BY <1>1, CountIs DEF Graph!Request
<1> QED BY <1>2, CountIs DEF Graph!Request, Graph!At

-----------------------------------------------------------------------------
(* The steps of an analysis.                                               *)
LEMMA StartKeeps ==
    ASSUME GraphInv, NEW t \in PoolThreads, NEW a \in Assets, Graph!Start(t, a) PROVE GraphInv'
<1>1. PICK i, r : i = Graph!Idle /\ r = [i EXCEPT !.pc = "tags", !.asset = a]
  OBVIOUS
<1>2. r \in Graph!Process /\ r.pc = "tags" /\ r.asset = a
  BY <1>1, IdleIs DEF Graph!Process
<1>3. t \in Graph!Procs
  BY DEF Graph!Procs
<1>4. count' \in [runs : 0..MaxRuns, human : 0..MaxHuman]
  <2>1. PICK n \in 0..MaxRuns : n = count.runs + 1
    BY CountIs, CurationAssumption DEF Graph!Start
  <2>2. count' = [count EXCEPT !.runs = n]
    BY <2>1 DEF Graph!Start
  <2> QED BY <2>2, CountIs
<1>5. StageOK(t, r) /\ EarlyOK(r)
  BY <1>2 DEF StageOK, EarlyOK, Machine, Merging
<1>6. proc[t].pc \notin Pending
  BY DEF Graph!Start, Graph!At, Pending
<1>7. /\ Graph!Become(t, r) /\ neo' = neo
      /\ UNCHANGED <<asset, marked, late, regrouped, family, rows, used, mirror, owed, startup>>
  BY <1>1 DEF Graph!Start, Graph!data
<1>8. CopyInv'
  BY <1>2, <1>3, <1>6, <1>7, ComingStays, CopyStays
<1> QED BY <1>2, <1>3, <1>4, <1>5, <1>6, <1>7, <1>8, CountIs, QuietMoves

LEMMA ReadTagsKeeps ==
    ASSUME GraphInv, NEW t \in PoolThreads, Graph!ReadTags(t) PROVE GraphInv'
<1>1. PICK q : q = proc[t]
  OBVIOUS
<1>2. PICK b \in BOOLEAN : b = (q.asset \in marked)
  <2>1. CASE q.asset \in marked
    <3>1. TRUE = (q.asset \in marked)
      BY <2>1
    <3> QED BY <3>1
  <2>2. CASE q.asset \notin marked
    <3>1. FALSE = (q.asset \in marked)
      BY <2>2
    <3> QED BY <3>1
  <2> QED BY <2>1, <2>2
<1>3. t \in Graph!Procs /\ q \in Graph!Process /\ StageOK(t, q) /\ q.pc = "tags"
  BY <1>1, ProcessIs DEF Graph!ReadTags, Graph!At, Graph!Procs
<1>4. PICK r : r = [q EXCEPT !.mark = b, !.pc = "retag"]
  OBVIOUS
<1>5. r \in Graph!Process /\ r.pc = "retag" /\ r.asset = q.asset /\ r.mark = b
  BY <1>3, <1>4 DEF Graph!Process
<1>6. StageOK(t, r)
  BY <1>3, <1>5 DEF StageOK, Machine, Merging
<1>7. EarlyOK(r)
  <2>1. q.asset \in Kept => b
    BY <1>2 DEF Kept
  <2>2. r.asset \in Kept => r.mark
    BY <1>5, <2>1, Zenon
  <2>3. b => q.asset \in marked \cup Settled /\ q.asset \in Lab
    BY <1>2, RowsAre
  <2>4. r.mark => r.asset \in marked \cup Settled /\ r.asset \in Lab
    BY <1>5, <2>3, Zenon
  <2>5. r.pc # "cluster" /\ r.pc # "attach"
    BY <1>5
  <2> QED BY <2>2, <2>4, <2>5, Zenon DEF EarlyOK
<1>8. proc[t].pc \notin Pending
  BY <1>1, <1>3 DEF Pending
<1>9. /\ Graph!Become(t, r) /\ neo' = neo /\ count' = count
      /\ UNCHANGED <<asset, marked, late, regrouped, family, rows, used, mirror, owed, startup>>
  BY <1>1, <1>2, <1>4 DEF Graph!ReadTags, Graph!data
<1>10. CopyInv'
  BY <1>3, <1>5, <1>8, <1>9, ComingStays, CopyStays
<1> QED BY <1>3, <1>5, <1>6, <1>7, <1>8, <1>9, <1>10, CountIs, QuietMoves

(* What a thread erases without having read it was marked too late.         *)
LEMMA WriteTagsKeeps ==
    ASSUME GraphInv, NEW t \in PoolThreads, Graph!WriteTags(t) PROVE GraphInv'
<1>1. PICK q : q = proc[t]
  OBVIOUS
<1>2. PICK b \in BOOLEAN : b = Graph!Erases(t)
  <2>1. CASE Graph!Erases(t)
    <3>1. TRUE = Graph!Erases(t)
      BY <2>1
    <3> QED BY <3>1
  <2>2. CASE ~Graph!Erases(t)
    <3>1. FALSE = Graph!Erases(t)
      BY <2>2 DEF Graph!Erases
    <3> QED BY <3>1
  <2> QED BY <2>1, <2>2
<1>3. /\ t \in Graph!Procs /\ q \in Graph!Process /\ StageOK(t, q) /\ q.pc = "retag"
      /\ EarlyOK(q)
  BY <1>1, ProcessIs DEF Graph!WriteTags, Graph!At, Graph!Procs
<1>4. PICK r : r = [q EXCEPT !.erase = b, !.pc = "cluster"]
  OBVIOUS
<1>5. /\ r \in Graph!Process /\ r.pc = "cluster" /\ r.asset = q.asset /\ r.erase = b
      /\ r.mark = q.mark
  BY <1>3, <1>4 DEF Graph!Process
<1>6. StageOK(t, r)
  BY <1>3, <1>5 DEF StageOK, Machine, Merging
<1>7. EarlyOK(r)
  <2>1. /\ q.asset \in Kept => q.mark
        /\ q.mark => q.asset \in Lab
        /\ q.mark => q.asset \in marked \cup Settled \/ asset[q.asset] = "deleted"
    BY <1>3 DEF EarlyOK
  <2>2. b => q.asset \in marked /\ ~q.mark
    BY <1>1, <1>2, Zenon DEF Graph!Erases
  <2>3. b => q.asset \in Settled
    <3>1. q.asset \in marked /\ q.asset \notin Kept => q.asset \in Settled
      BY DEF Kept
    <3> QED BY <2>1, <2>2, <3>1, Zenon
  <2>4. r.erase => r.asset \in Settled
    BY <1>5, <2>3, Zenon
  <2>5. /\ r.asset \in Kept => r.mark
        /\ r.mark => r.asset \in Lab
        /\ r.mark => r.asset \in marked \cup Settled \/ asset[r.asset] = "deleted"
    BY <1>5, <2>1, Zenon
  <2>6. r.pc # "attach"
    BY <1>5
  <2> QED BY <2>4, <2>5, <2>6, Zenon DEF EarlyOK
<1>8. proc[t].pc \notin Pending
  BY <1>1, <1>3 DEF Pending
<1>9. /\ Graph!Become(t, r) /\ neo' = neo /\ count' = count
      /\ UNCHANGED <<asset, marked, late, regrouped, family, rows, used, mirror, owed, startup>>
  BY <1>1, <1>2, <1>4 DEF Graph!WriteTags, Graph!data
<1>10. CopyInv'
  BY <1>3, <1>5, <1>8, <1>9, ComingStays, CopyStays
<1> QED BY <1>3, <1>5, <1>6, <1>7, <1>8, <1>9, <1>10, CountIs, QuietMoves

(* A marked asset joins nobody, another no creative of marked material.     *)
LEMMA ClusterKeeps ==
    ASSUME GraphInv, NEW t \in PoolThreads, Graph!Cluster(t) PROVE GraphInv'
<1>1. PICK q : q = proc[t]
  OBVIOUS
<1>2. /\ t \in Graph!Procs /\ q \in Graph!Process /\ StageOK(t, q) /\ q.pc = "cluster"
      /\ EarlyOK(q)
  BY <1>1, ProcessIs DEF Graph!Cluster, Graph!At, Graph!Procs
<1>3. PICK c \in Graph!Open(t) \cup {Graph!None} :
         Graph!Become(t, [proc[t] EXCEPT !.to = c, !.pc = "attach",
                                         !.from = family[proc[t].asset]])
  BY DEF Graph!Cluster
<1>4. PICK f : f = family[q.asset]
  OBVIOUS
<1>5. f \in GraphCreatives \cup {Graph!None} /\ c \in GraphCreatives \cup {Graph!None}
  <2>1. q.asset \in Assets
    BY <1>2 DEF StageOK, Machine
  <2> QED BY <1>3, <1>4, <2>1, RowsAre DEF Graph!Open
<1>6. PICK r : r = [q EXCEPT !.to = c, !.pc = "attach", !.from = f]
  OBVIOUS
<1>7. /\ r \in Graph!Process /\ r.pc = "attach" /\ r.asset = q.asset /\ r.erase = q.erase
      /\ r.mark = q.mark /\ r.to = c
  BY <1>2, <1>5, <1>6 DEF Graph!Process
<1>8. StageOK(t, r)
  <2>1. c \in used \cup {Graph!None}
    BY <1>3, RowsAre DEF Graph!Open
  <2> QED BY <1>2, <1>7, <2>1 DEF StageOK, Machine, Merging
<1>9. EarlyOK(r)
  <2>1. /\ q.asset \in Kept => q.mark
        /\ q.mark => q.asset \in Lab
        /\ q.mark => q.asset \in marked \cup Settled \/ asset[q.asset] = "deleted"
        /\ q.erase => q.asset \in Settled
    BY <1>2 DEF EarlyOK
  <2>2. /\ r.asset \in Kept => r.mark
        /\ r.mark => r.asset \in Lab
        /\ r.mark => r.asset \in marked \cup Settled \/ asset[r.asset] = "deleted"
        /\ r.erase => r.asset \in Settled
    BY <1>7, <2>1, Zenon
  <2>3. r.asset \in Kept => r.to = Graph!None
    <3> SUFFICES ASSUME r.asset \in Kept PROVE r.to = Graph!None
      OBVIOUS
    <3>1. q.mark
      BY <1>7, <2>1
    <3>2. Graph!Marked(t)
      BY <1>1, <3>1, Zenon DEF Graph!Marked
    <3> QED BY <1>3, <1>7, <3>2 DEF Graph!Open
  <2>4. r.to # Graph!None => \A a \in Kept : family[a] # r.to
    <3> SUFFICES ASSUME c # Graph!None, NEW a \in Kept PROVE family[a] # c
      BY <1>7
    <3>1. Graph!Of(c) \cap marked = {}
      BY <1>3 DEF Graph!Open
    <3> QED BY <3>1, RowsAre DEF Graph!Of, Kept
  <2> QED BY <2>2, <2>3, <2>4, Zenon DEF EarlyOK
<1>10. proc[t].pc \notin Pending
  BY <1>1, <1>2 DEF Pending
<1>11. /\ Graph!Become(t, r) /\ neo' = neo /\ count' = count
       /\ UNCHANGED <<asset, marked, late, regrouped, family, rows, used, mirror, owed, startup>>
  BY <1>1, <1>3, <1>4, <1>6 DEF Graph!Cluster, Graph!data
<1>12. CopyInv'
  BY <1>2, <1>7, <1>10, <1>11, ComingStays, CopyStays
<1> QED BY <1>2, <1>7, <1>8, <1>9, <1>10, <1>11, <1>12, CountIs, QuietMoves

(* The last stages only change where the process is, and Neo4j.             *)
LEMMA GotoKeeps ==
    ASSUME GraphInv, NEW p \in Graph!Procs, proc[p].pc \in Pending, neo' \in Graph!Copies,
           NEW pc \in {"count", "cleanup", "unlist", "sync", "rebuild", "remirror"},
           Graph!Goto(p, pc), pc = "sync" => p \in PoolThreads,
           p \in PoolThreads /\ pc \notin {"rebuild", "remirror"} =>
              proc[p].pc \in {"count", "cleanup", "unlist"},
           UNCHANGED <<asset, marked, late, regrouped, family, rows, used, mirror, owed, startup,
                       count>>
    PROVE  GraphInv'
<1>1. PICK q : q = proc[p]
  OBVIOUS
<1>2. q \in Graph!Process /\ StageOK(p, q)
  BY <1>1, ProcessIs
<1>3. PICK r : r = [q EXCEPT !.pc = pc]
  OBVIOUS
<1>4. r \in Graph!Process /\ r.pc = pc /\ r.asset = q.asset /\ r.to = q.to
  BY <1>2, <1>3 DEF Graph!Process, Pending
<1>5. Graph!Become(p, r)
  BY <1>1, <1>3 DEF Graph!Goto
<1>6. StageOK(p, r)
  BY <1>1, <1>2, <1>4 DEF StageOK, Machine, Merging, Pending
<1>7. EarlyOK(r)
  BY <1>4 DEF EarlyOK, Pending
<1>8. CopyInv'
  BY <1>4, <1>5, ComingStays, CopyStays DEF Pending
<1> QED BY <1>4, <1>5, <1>6, <1>7, <1>8, CountIs, QuietMoves DEF Pending

LEMMA SyncAssetKeeps ==
    ASSUME GraphInv, NEW t \in PoolThreads, Graph!SyncAsset(t) PROVE GraphInv'
<1>1. t \in Graph!Procs /\ proc[t].pc = "sync" /\ StageOK(t, proc[t])
  BY ProcessIs DEF Graph!SyncAsset, Graph!At, Graph!Procs
<1>2. neo' \in Graph!Copies
  <2>1. PICK c, a : c = proc[t].to /\ a = proc[t].asset
    OBVIOUS
  <2>2. c \in GraphCreatives /\ a \in Assets
    BY <1>1, <2>1 DEF StageOK
  <2>3. \/ neo' = neo
        \/ neo' = [nodes |-> neo.nodes \cup {c, a}, edges |-> neo.edges \cup {<<c, a>>}]
    BY <2>1 DEF Graph!SyncAsset
  <2> QED BY <2>2, <2>3, CountIs DEF Graph!Copies, Graph!Nodes
<1>3. /\ Graph!Goto(t, "rebuild")
      /\ UNCHANGED <<asset, marked, late, regrouped, family, rows, used, mirror, owed, startup,
                     count>>
  BY DEF Graph!SyncAsset, Graph!data
<1> QED BY <1>1, <1>2, <1>3, GotoKeeps DEF Pending

LEMMA CountVariantsKeeps ==
    ASSUME GraphInv, NEW p \in Graph!Procs, Graph!CountVariants(p) PROVE GraphInv'
<1>1. PICK pc : pc = IF Graph!Empty(proc[p].from) THEN "cleanup" ELSE Graph!AfterCount(p)
  OBVIOUS
<1>2. pc \in {"cleanup", "sync", "rebuild"} /\ (pc = "sync" => p \in PoolThreads)
  BY <1>1 DEF Graph!AfterCount
<1>3. /\ Graph!Goto(p, pc) /\ proc[p].pc = "count" /\ neo' = neo
      /\ UNCHANGED <<asset, marked, late, regrouped, family, rows, used, mirror, owed, startup,
                     count>>
  BY <1>1 DEF Graph!CountVariants, Graph!At, Graph!data
<1> QED BY <1>2, <1>3, CountIs, GotoKeeps DEF Pending

LEMMA UnlistKeeps ==
    ASSUME GraphInv, NEW p \in Graph!Procs, Graph!Unlist(p) PROVE GraphInv'
<1>1. PICK pc : pc = Graph!AfterCount(p)
  OBVIOUS
<1>2. pc \in {"sync", "rebuild"} /\ (pc = "sync" => p \in PoolThreads)
  BY <1>1 DEF Graph!AfterCount
<1>3. /\ Graph!Goto(p, pc) /\ proc[p].pc = "unlist"
      /\ UNCHANGED <<asset, marked, late, regrouped, family, rows, used, mirror, owed, startup,
                     count>>
  BY <1>1 DEF Graph!Unlist, Graph!At, Graph!data
<1>4. neo' \in Graph!Copies
  BY CountIs DEF Graph!Unlist, Graph!Without, Graph!Copies
<1> QED BY <1>2, <1>3, <1>4, GotoKeeps DEF Pending

(* Whoever fails before the commit, or judges no more, is free.             *)
LEMMA EndsKeep ==
    ASSUME GraphInv, NEW p \in Graph!Procs, Graph!Fails(p) \/ Graph!AutoEnds(p) PROVE GraphInv'
<1>1. PICK r \in {Graph!Idle, Graph!Judging} : Graph!Become(p, r)
  BY DEF Graph!Fails, Graph!AutoEnds
<1>2. r \in Graph!Process /\ r.pc \in {"idle", "judge"}
  BY <1>1, IdleIs
<1>3. StageOK(p, r) /\ EarlyOK(r)
  BY <1>2 DEF StageOK, EarlyOK, Machine, Merging
<1>4. proc[p].pc \notin Pending
  BY DEF Graph!Fails, Graph!AutoEnds, Pending
<1>5. /\ neo' = neo /\ count' = count
      /\ UNCHANGED <<asset, marked, late, regrouped, family, rows, used, mirror, owed, startup>>
  BY DEF Graph!Fails, Graph!AutoEnds, Graph!data
<1>6. CopyInv'
  BY <1>1, <1>2, <1>4, <1>5, ComingStays, CopyStays
<1> QED BY <1>1, <1>2, <1>3, <1>4, <1>5, <1>6, CountIs, QuietMoves

-----------------------------------------------------------------------------
(* The steps that change rows go on to rebuild the mirror.                  *)
LEMMA RowsMove ==
    ASSUME GraphInv, NEW p \in Graph!Procs, NEW r \in Graph!Process, Graph!Become(p, r),
           r.pc \in Pending, StageOK(p, r),
           asset' \in [Assets -> {"absent", "pending", "completed", "failed", "deleted"}],
           late' \subseteq Lab, marked' \subseteq Lab, regrouped' \subseteq Assets,
           used \subseteq used', family' \in [Assets -> rows' \cup {Graph!None}],
           rows' \subseteq used', used' \subseteq GraphCreatives, neo' \in Graph!Copies,
           UNCHANGED <<mirror, owed, startup>>, ApartInv',
           count' \in [runs : 0..MaxRuns, human : 0..MaxHuman],
           \A q \in Graph!Procs : proc[q].pc = "autocommit" =>
              proc[q].to \in rows' /\ proc[q].moves \subseteq Graph!Variants'
    PROVE  GraphInv'
<1>1. /\ proc' \in [Graph!Procs -> Graph!Process] /\ proc'[p] = r
      /\ \A q \in Graph!Procs \ {p} : proc'[q] = proc[q]
  BY ProcessMoves
<1>2. Graph!TypeOK'
  <2>1. UNCHANGED <<Graph!Procs, Graph!Process, Graph!Copies, Graph!Nodes>>
    BY DEF Graph!Procs, Graph!Process, Graph!Copies, Graph!Nodes
  <2> QED BY <1>1, <2>1 DEF GraphInv, Graph!TypeOK
<1>3. StagesInv'
  BY <1>1 DEF GraphInv, StagesInv, StageOK, Graph!Procs
<1>4. Coming'
  BY <1>1 DEF Coming, Graph!Procs
<1>5. MirrorInv'
  BY <1>4 DEF MirrorInv
<1>6. CopyInv'
  <2> SUFFICES ASSUME NEW x \in Graph!Procs, proc'[x].pc = "autocommit"
               PROVE  /\ \A q \in Graph!Procs : proc'[q].pc = "autocommit" => q = x
                      /\ proc'[x].to \in rows' /\ proc'[x].moves \subseteq Graph!Variants'
    BY <1>4 DEF CopyInv, Graph!Procs
  <2>1. x # p /\ proc'[x] = proc[x]
    BY <1>1 DEF Pending
  <2>2. \A q \in Graph!Procs : proc[q].pc = "autocommit" => q = x
    BY <2>1 DEF GraphInv, CopyInv
  <2>3. \A q \in Graph!Procs : proc'[q].pc = "autocommit" => q = x
    BY <1>1, <2>2 DEF Pending
  <2> QED BY <2>1, <2>3
<1> QED BY <1>2, <1>3, <1>5, <1>6 DEF GraphInv

(* What a merge that has not committed yet needs.                           *)
LEMMA CopyIs ==
    ASSUME GraphInv, NEW q \in Graph!Procs, proc[q].pc = "autocommit"
    PROVE  proc[q].to \in rows /\ proc[q].moves \subseteq Graph!Variants
BY DEF GraphInv, CopyInv

LEMMA FreshIs ==
    ASSUME GraphInv, NEW c \in Graph!Fresh
    PROVE  c \in GraphCreatives /\ c \notin used
<1>1. used \subseteq GraphCreatives /\ GraphCreatives # used
  BY DEF GraphInv, Graph!TypeOK, Graph!Fresh
<1>2. \E d \in GraphCreatives : d \notin used
  BY <1>1
<1> QED BY <1>1, <1>2 DEF Graph!Fresh

(* A variant of marked material comes into a new creative.                  *)
LEMMA AttachKeeps ==
    ASSUME GraphInv, NEW t \in PoolThreads, Graph!Attach(t) PROVE GraphInv'
<1>1. PICK q, a : q = proc[t] /\ a = proc[t].asset
  OBVIOUS
<1>2. /\ t \in Graph!Procs /\ q \in Graph!Process /\ StageOK(t, q) /\ q.pc = "attach"
      /\ EarlyOK(q)
  BY <1>1, ProcessIs DEF Graph!Attach, Graph!At, Graph!Procs
<1>3. PICK c \in (IF q.to = Graph!None THEN Graph!Fresh ELSE {q.to} \cap rows) :
         /\ rows' = rows \cup {c} /\ used' = used \cup {c}
         /\ family' = [family EXCEPT ![a] = c]
         /\ asset' = [asset EXCEPT ![a] = "completed"]
         /\ marked' = (IF q.erase THEN marked \ {a} ELSE marked)
                        \cup (IF q.mark THEN {a} ELSE {})
         /\ Graph!Become(t, [q EXCEPT !.to = c, !.held = {<<c, a>>},
              !.pc = IF q.from \in {Graph!None, c} THEN "sync" ELSE "count"])
  BY <1>1 DEF Graph!Attach
<1>4. a \in Assets /\ a = q.asset /\ asset[a] # "deleted"
  BY <1>1, <1>2 DEF StageOK, Machine, Graph!Attach, Graph!Stored
<1>5. /\ c \in GraphCreatives
      /\ q.to = Graph!None => c \notin used
      /\ q.to # Graph!None => c = q.to
  BY <1>3, FreshIs DEF GraphInv, Graph!TypeOK
<1>6. PICK pc, held : /\ pc = IF q.from \in {Graph!None, c} THEN "sync" ELSE "count"
                      /\ held = {<<c, a>>}
  OBVIOUS
<1>7. PICK r : r = [q EXCEPT !.to = c, !.held = held, !.pc = pc]
  OBVIOUS
<1>8. r \in Graph!Process /\ r.pc \in {"sync", "count"} /\ r.asset = a /\ r.to = c
  <2>1. held \in SUBSET (GraphCreatives \X Assets)
    BY <1>4, <1>5, <1>6
  <2>2. pc \in {"sync", "count"}
    BY <1>6
  <2> QED BY <1>1, <1>2, <1>5, <1>7, <2>1, <2>2 DEF Graph!Process
<1>9. Graph!Become(t, r)
  BY <1>3, <1>6, <1>7
<1>10. StageOK(t, r) /\ r.pc \in Pending
  BY <1>4, <1>5, <1>8 DEF StageOK, Machine, Merging, Pending
<1>11. UNCHANGED <<late, regrouped, neo, mirror, owed, startup, count>>
  BY DEF Graph!Attach
<1>12. /\ family'[a] = c /\ asset'[a] = "completed"
       /\ \A x \in Assets \ {a} : family'[x] = family[x] /\ asset'[x] = asset[x]
  BY <1>3, <1>4, RowsAre
<1>13. q.mark => a \in marked \cup Settled
  <2>1. q.mark => a \in marked \cup Settled \/ asset[a] = "deleted"
    BY <1>2, <1>4, Zenon DEF EarlyOK
  <2> QED BY <1>4, <2>1, Zenon
<1>14. q.erase => a \in Settled
  BY <1>2, <1>4, Zenon DEF EarlyOK
<1>15. Settled' = Settled /\ Settled \subseteq Assets
  BY <1>11, RowsAre DEF Settled
<1>16. /\ marked \ Settled = marked' \ Settled
       /\ marked' \subseteq marked \cup Settled /\ marked \subseteq marked' \cup Settled
  <2>1. CASE q.mark
    <3>1. marked' \cup {a} = marked \cup {a} \/ marked' = marked \cup {a}
      BY <1>3, <2>1
    <3> QED BY <1>3, <1>13, <1>14, <2>1
  <2>2. CASE ~q.mark
    <3>1. CASE q.erase
      BY <1>3, <1>14, <2>2, <3>1
    <3>2. CASE ~q.erase
      BY <1>3, <2>2, <3>2
    <3> QED BY <3>1, <3>2
  <2> QED BY <2>1, <2>2
<1>17. Kept' = Kept
  BY <1>15, <1>16 DEF Kept
<1>18. a \in Kept => q.to = Graph!None /\ c \notin used
  BY <1>2, <1>4, <1>5 DEF EarlyOK
<1>19. \A x \in Kept : x # a => family[x] # c
  <2> SUFFICES ASSUME NEW x \in Kept PROVE family[x] # c
    OBVIOUS
  <2>1. CASE q.to = Graph!None
    <3>1. x \in Assets /\ family[x] \in used \cup {Graph!None} /\ c \notin used /\ c # Graph!None
      BY <1>5, <2>1, RowsAre, CurationAssumption DEF Kept
    <3> QED BY <3>1
  <2>2. CASE q.to # Graph!None
    BY <1>2, <1>5, <2>2 DEF EarlyOK
  <2> QED BY <2>1, <2>2
<1>20. /\ asset' \in [Assets -> {"absent", "pending", "completed", "failed", "deleted"}]
       /\ marked' \subseteq Lab /\ used \subseteq used'
       /\ family' \in [Assets -> rows' \cup {Graph!None}] /\ rows' \subseteq used'
       /\ used' \subseteq GraphCreatives
  <2>1. q.mark => a \in Lab
    BY <1>2, <1>4, Zenon DEF EarlyOK
  <2>2. marked' \subseteq Lab
    <3>1. CASE q.mark
      BY <1>3, <2>1, <3>1, RowsAre
    <3>2. CASE ~q.mark
      BY <1>3, <3>2, RowsAre
    <3> QED BY <3>1, <3>2
  <2>3. asset' \in [Assets -> {"absent", "pending", "completed", "failed", "deleted"}]
    BY <1>3, RowsAre
  <2>4. family' \in [Assets -> rows' \cup {Graph!None}]
    BY <1>3, RowsAre
  <2> QED BY <1>3, <1>5, <2>2, <2>3, <2>4, RowsAre
<1>21. ApartInv'
  <2>1. Settles
    <3>1. \A x \in Kept' : family'[x] \in {family[x], Graph!None} \/ family'[x] \notin used
      BY <1>12, <1>17, <1>18, RowsAre DEF Kept
    <3>2. \A x \in marked : x \in marked' \cup Settled' \/ asset'[x] = "deleted"
      BY <1>15, <1>16
    <3>3. \A x \in Assets : asset[x] = "deleted" => asset'[x] = "deleted"
      BY <1>4, <1>12
    <3> QED BY <1>15, <1>17, <1>20, <3>1, <3>2, <3>3 DEF Settles
  <2>2. EarlyOK(r)'
    BY <1>8 DEF EarlyOK
  <2>3. \A p \in Graph!Procs : EarlyOK(proc[p])'
    BY <1>2, <1>8, <1>9, <2>1, <2>2, EarliesStay
  <2>4. \A x \in Assets : family'[x] # Graph!None => asset'[x] \in {"completed", "failed"}
    BY <1>12 DEF GraphInv, ApartInv
  <2>5. ASSUME NEW x \in Kept PROVE Graph!MarkedApart(x)'
    <3>1. x \in Assets /\ \A b \in Assets \ {x} : family[x] = family[b] => family[x] = Graph!None
      BY RowsAre DEF GraphInv, ApartInv, Kept, Graph!MarkedApart
    <3>2. CASE x = a
      <4>1. \A b \in Assets \ {a} : family'[b] \in used \cup {Graph!None}
        BY <1>12, RowsAre
      <4>2. c \notin used /\ c # Graph!None
        BY <1>5, <1>18, <3>2, CurationAssumption
      <4> QED BY <1>12, <3>2, <4>1, <4>2 DEF Graph!MarkedApart
    <3>3. CASE x # a
      BY <1>12, <1>19, <3>1, <3>3 DEF Graph!MarkedApart
    <3> QED BY <3>2, <3>3
  <2> QED BY <1>17, <2>3, <2>4, <2>5 DEF ApartInv, Graph!Procs
<1>22. \A p \in Graph!Procs : proc[p].pc = "autocommit" =>
          proc[p].to \in rows' /\ proc[p].moves \subseteq Graph!Variants'
  <2>1. Graph!Variants \subseteq Graph!Variants' /\ rows \subseteq rows'
    BY <1>3, <1>5, <1>12, CurationAssumption DEF Graph!Variants
  <2> QED BY <2>1, CopyIs
<1> QED BY <1>2, <1>8, <1>9, <1>10, <1>11, <1>20, <1>21, <1>22, CountIs, RowsAre, RowsMove

(* Marks and groups settle: what is apart stays so.                         *)
LEMMA ApartStays ==
    ASSUME GraphInv, NEW p \in Graph!Procs, NEW r \in Graph!Process, Graph!Become(p, r),
           Settles, EarlyOK(r)',
           \A x \in Assets : family'[x] # Graph!None => asset'[x] \in {"completed", "failed"},
           \A x \in Kept' : \A b \in Assets \ {x} :
              family'[x] = family'[b] => family'[x] = Graph!None
    PROVE  ApartInv'
<1>1. \A q \in Graph!Procs : EarlyOK(proc[q])'
  BY EarliesStay
<1> QED BY <1>1 DEF ApartInv, Graph!Procs, Graph!MarkedApart

LEMMA ApartIs ==
    ASSUME GraphInv
    PROVE  /\ \A x \in Assets : family[x] # Graph!None => asset[x] \in {"completed", "failed"}
           /\ \A x \in Kept : \A b \in Assets \ {x} :
                 family[x] = family[b] => family[x] = Graph!None
           /\ Kept \subseteq Assets /\ Settled \subseteq Assets
BY RowsAre DEF GraphInv, ApartInv, Graph!MarkedApart, Kept, Settled

(* What goes with a creative by cascade shares none afterwards.             *)
LEMMA CleanupKeeps ==
    ASSUME GraphInv, NEW p \in Graph!Procs, Graph!Cleanup(p) PROVE GraphInv'
<1>1. PICK q, c : q = proc[p] /\ c = proc[p].from
  OBVIOUS
<1>2. q \in Graph!Process /\ StageOK(p, q) /\ q.pc = "cleanup"
  BY <1>1, ProcessIs DEF Graph!Cleanup, Graph!At
<1>3. PICK r : r = [q EXCEPT !.pc = "unlist"]
  OBVIOUS
<1>4. r \in Graph!Process /\ r.pc = "unlist" /\ r.asset = q.asset /\ r.to = q.to
  BY <1>2, <1>3 DEF Graph!Process
<1>5. Graph!Become(p, r)
  BY <1>1, <1>3 DEF Graph!Cleanup, Graph!Goto
<1>6. StageOK(p, r) /\ r.pc \in Pending /\ EarlyOK(r)'
  BY <1>2, <1>4 DEF StageOK, Machine, Merging, Pending, EarlyOK
<1>7. /\ rows' = rows \ {c} /\ family' = Graph!Cascade(c)
      /\ UNCHANGED <<asset, marked, late, regrouped, used, neo, mirror, owed, startup, count>>
  BY <1>1 DEF Graph!Cleanup
<1>8. \A a \in Assets : family'[a] = IF family[a] = c THEN Graph!None ELSE family[a]
  BY <1>7 DEF Graph!Cascade
<1>9. family' \in [Assets -> rows' \cup {Graph!None}]
  BY <1>7, RowsAre DEF Graph!Cascade
<1>10. Settles
  BY <1>7, <1>8, ApartIs DEF Settles, Settled, Kept
<1>11. ApartInv'
  <2>1. Kept' = Kept
    BY <1>7 DEF Kept, Settled
  <2>2. \A x \in Kept' : \A b \in Assets \ {x} :
           family'[x] = family'[b] => family'[x] = Graph!None
    BY <1>8, <2>1, ApartIs
  <2>3. \A x \in Assets : family'[x] # Graph!None => asset'[x] \in {"completed", "failed"}
    BY <1>7, <1>8, ApartIs
  <2> QED BY <1>4, <1>5, <1>6, <1>10, <2>2, <2>3, ApartStays
<1>12. ASSUME NEW x \in Graph!Procs, proc[x].pc = "autocommit"
       PROVE  proc[x].to \in rows' /\ proc[x].moves \subseteq Graph!Variants'
  <2>1. proc[x].to # c /\ Graph!Of(c) \cap proc[x].moves = {}
    BY <1>1, <1>12 DEF Graph!Cleanup, Graph!Free, Graph!At
  <2>2. proc[x].to \in rows /\ proc[x].moves \subseteq Graph!Variants
    BY <1>12, CopyIs
  <2> QED BY <1>7, <1>8, <2>1, <2>2 DEF Graph!Of, Graph!Variants
<1> QED BY <1>4, <1>5, <1>6, <1>7, <1>9, <1>11, <1>12, CountIs, RowsAre, RowsMove

(* The mirror is read from the rows, while no merge holds its lock.         *)
LEMMA RebuildKeeps ==
    ASSUME GraphInv, NEW p \in Graph!Procs, Graph!Rebuild(p) PROVE GraphInv'
<1>1. PICK r \in {Graph!Idle, Graph!Judging} : Graph!Become(p, r)
  BY DEF Graph!Rebuild
<1>2. r \in Graph!Process /\ r.pc \in {"idle", "judge"}
  BY <1>1, IdleIs
<1>3. /\ proc' \in [Graph!Procs -> Graph!Process] /\ proc'[p] = r
      /\ \A q \in Graph!Procs \ {p} : proc'[q] = proc[q]
  BY <1>1, <1>2, ProcessMoves
<1>4. mirror' \in Graph!Copies /\ mirror'.nodes = rows \cup Graph!Variants
  <2>1. \A a \in Graph!Variants : Graph!Seen(p)[a] \in GraphCreatives
    <3> SUFFICES ASSUME NEW a \in Graph!Variants PROVE Graph!Seen(p)[a] \in GraphCreatives
      OBVIOUS
    <3>1. family[a] \in GraphCreatives
      BY RowsAre DEF Graph!Variants
    <3>2. CASE \E c \in GraphCreatives : <<c, a>> \in proc[p].held
      BY <3>2 DEF Graph!Seen
    <3>3. CASE ~\E c \in GraphCreatives : <<c, a>> \in proc[p].held
      BY <3>1, <3>3 DEF Graph!Seen
    <3> QED BY <3>2, <3>3
  <2>2. {<<Graph!Seen(p)[a], a>> : a \in Graph!Variants} \subseteq GraphCreatives \X Assets
    BY <2>1 DEF Graph!Variants
  <2>3. rows \cup Graph!Variants \subseteq GraphCreatives \cup Assets
    BY RowsAre DEF Graph!Variants
  <2> QED BY <2>2, <2>3 DEF Graph!Rebuild, Graph!Copies, Graph!Nodes
<1>5. /\ UNCHANGED <<asset, marked, late, regrouped, family, rows, used, neo, startup, count>>
      /\ owed' = FALSE
  BY DEF Graph!Rebuild, Graph!data
<1>6. Graph!TypeOK'
  <2>1. UNCHANGED <<Graph!Procs, Graph!Process, Graph!Copies, Graph!Nodes>>
    BY DEF Graph!Procs, Graph!Process, Graph!Copies, Graph!Nodes
  <2> QED BY <1>3, <1>4, <1>5, <2>1 DEF GraphInv, Graph!TypeOK
<1>7. StagesInv'
  <2>1. StageOK(p, r)'
    BY <1>2 DEF StageOK, Machine, Merging
  <2> QED BY <1>3, <1>5, <2>1 DEF GraphInv, StagesInv, StageOK, Graph!Procs
<1>8. MirrorInv'
  BY <1>4, <1>5 DEF MirrorInv, Graph!Variants
<1>9. CopyInv'
  <2>1. \A q \in Graph!Procs : proc'[q].pc # "autocommit"
    BY <1>2, <1>3 DEF Graph!Rebuild, Graph!Unlocked, Graph!At
  <2> QED BY <2>1 DEF CopyInv, Graph!Procs
<1>10. ApartInv'
  <2>1. Settles /\ Kept' = Kept
    BY <1>5 DEF Settles, Settled, Kept
  <2>2. EarlyOK(r)'
    BY <1>2 DEF EarlyOK
  <2> QED BY <1>1, <1>2, <1>5, <2>1, <2>2, ApartIs, ApartStays
<1> QED BY <1>6, <1>7, <1>8, <1>9, <1>10 DEF GraphInv

(* Whoever stops between a change and the rebuild leaves the mirror behind.  *)
LEMMA StopsKeeps ==
    ASSUME GraphInv, NEW p \in Graph!Procs, Graph!Stops(p) PROVE GraphInv'
<1>1. PICK r : r = Graph!Idle
  OBVIOUS
<1>2. r \in Graph!Process /\ r.pc = "idle" /\ Graph!Become(p, r)
  BY <1>1, IdleIs DEF Graph!Stops
<1>3. /\ proc' \in [Graph!Procs -> Graph!Process] /\ proc'[p] = r
      /\ \A q \in Graph!Procs \ {p} : proc'[q] = proc[q]
  BY <1>2, ProcessMoves
<1>4. /\ UNCHANGED <<marked, late, regrouped, family, rows, used, neo, mirror, startup, count>>
      /\ owed' = TRUE
  BY DEF Graph!Stops
<1>5. /\ asset' \in [Assets -> {"absent", "pending", "completed", "failed", "deleted"}]
      /\ \A x \in Assets : asset'[x] \in {asset[x], "failed"}
      /\ \A x \in Assets : asset[x] = "deleted" => asset'[x] = "deleted"
  <2>1. CASE asset' = asset
    BY <2>1, RowsAre
  <2>2. CASE asset' # asset
    <3>1. PICK a \in Graph!Stored : asset' = [asset EXCEPT ![a] = "failed"]
      BY <2>2 DEF Graph!Stops
    <3> QED BY <3>1, RowsAre DEF Graph!Stored
  <2> QED BY <2>1, <2>2
<1>6. Graph!TypeOK'
  <2>1. UNCHANGED <<Graph!Procs, Graph!Process, Graph!Copies, Graph!Nodes>>
    BY DEF Graph!Procs, Graph!Process, Graph!Copies, Graph!Nodes
  <2> QED BY <1>3, <1>4, <1>5, <2>1 DEF GraphInv, Graph!TypeOK
<1>7. StagesInv'
  <2>1. StageOK(p, r)'
    BY <1>2 DEF StageOK, Machine, Merging
  <2> QED BY <1>3, <1>4, <2>1 DEF GraphInv, StagesInv, StageOK, Graph!Procs
<1>8. Coming' /\ MirrorInv'
  BY <1>4 DEF MirrorInv, Coming
<1>9. CopyInv'
  BY <1>2, <1>4, <1>8, CopyStays
<1>10. ApartInv'
  <2>1. Settles /\ Kept' = Kept
    BY <1>4, <1>5 DEF Settles, Settled, Kept
  <2>2. EarlyOK(r)'
    BY <1>2 DEF EarlyOK
  <2>3. \A x \in Assets : family'[x] # Graph!None => asset'[x] \in {"completed", "failed"}
    BY <1>4, <1>5, ApartIs
  <2> QED BY <1>2, <1>4, <2>1, <2>2, <2>3, ApartIs, ApartStays
<1> QED BY <1>6, <1>7, <1>8, <1>9, <1>10 DEF GraphInv

-----------------------------------------------------------------------------
(* Automatic merges.                                                        *)
LEMMA NeoMergedIs ==
    ASSUME GraphInv, NEW p \in Graph!Procs, proc[p].to \in GraphCreatives
    PROVE  Graph!NeoMerged(p) \in Graph!Copies
<1>1. PICK c, d : c = proc[p].from /\ d = proc[p].to
  OBVIOUS
<1>2. neo.edges \subseteq GraphCreatives \X Assets /\ neo.nodes \subseteq GraphCreatives \cup Assets
  BY CountIs DEF Graph!Copies, Graph!Nodes
<1>3. PICK moved : moved = IF d \in neo.nodes THEN {<<d, e[2]>> : e \in {x \in neo.edges : x[1] = c}}
                           ELSE {}
  OBVIOUS
<1>4. moved \subseteq GraphCreatives \X Assets
  <2>1. \A e \in neo.edges : e[2] \in Assets
    BY <1>2
  <2> QED BY <1>1, <1>3, <2>1
<1>5. Graph!NeoMerged(p) =
        [nodes |-> neo.nodes \ {c}, edges |-> {e \in neo.edges : e[1] # c} \cup moved]
  BY <1>1, <1>3 DEF Graph!NeoMerged
<1> QED BY <1>2, <1>4, <1>5 DEF Graph!Copies, Graph!Nodes

LEMMA AutoMergeKeeps ==
    ASSUME GraphInv, NEW p \in Graph!Procs, Graph!AutoMerge(p) PROVE GraphInv'
<1>1. PICK c \in rows : \E d \in rows \ {c} :
         Graph!Become(p, [Graph!Idle EXCEPT !.pc = "automerge", !.from = c, !.to = d,
                                            !.moves = Graph!Of(c)])
  BY DEF Graph!AutoMerge
<1>2. PICK d \in rows \ {c} :
         Graph!Become(p, [Graph!Idle EXCEPT !.pc = "automerge", !.from = c, !.to = d,
                                            !.moves = Graph!Of(c)])
  BY <1>1
<1>3. PICK s, i, r : /\ s = Graph!Of(c) /\ i = Graph!Idle
                     /\ r = [i EXCEPT !.pc = "automerge", !.from = c, !.to = d, !.moves = s]
  OBVIOUS
<1>4. s \subseteq Assets /\ c \in GraphCreatives /\ d \in GraphCreatives
  BY <1>3, RowsAre DEF Graph!Of
<1>5. r \in Graph!Process /\ r.pc = "automerge" /\ r.to = d /\ r.from = c
  BY <1>3, <1>4, IdleIs DEF Graph!Process
<1>6. Graph!Become(p, r)
  BY <1>2, <1>3
<1>7. StageOK(p, r) /\ EarlyOK(r)
  BY <1>4, <1>5 DEF StageOK, Machine, Merging, EarlyOK
<1>8. proc[p].pc \notin Pending
  BY DEF Graph!AutoMerge, Graph!At, Pending
<1>9. /\ neo' = neo /\ count' = count
      /\ UNCHANGED <<asset, marked, late, regrouped, family, rows, used, mirror, owed, startup>>
  BY DEF Graph!AutoMerge, Graph!data
<1>10. CopyInv'
  BY <1>5, <1>6, <1>8, <1>9, ComingStays, CopyStays
<1> QED BY <1>5, <1>6, <1>7, <1>8, <1>9, <1>10, CountIs, QuietMoves

(* A merge moves variants to a creative that stays.                         *)
LEMMA MergedIs ==
    ASSUME GraphInv, NEW p \in Graph!Procs, proc[p].to \in rows, proc[p].from # proc[p].to,
           proc[p].moves \subseteq Graph!Variants
    PROVE  /\ Graph!Merged(p) \in [Assets -> Graph!Left(p) \cup {Graph!None}]
           /\ Graph!Left(p) \subseteq rows /\ proc[p].to \in Graph!Left(p)
           /\ After(p) \subseteq Graph!Variants
           /\ \A a \in Assets \ Graph!Together(p) : Graph!Merged(p)[a] = family[a]
           /\ \A a \in Assets : Graph!Merged(p)[a] # Graph!None =>
                 Graph!Merged(p)[a] = proc[p].to \/ Graph!Merged(p)[a] = family[a]
<1>1. PICK c, d, s : c = proc[p].from /\ d = proc[p].to /\ s = proc[p].moves
  OBVIOUS
<1>2. PICK m : m = Graph!Merged(p)
  OBVIOUS
<1>3. m = [a \in Assets |-> IF a \in s THEN d
                            ELSE IF family[a] = c THEN Graph!None ELSE family[a]]
  BY <1>1, <1>2 DEF Graph!Merged, Graph!Cascade
<1>4. Graph!Left(p) = rows \ {c} /\ d \in rows \ {c}
  BY <1>1 DEF Graph!Left
<1>5. m \in [Assets -> (rows \ {c}) \cup {Graph!None}]
  BY <1>3, <1>4, RowsAre
<1>6. \A a \in Assets : m[a] # Graph!None => a \in Graph!Variants
  BY <1>1, <1>3 DEF Graph!Variants
<1>7. \A a \in Assets \ Graph!Together(p) : m[a] = family[a]
  BY <1>1, <1>3 DEF Graph!Together, Graph!Of
<1>8. \A a \in Assets : m[a] # Graph!None => m[a] = d \/ m[a] = family[a]
  BY <1>3
<1> QED BY <1>1, <1>2, <1>4, <1>5, <1>6, <1>7, <1>8 DEF After

LEMMA AutoMirrorKeeps ==
    ASSUME GraphInv, NEW p \in Graph!Procs, Graph!AutoMirror(p) PROVE GraphInv'
<1>1. PICK q : q = proc[p]
  OBVIOUS
<1>2. q \in Graph!Process /\ StageOK(p, q) /\ q.pc = "automerge"
  BY <1>1, ProcessIs DEF Graph!AutoMirror, Graph!At
<1>3. /\ q.to \in rows /\ q.moves \subseteq Graph!Variants /\ q.from # q.to
      /\ \A x \in Graph!Procs : proc[x].pc # "autocommit"
  BY <1>1, <1>2 DEF Graph!AutoMirror, Graph!Unlocked, Graph!At, StageOK, Merging
<1>4. PICK copy : copy = [nodes |-> Graph!Left(p) \cup After(p),
                          edges |-> {<<Graph!Merged(p)[a], a>> : a \in After(p)}]
  OBVIOUS
<1>5. copy \in Graph!Copies /\ copy.nodes = Graph!Left(p) \cup After(p)
  <2>1. \A a \in After(p) : Graph!Merged(p)[a] \in GraphCreatives /\ a \in Assets
    BY <1>1, <1>3, MergedIs, RowsAre DEF After
  <2>2. {<<Graph!Merged(p)[a], a>> : a \in After(p)} \subseteq GraphCreatives \X Assets
    BY <2>1
  <2>3. Graph!Left(p) \cup After(p) \subseteq GraphCreatives \cup Assets
    BY <2>1, RowsAre DEF Graph!Left
  <2> QED BY <1>4, <2>2, <2>3 DEF Graph!Copies, Graph!Nodes
<1>6. PICK r : r = [q EXCEPT !.pc = "autocommit", !.copy = copy]
  OBVIOUS
<1>7. /\ r \in Graph!Process /\ r.pc = "autocommit" /\ r.copy = copy /\ r.to = q.to
      /\ r.from = q.from /\ r.moves = q.moves
  BY <1>2, <1>5, <1>6 DEF Graph!Process
<1>8. Graph!Become(p, r)
  BY <1>1, <1>4, <1>6 DEF Graph!AutoMirror, After
<1>9. StageOK(p, r) /\ EarlyOK(r)
  BY <1>2, <1>7 DEF StageOK, Machine, Merging, EarlyOK
<1>10. /\ count' = count
       /\ UNCHANGED <<asset, marked, late, regrouped, family, rows, used, mirror, owed, startup>>
  BY DEF Graph!AutoMirror, Graph!data
<1>11. neo' \in Graph!Copies
  <2>1. proc[p].to \in GraphCreatives
    BY <1>1, <1>3, RowsAre
  <2> QED BY <2>1, NeoMergedIs, CountIs DEF Graph!AutoMirror
<1>12. proc'[p] = r /\ \A x \in Graph!Procs \ {p} : proc'[x] = proc[x]
  BY <1>7, <1>8, ProcessMoves
<1>13. CopyInv'
  <2>1. \A x \in Graph!Procs : proc'[x].pc = "autocommit" => x = p
    BY <1>3, <1>12
  <2>2. Graph!Left(p)' = Graph!Left(p) /\ After(p)' = After(p) /\ Graph!Variants' = Graph!Variants
    BY <1>1, <1>7, <1>10, <1>12
       DEF Graph!Left, After, Graph!Merged, Graph!Cascade, Graph!Variants
  <2>3. /\ proc'[p].to \in rows' /\ proc'[p].moves \subseteq Graph!Variants'
        /\ proc'[p].copy.nodes = Graph!Left(p)' \cup After(p)'
    BY <1>3, <1>5, <1>7, <1>10, <1>12, <2>2
  <2> QED BY <2>1, <2>3 DEF CopyInv, Graph!Procs
<1>14. proc[p].pc \notin Pending
  BY <1>1, <1>2 DEF Pending
<1> QED BY <1>7, <1>8, <1>9, <1>10, <1>11, <1>13, <1>14, CountIs, QuietMoves

(* Whoever is merged is regrouped: the others keep what they had.           *)
LEMMA RegroupKeeps ==
    ASSUME GraphInv, NEW p \in Graph!Procs, NEW r \in Graph!Process, Graph!Become(p, r),
           r.pc \in {"neomerge", "judge"}, proc[p].pc \in {"merge", "autocommit"},
           proc[p].to \in rows, proc[p].moves \subseteq Graph!Variants,
           rows' = Graph!Left(p), family' = Graph!Merged(p),
           regrouped' = regrouped \cup Graph!Together(p), UNCHANGED <<asset, marked, late, used>>
    PROVE  /\ ApartInv' /\ family' \in [Assets -> rows' \cup {Graph!None}] /\ rows' \subseteq rows
           /\ regrouped' \subseteq Assets
<1>1. proc[p].from # proc[p].to /\ proc[p].moves \subseteq Assets
  BY ProcessIs DEF StageOK, Merging, Graph!Process
<1>2. /\ family' \in [Assets -> rows' \cup {Graph!None}] /\ rows' \subseteq rows
      /\ \A a \in Assets \ Graph!Together(p) : family'[a] = family[a]
      /\ \A a \in Assets : family'[a] # Graph!None =>
            family'[a] = proc[p].to \/ family'[a] = family[a]
      /\ \A a \in Assets : family'[a] # Graph!None => a \in Graph!Variants
  BY <1>1, MergedIs DEF After
<1>3. Graph!Together(p) \subseteq Assets
  BY <1>1 DEF Graph!Together, Graph!Of
<1>4. regrouped' \subseteq Assets
  BY <1>3, RowsAre
<1>5. Settled \subseteq Settled' /\ Kept' \subseteq Kept /\ Kept' \cap Graph!Together(p) = {}
  BY DEF Settled, Kept
<1>6. \A x \in Kept' : x \in Assets /\ family'[x] = family[x] /\ family[x] # proc[p].to
  BY <1>2, <1>5, ApartIs DEF Graph!Together, Graph!Of
<1>7. Settles
  BY <1>5, <1>6 DEF Settles
<1>8. EarlyOK(r)'
  BY DEF EarlyOK
<1>9. \A x \in Kept' : \A b \in Assets \ {x} : family'[x] = family'[b] => family'[x] = Graph!None
  <2> SUFFICES ASSUME NEW x \in Kept', NEW b \in Assets \ {x}, family'[x] = family'[b],
                      family'[x] # Graph!None
               PROVE  FALSE
    OBVIOUS
  <2>1. family[x] = family'[x] /\ family[x] # proc[p].to /\ x \in Kept
    BY <1>5, <1>6
  <2>2. family'[b] = family[b]
    BY <1>2, <2>1
  <2> QED BY <2>1, <2>2, ApartIs
<1>10. \A x \in Assets : family'[x] # Graph!None => asset'[x] \in {"completed", "failed"}
  BY <1>2, ApartIs DEF Graph!Variants
<1> QED BY <1>2, <1>4, <1>7, <1>8, <1>9, <1>10, ApartStays

LEMMA AutoCommitKeeps ==
    ASSUME GraphInv, NEW p \in Graph!Procs, Graph!AutoCommit(p) PROVE GraphInv'
<1>1. PICK r : r = Graph!Judging
  OBVIOUS
<1>2. r \in Graph!Process /\ r.pc = "judge" /\ Graph!Become(p, r)
  BY <1>1, IdleIs DEF Graph!AutoCommit
<1>3. /\ proc' \in [Graph!Procs -> Graph!Process] /\ proc'[p] = r
      /\ \A q \in Graph!Procs \ {p} : proc'[q] = proc[q]
  BY <1>2, ProcessMoves
<1>4. /\ rows' = Graph!Left(p) /\ family' = Graph!Merged(p)
      /\ regrouped' = regrouped \cup Graph!Together(p) /\ mirror' = proc[p].copy
      /\ UNCHANGED <<asset, marked, late, used, neo, owed, startup, count>>
      /\ proc[p].pc = "autocommit"
  BY DEF Graph!AutoCommit, Graph!At
<1>5. /\ \A q \in Graph!Procs : proc[q].pc = "autocommit" => q = p
      /\ proc[p].to \in rows /\ proc[p].moves \subseteq Graph!Variants
      /\ Coming \/ proc[p].copy.nodes = Graph!Left(p) \cup After(p)
  BY <1>4 DEF GraphInv, CopyInv
<1>6. /\ ApartInv' /\ family' \in [Assets -> rows' \cup {Graph!None}] /\ rows' \subseteq rows
      /\ regrouped' \subseteq Assets
  BY <1>2, <1>4, <1>5, RegroupKeeps
<1>7. proc[p].copy \in Graph!Copies
  BY ProcessIs DEF Graph!Process
<1>8. Graph!TypeOK'
  <2>1. UNCHANGED <<Graph!Procs, Graph!Process, Graph!Copies, Graph!Nodes>>
    BY DEF Graph!Procs, Graph!Process, Graph!Copies, Graph!Nodes
  <2> QED BY <1>3, <1>4, <1>6, <1>7, <2>1 DEF GraphInv, Graph!TypeOK
<1>9. StagesInv'
  <2>1. StageOK(p, r)'
    BY <1>2 DEF StageOK, Machine, Merging
  <2> QED BY <1>3, <1>4, <2>1 DEF GraphInv, StagesInv, StageOK, Graph!Procs
<1>10. MirrorInv'
  <2>1. CASE Coming
    <3>1. Coming'
      BY <1>2, <1>4, <2>1, ComingStays DEF Pending
    <3> QED BY <3>1 DEF MirrorInv
  <2>2. CASE proc[p].copy.nodes = Graph!Left(p) \cup After(p)
    <3>1. After(p) = Graph!Variants'
      BY <1>4 DEF After, Graph!Variants
    <3> QED BY <1>4, <2>2, <3>1 DEF MirrorInv
  <2> QED BY <1>5, <2>1, <2>2
<1>11. CopyInv'
  <2>1. \A q \in Graph!Procs : proc'[q].pc # "autocommit"
    BY <1>2, <1>3, <1>5
  <2> QED BY <2>1 DEF CopyInv, Graph!Procs
<1> QED BY <1>6, <1>8, <1>9, <1>10, <1>11 DEF GraphInv

-----------------------------------------------------------------------------
(* Uploads and marks, and the reconciliation of Neo4j: nobody moves.        *)
LEMMA NobodyMoves ==
    ASSUME GraphInv, UNCHANGED <<family, rows, used, mirror, owed, proc>>
    PROVE  StagesInv' /\ MirrorInv' /\ CopyInv'
<1>1. StagesInv' /\ MirrorInv'
  BY DEF GraphInv, StagesInv, StageOK, MirrorInv, Coming, Graph!Procs, Graph!Variants
<1>2. CopyInv'
  <2>1. CopyInv /\ Coming' = Coming /\ Graph!Variants' = Graph!Variants
    BY DEF GraphInv, Coming, Graph!Procs, Graph!Variants
  <2>2. ASSUME NEW p \in Graph!Procs
        PROVE  Graph!Left(p)' = Graph!Left(p) /\ After(p)' = After(p)
    BY DEF Graph!Left, After, Graph!Merged, Graph!Cascade
  <2> QED BY <2>1, <2>2 DEF CopyInv, Graph!Procs
<1> QED BY <1>1, <1>2

LEMMA UploadKeeps ==
    ASSUME GraphInv, NEW a \in Assets, Graph!Upload(a) PROVE GraphInv'
<1>1. /\ asset' = [asset EXCEPT ![a] = "pending"] /\ asset[a] = "absent"
      /\ UNCHANGED <<marked, late, regrouped, family, rows, used, neo, mirror, owed, proc,
                     startup, count>>
  BY DEF Graph!Upload
<1>2. /\ asset' \in [Assets -> {"absent", "pending", "completed", "failed", "deleted"}]
      /\ \A x \in Assets : x # a => asset'[x] = asset[x]
  BY <1>1, RowsAre
<1>3. Graph!TypeOK'
  <2>1. UNCHANGED <<Graph!Procs, Graph!Process, Graph!Copies, Graph!Nodes>>
    BY DEF Graph!Procs, Graph!Process, Graph!Copies, Graph!Nodes
  <2> QED BY <1>1, <1>2, <2>1 DEF GraphInv, Graph!TypeOK
<1>4. ApartInv'
  <2>1. Settles /\ Kept' = Kept
    BY <1>1, <1>2 DEF Settles, Settled, Kept
  <2>2. ASSUME NEW q \in Graph!Procs PROVE EarlyOK(proc[q])'
    <3>1. PICK s : s = proc[q]
      OBVIOUS
    <3>2. EarlyOK(s)'
      BY <2>1, <3>1, EarlyStays
    <3> QED BY <1>1, <3>1, <3>2
  <2>3. \A x \in Assets : family'[x] # Graph!None => asset'[x] \in {"completed", "failed"}
    BY <1>1, <1>2, ApartIs
  <2> QED BY <1>1, <2>1, <2>2, <2>3, ApartIs DEF ApartInv, Graph!Procs, Graph!MarkedApart
<1> QED BY <1>1, <1>3, <1>4, NobodyMoves DEF GraphInv

(* A mark in time finds no thread at the asset and no variant of it.        *)
LEMMA MarkReferenceKeeps ==
    ASSUME GraphInv, NEW a \in Assets, Graph!MarkReference(a) PROVE GraphInv'
<1>1. /\ a \in Lab /\ marked' = marked \cup {a}
      /\ late' = IF asset[a] = "pending" /\ Graph!Unclaimed(a) THEN late ELSE late \cup {a}
      /\ UNCHANGED <<asset, regrouped, family, rows, used, neo, mirror, owed, proc, startup,
                     count>>
  BY DEF Graph!MarkReference
<1>2. Graph!TypeOK'
  <2>1. UNCHANGED <<Graph!Procs, Graph!Process, Graph!Copies, Graph!Nodes>>
    BY DEF Graph!Procs, Graph!Process, Graph!Copies, Graph!Nodes
  <2>2. marked' \subseteq Lab /\ late' \subseteq Lab
    BY <1>1, RowsAre
  <2> QED BY <1>1, <2>1, <2>2 DEF GraphInv, Graph!TypeOK
<1>3. ApartInv'
  <2>1. /\ \A x \in Kept' : x \in Kept \/ (x = a /\ asset[a] = "pending" /\ Graph!Unclaimed(a))
        /\ Settled \subseteq Settled' /\ marked \subseteq marked'
    BY <1>1 DEF Kept, Settled
  <2>2. \A x \in Kept' : x \in Kept \/
           (family[x] = Graph!None /\ \A p \in Graph!Procs : proc[p].asset # x)
    BY <2>1, ApartIs DEF Graph!Unclaimed
  <2>3. ASSUME NEW q \in Graph!Procs PROVE EarlyOK(proc[q])'
    <3>1. PICK s : s = proc[q]
      OBVIOUS
    <3>2. EarlyOK(s) /\ proc'[q] = s /\ (s.asset \in Kept' => s.asset \in Kept)
      BY <1>1, <2>2, <3>1, ProcessIs
    <3>3. s.pc = "attach" /\ s.to # Graph!None => \A x \in Kept' : family[x] # s.to
      BY <2>2, <3>2 DEF EarlyOK
    <3>4. s.pc \in {"retag", "cluster", "attach"} =>
            /\ s.asset \in Kept' => s.mark
            /\ s.mark => s.asset \in Lab
            /\ s.mark => s.asset \in marked' \cup Settled' \/ asset[s.asset] = "deleted"
      <4>1. s.asset \in marked \cup Settled => s.asset \in marked' \cup Settled'
        BY <2>1
      <4> QED BY <3>2, <4>1, Zenon DEF EarlyOK
    <3>5. s.pc \in {"cluster", "attach"} /\ s.erase => s.asset \in Settled'
      <4>1. s.asset \in Settled => s.asset \in Settled'
        BY <2>1
      <4> QED BY <3>2, <4>1, Zenon DEF EarlyOK
    <3>6. s.pc = "attach" /\ s.asset \in Kept' => s.to = Graph!None
      BY <3>2 DEF EarlyOK
    <3>7. EarlyOK(s)'
      BY <1>1, <3>3, <3>4, <3>5, <3>6, Zenon DEF EarlyOK
    <3> QED BY <3>2, <3>7
  <2>4. ASSUME NEW x \in Kept' PROVE Graph!MarkedApart(x)'
    BY <1>1, <2>2, ApartIs DEF Graph!MarkedApart
  <2> QED BY <1>1, <2>3, <2>4, ApartIs DEF ApartInv, Graph!Procs
<1> QED BY <1>1, <1>2, <1>3, NobodyMoves DEF GraphInv

LEMMA ReconcileKeeps ==
    ASSUME GraphInv, Graph!ReconcileRead \/ Graph!ReconcilePrune PROVE GraphInv'
<1>1. UNCHANGED <<asset, marked, late, regrouped, family, rows, used, mirror, owed, proc, count>>
  BY DEF Graph!ReconcileRead, Graph!ReconcilePrune, Graph!data
<1>2. /\ neo' \in Graph!Copies
      /\ startup' \in [pc : {"before", "read", "done"}, ids : SUBSET Graph!Nodes]
  <2>1. CASE Graph!ReconcileRead
    <3>1. rows \cup Graph!Variants \subseteq Graph!Nodes
      BY RowsAre DEF Graph!Variants, Graph!Nodes
    <3> QED BY <2>1, <3>1, CountIs DEF Graph!ReconcileRead
  <2>2. CASE Graph!ReconcilePrune
    BY <2>2, CountIs DEF Graph!ReconcilePrune, Graph!Pruned, Graph!Copies
  <2> QED BY <2>1, <2>2
<1>3. Graph!TypeOK'
  <2>1. UNCHANGED <<Graph!Procs, Graph!Process, Graph!Copies, Graph!Nodes>>
    BY DEF Graph!Procs, Graph!Process, Graph!Copies, Graph!Nodes
  <2> QED BY <1>1, <1>2, <2>1 DEF GraphInv, Graph!TypeOK
<1>4. ApartInv'
  BY <1>1 DEF GraphInv, ApartInv, EarlyOK, Kept, Settled, Graph!Procs, Graph!MarkedApart
<1> QED BY <1>1, <1>3, <1>4, NobodyMoves DEF GraphInv

-----------------------------------------------------------------------------
(* What people do.                                                         *)
LEMMA HandlerIs ==
    ASSUME GraphInv, NEW h \in Handlers
    PROVE  /\ h \in Graph!Procs /\ h \notin PoolThreads
           /\ proc[h] \in Graph!Process /\ StageOK(h, proc[h])
<1>1. h \in Graph!Procs
  BY DEF Graph!Procs
<1> QED BY <1>1, ProcessIs, CurationAssumption

(* A request is read: nothing changes but who is at work, and perhaps Neo4j. *)
LEMMA RequestKeeps ==
    ASSUME GraphInv, NEW h \in Handlers, Graph!Request(h), NEW r \in Graph!Process,
           Graph!Become(h, r), r.pc \in {"merge", "split", "delete"},
           r.pc = "merge" => r.to \in GraphCreatives /\ r.from # r.to,
           r.pc = "delete" => r.asset \in Assets, neo' \in Graph!Copies,
           UNCHANGED <<asset, marked, late, regrouped, family, rows, used, mirror, owed, startup>>
    PROVE  GraphInv'
<1>1. StageOK(h, r) /\ EarlyOK(r)
  BY HandlerIs DEF StageOK, EarlyOK, Machine, Merging
<1>2. proc[h].pc \notin Pending
  BY RequestIs DEF Pending
<1>3. CopyInv'
  BY <1>2, HandlerIs, ComingStays, CopyStays
<1> QED BY <1>1, <1>2, <1>3, RequestIs, HandlerIs, QuietMoves

LEMMA RequestsKeep ==
    ASSUME GraphInv, NEW h \in Handlers, Graph!Merge(h) \/ Graph!Split(h) \/ Graph!Delete(h)
    PROVE  GraphInv'
<1>1. family \in [Assets -> rows \cup {Graph!None}] /\ rows \subseteq GraphCreatives
  BY RowsAre
<1>2. CASE Graph!Merge(h)
  <2>1. PICK c \in rows : \E d \in rows \ {c} :
           Graph!Become(h, [Graph!Idle EXCEPT !.pc = "merge", !.from = c, !.to = d,
                                              !.moves = Graph!Of(c)])
    BY <1>2 DEF Graph!Merge
  <2>2. PICK d \in rows \ {c} :
           Graph!Become(h, [Graph!Idle EXCEPT !.pc = "merge", !.from = c, !.to = d,
                                              !.moves = Graph!Of(c)])
    BY <2>1
  <2>3. PICK s : s = Graph!Of(c)
    OBVIOUS
  <2>4. s \subseteq Assets /\ c \in GraphCreatives /\ d \in GraphCreatives
    BY <1>1, <2>3 DEF Graph!Of
  <2>5. PICK i, r : i = Graph!Idle /\ r = [i EXCEPT !.pc = "merge", !.from = c, !.to = d, !.moves = s]
    OBVIOUS
  <2>6. r \in Graph!Process /\ r.pc = "merge" /\ r.to = d /\ r.from = c
    BY <2>4, <2>5, IdleIs DEF Graph!Process
  <2>7. Graph!Become(h, r)
    BY <2>2, <2>3, <2>5
  <2> QED BY <1>2, <2>4, <2>6, <2>7, CountIs, RequestKeeps DEF Graph!Merge, Graph!data
<1>3. CASE Graph!Split(h)
  <2>1. PICK c \in rows : \E s \in (SUBSET Graph!Of(c)) \ {{}} :
           Graph!Become(h, [Graph!Idle EXCEPT !.pc = "split", !.from = c, !.moves = s])
    BY <1>3 DEF Graph!Split
  <2>2. PICK s \in (SUBSET Graph!Of(c)) \ {{}} :
           Graph!Become(h, [Graph!Idle EXCEPT !.pc = "split", !.from = c, !.moves = s])
    BY <2>1
  <2>3. s \subseteq Assets /\ c \in GraphCreatives
    BY <1>1 DEF Graph!Of
  <2>4. PICK i, r : i = Graph!Idle /\ r = [i EXCEPT !.pc = "split", !.from = c, !.moves = s]
    OBVIOUS
  <2>5. r \in Graph!Process /\ r.pc = "split"
    BY <2>3, <2>4, IdleIs DEF Graph!Process
  <2>6. Graph!Become(h, r)
    BY <2>2, <2>4
  <2> QED BY <1>3, <2>5, <2>6, CountIs, RequestKeeps DEF Graph!Split, Graph!data
<1>4. CASE Graph!Delete(h)
  <2>1. PICK a \in Graph!Stored :
           LET left == {e[1] : e \in {x \in neo.edges : x[2] = a}}
               alone == {c \in left : \A e \in neo.edges : e[1] = c => e[2] = a}
           IN /\ neo' \in {neo, Graph!Without({a} \cup alone)}
              /\ Graph!Become(h, [Graph!Idle EXCEPT !.pc = "delete", !.asset = a, !.from = family[a]])
    BY <1>4 DEF Graph!Delete
  <2>2. PICK f : f = family[a]
    OBVIOUS
  <2>3. a \in Assets /\ f \in GraphCreatives \cup {Graph!None}
    BY <1>1, <2>2 DEF Graph!Stored
  <2>4. PICK i, r : i = Graph!Idle /\ r = [i EXCEPT !.pc = "delete", !.asset = a, !.from = f]
    OBVIOUS
  <2>5. r \in Graph!Process /\ r.pc = "delete" /\ r.asset = a
    BY <2>3, <2>4, IdleIs DEF Graph!Process
  <2>6. Graph!Become(h, r)
    BY <2>1, <2>2, <2>4
  <2>7. neo' \in Graph!Copies
    BY <2>1, CountIs DEF Graph!Without, Graph!Copies
  <2> QED BY <1>4, <2>3, <2>5, <2>6, <2>7, RequestKeeps DEF Graph!Delete, Graph!data
<1> QED BY <1>2, <1>3, <1>4

LEMMA MergeCommitKeeps ==
    ASSUME GraphInv, NEW h \in Handlers, Graph!MergeCommit(h) PROVE GraphInv'
<1>1. PICK q, d : q = proc[h] /\ d = proc[h].to
  OBVIOUS
<1>2. /\ h \in Graph!Procs /\ h \notin PoolThreads /\ q \in Graph!Process /\ StageOK(h, q)
      /\ q.pc = "merge"
  BY <1>1, HandlerIs DEF Graph!MergeCommit, Graph!At
<1>3. /\ rows' = Graph!Left(h) /\ d \in rows /\ proc[h].moves \subseteq Graph!Variants
      /\ family' = Graph!Merged(h) /\ regrouped' = regrouped \cup Graph!Together(h)
      /\ UNCHANGED <<asset, marked, late, used, neo, mirror, owed, startup, count>>
  BY <1>1 DEF Graph!MergeCommit
<1>4. PICK last \in SUBSET q.moves :
         Graph!Become(h, [q EXCEPT !.pc = "neomerge", !.held = {q.to} \X last])
  BY <1>1 DEF Graph!MergeCommit
<1>5. PICK held : held = {q.to} \X last
  OBVIOUS
<1>6. PICK r : r = [q EXCEPT !.pc = "neomerge", !.held = held]
  OBVIOUS
<1>7. r \in Graph!Process /\ r.pc = "neomerge" /\ r.to = d /\ d \in GraphCreatives
  <2>1. d \in GraphCreatives /\ q.to = d
    BY <1>1, <1>3, RowsAre
  <2>2. q.moves \subseteq Assets
    BY <1>2 DEF Graph!Process
  <2>3. held \in SUBSET (GraphCreatives \X Assets)
    BY <1>5, <2>1, <2>2
  <2> QED BY <1>2, <1>6, <2>1, <2>3 DEF Graph!Process
<1>8. Graph!Become(h, r)
  BY <1>4, <1>5, <1>6
<1>9. StageOK(h, r) /\ r.pc \in Pending
  BY <1>2, <1>7 DEF StageOK, Machine, Merging, Pending
<1>10. /\ ApartInv' /\ family' \in [Assets -> rows' \cup {Graph!None}] /\ rows' \subseteq rows
       /\ regrouped' \subseteq Assets
  BY <1>1, <1>2, <1>3, <1>7, <1>8, RegroupKeeps
<1>11. ASSUME NEW x \in Graph!Procs, proc[x].pc = "autocommit"
       PROVE  proc[x].to \in rows' /\ proc[x].moves \subseteq Graph!Variants'
  <2>1. proc[x].to # proc[h].from /\ Graph!Together(h) \cap proc[x].moves = {}
    BY <1>11 DEF Graph!MergeCommit, Graph!Free, Graph!At
  <2>2. proc[x].to \in rows /\ proc[x].moves \subseteq Graph!Variants
    BY <1>11, CopyIs
  <2>3. \A a \in Assets \ Graph!Together(h) : family'[a] = family[a]
    BY <1>1, <1>2, <1>3, MergedIs DEF StageOK, Merging
  <2> QED BY <1>3, <2>1, <2>2, <2>3 DEF Graph!Left, Graph!Variants
<1> QED BY <1>2, <1>3, <1>7, <1>8, <1>9, <1>10, <1>11, CountIs, RowsAre, RowsMove

(* What is split out shares its new creative with nobody else.              *)
LEMMA SplitCommitKeeps ==
    ASSUME GraphInv, NEW h \in Handlers, Graph!SplitCommit(h) PROVE GraphInv'
<1>1. PICK q, s : q = proc[h] /\ s = proc[h].moves
  OBVIOUS
<1>2. /\ h \in Graph!Procs /\ h \notin PoolThreads /\ q \in Graph!Process /\ StageOK(h, q)
      /\ q.pc = "split" /\ s \subseteq Graph!Variants /\ s \subseteq Assets
  BY <1>1, HandlerIs DEF Graph!SplitCommit, Graph!At, Graph!Process
<1>3. PICK c \in Graph!Fresh :
         /\ rows' = rows \cup {c} /\ used' = used \cup {c}
         /\ family' = [a \in Assets |-> IF a \in s THEN c ELSE family[a]]
         /\ Graph!Become(h, [q EXCEPT !.pc = "neosplit", !.to = c, !.held = {c} \X s])
  BY <1>1 DEF Graph!SplitCommit
<1>4. c \in GraphCreatives /\ c \notin used /\ c # Graph!None
  BY FreshIs, CurationAssumption
<1>5. PICK held : held = {c} \X s
  OBVIOUS
<1>6. PICK r : r = [q EXCEPT !.pc = "neosplit", !.to = c, !.held = held]
  OBVIOUS
<1>7. r \in Graph!Process /\ r.pc = "neosplit" /\ r.to = c
  <2>1. held \in SUBSET (GraphCreatives \X Assets)
    BY <1>2, <1>4, <1>5
  <2> QED BY <1>2, <1>4, <1>6, <2>1 DEF Graph!Process
<1>8. Graph!Become(h, r)
  BY <1>3, <1>5, <1>6
<1>9. StageOK(h, r) /\ r.pc \in Pending /\ EarlyOK(r)'
  BY <1>2, <1>4, <1>7 DEF StageOK, Machine, Merging, Pending, EarlyOK
<1>10. /\ UNCHANGED <<asset, marked, late, neo, mirror, owed, startup, count>>
       /\ regrouped' = regrouped \cup s
  BY <1>1 DEF Graph!SplitCommit
<1>11. family' \in [Assets -> rows' \cup {Graph!None}]
  BY <1>3, RowsAre
<1>12. /\ Settled \subseteq Settled' /\ Kept' \subseteq Kept /\ Kept' \cap s = {}
       /\ \A x \in Kept' : x \in Assets /\ family'[x] = family[x]
  <2>1. Settled \subseteq Settled' /\ Kept' \subseteq Kept /\ Kept' \cap s = {}
    BY <1>10 DEF Settled, Kept
  <2> QED BY <1>3, <2>1, ApartIs
<1>13. Settles
  BY <1>3, <1>10, <1>12 DEF Settles
<1>14. ApartInv'
  <2>1. \A x \in Kept' : \A b \in Assets \ {x} :
           family'[x] = family'[b] => family'[x] = Graph!None
    <3> SUFFICES ASSUME NEW x \in Kept', NEW b \in Assets \ {x}, family'[x] = family'[b]
                 PROVE  family'[x] = Graph!None
      OBVIOUS
    <3>1. x \in Kept /\ x \in Assets /\ family'[x] = family[x]
      BY <1>12
    <3>2. CASE b \in s
      <4>1. family'[b] = c /\ family[x] \in used \cup {Graph!None}
        BY <1>3, <3>1, <3>2, RowsAre
      <4> QED BY <1>4, <3>1, <4>1
    <3>3. CASE b \notin s
      <4>1. family'[b] = family[b]
        BY <1>3, <3>3
      <4> QED BY <3>1, <4>1, ApartIs
    <3> QED BY <3>2, <3>3
  <2>2. \A x \in Assets : family'[x] # Graph!None => asset'[x] \in {"completed", "failed"}
    BY <1>2, <1>3, <1>10, ApartIs DEF Graph!Variants
  <2> QED BY <1>2, <1>7, <1>8, <1>9, <1>13, <2>1, <2>2, ApartStays
<1>15. /\ rows' \subseteq used' /\ used \subseteq used' /\ used' \subseteq GraphCreatives
       /\ regrouped' \subseteq Assets
  BY <1>2, <1>3, <1>4, <1>10, RowsAre
<1>16. \A x \in Graph!Procs : proc[x].pc = "autocommit" =>
          proc[x].to \in rows' /\ proc[x].moves \subseteq Graph!Variants'
  <2>1. Graph!Variants \subseteq Graph!Variants' /\ rows \subseteq rows'
    BY <1>3, <1>4 DEF Graph!Variants
  <2> QED BY <2>1, CopyIs
<1> QED BY <1>2, <1>7, <1>8, <1>9, <1>10, <1>11, <1>14, <1>15, <1>16, CountIs, RowsAre, RowsMove

LEMMA DeleteCommitKeeps ==
    ASSUME GraphInv, NEW h \in Handlers, Graph!DeleteCommit(h) PROVE GraphInv'
<1>1. PICK q, a : q = proc[h] /\ a = proc[h].asset
  OBVIOUS
<1>2. /\ h \in Graph!Procs /\ h \notin PoolThreads /\ q \in Graph!Process /\ StageOK(h, q)
      /\ q.pc = "delete"
  BY <1>1, HandlerIs DEF Graph!DeleteCommit, Graph!At
<1>3. PICK pc : pc = IF q.from = Graph!None THEN "rebuild" ELSE "count"
  OBVIOUS
<1>4. /\ asset' = [asset EXCEPT ![a] = "deleted"] /\ marked' = marked \ {a}
      /\ family' = [family EXCEPT ![a] = Graph!None]
      /\ Graph!Become(h, [q EXCEPT !.pc = pc])
      /\ UNCHANGED <<late, regrouped, rows, used, neo, mirror, owed, startup, count>>
  BY <1>1, <1>3 DEF Graph!DeleteCommit
<1>5. PICK r : r = [q EXCEPT !.pc = pc]
  OBVIOUS
<1>6. r \in Graph!Process /\ r.pc \in {"rebuild", "count"}
  BY <1>2, <1>3, <1>5 DEF Graph!Process
<1>7. StageOK(h, r) /\ r.pc \in Pending /\ EarlyOK(r)' /\ a \in Assets
  BY <1>1, <1>2, <1>6 DEF StageOK, Machine, Merging, Pending, EarlyOK
<1>8. /\ asset' \in [Assets -> {"absent", "pending", "completed", "failed", "deleted"}]
      /\ family' \in [Assets -> rows' \cup {Graph!None}] /\ marked' \subseteq Lab
      /\ family'[a] = Graph!None /\ asset'[a] = "deleted"
      /\ \A x \in Assets \ {a} : family'[x] = family[x] /\ asset'[x] = asset[x]
  BY <1>4, <1>7, RowsAre
<1>9. Settled' = Settled /\ Kept' = Kept \ {a}
  BY <1>4 DEF Settled, Kept
<1>10. Settles
  <2>1. \A x \in marked : x \in marked' \cup Settled' \/ asset'[x] = "deleted"
    BY <1>4, <1>8
  <2>2. \A x \in Kept' : x \in Assets \ {a} /\ family'[x] = family[x]
    BY <1>8, <1>9, ApartIs
  <2> QED BY <1>4, <1>8, <1>9, <2>1, <2>2 DEF Settles
<1>11. ApartInv'
  <2>1. \A x \in Kept' : \A b \in Assets \ {x} :
           family'[x] = family'[b] => family'[x] = Graph!None
    BY <1>8, <1>9, ApartIs
  <2>2. \A x \in Assets : family'[x] # Graph!None => asset'[x] \in {"completed", "failed"}
    BY <1>8, ApartIs
  <2>3. Graph!Become(h, r)
    BY <1>4, <1>5
  <2> QED BY <1>2, <1>6, <1>7, <1>10, <2>1, <2>2, <2>3, ApartStays
<1>12. ASSUME NEW x \in Graph!Procs, proc[x].pc = "autocommit"
       PROVE  proc[x].to \in rows' /\ proc[x].moves \subseteq Graph!Variants'
  <2>1. a \notin proc[x].moves
    BY <1>1, <1>12 DEF Graph!DeleteCommit, Graph!Free, Graph!At
  <2>2. proc[x].to \in rows /\ proc[x].moves \subseteq Graph!Variants
    BY <1>12, CopyIs
  <2> QED BY <1>4, <1>8, <2>1, <2>2 DEF Graph!Variants
<1> QED BY <1>2, <1>4, <1>5, <1>6, <1>7, <1>8, <1>11, <1>12, CountIs, RowsAre, RowsMove

LEMMA EditKeeps ==
    ASSUME GraphInv, NEW h \in Handlers, Graph!Edit(h) PROVE GraphInv'
<1>1. PICK a \in Graph!Stored :
         /\ marked' \in {marked \ {a}, marked}
         /\ regrouped' = regrouped \cup (marked \ marked')
         /\ neo' \in {neo, [neo EXCEPT !.nodes = @ \cup ({family[a]} \ {Graph!None}) \cup {a}]}
         /\ Graph!Become(h, [Graph!Idle EXCEPT !.pc = "rebuild",
                !.held = IF family[a] = Graph!None THEN {} ELSE {<<family[a], a>>}])
  BY DEF Graph!Edit
<1>2. /\ Graph!Request(h)
      /\ UNCHANGED <<asset, late, family, rows, used, mirror, owed, startup>>
  BY DEF Graph!Edit
<1>3. /\ count' \in [runs : 0..MaxRuns, human : 0..MaxHuman]
      /\ h \in Graph!Procs /\ h \notin PoolThreads
  BY <1>2, RequestIs, HandlerIs
<1>4. marked' \subseteq marked /\ marked' \subseteq Lab /\ regrouped' \subseteq Assets
  BY <1>1, RowsAre
<1>5. PICK held : held = IF family[a] = Graph!None THEN {} ELSE {<<family[a], a>>}
  OBVIOUS
<1>6. a \in Assets /\ held \in SUBSET (GraphCreatives \X Assets)
  BY <1>5, RowsAre DEF Graph!Stored
<1>7. PICK i, r : i = Graph!Idle /\ r = [i EXCEPT !.pc = "rebuild", !.held = held]
  OBVIOUS
<1>8. r \in Graph!Process /\ r.pc = "rebuild" /\ Graph!Become(h, r)
  BY <1>1, <1>5, <1>6, <1>7, IdleIs DEF Graph!Process
<1>9. neo' \in Graph!Copies
  BY <1>1, <1>6, CountIs, RowsAre DEF Graph!Copies, Graph!Nodes
<1>10. StageOK(h, r) /\ r.pc \in Pending /\ EarlyOK(r)'
  BY <1>3, <1>8 DEF StageOK, Machine, Merging, Pending, EarlyOK
<1>11. Settled \subseteq Settled' /\ Kept' \subseteq Kept
  BY <1>1, <1>2, <1>4 DEF Settled, Kept
<1>12. Settles
  <2>1. \A x \in marked : x \in marked' \cup Settled'
    BY <1>1 DEF Settled
  <2> QED BY <1>2, <1>11, <2>1 DEF Settles
<1>13. ApartInv'
  BY <1>2, <1>3, <1>8, <1>10, <1>11, <1>12, ApartIs, ApartStays
<1>14. \A x \in Graph!Procs : proc[x].pc = "autocommit" =>
          proc[x].to \in rows' /\ proc[x].moves \subseteq Graph!Variants'
  BY <1>2, CopyIs DEF Graph!Variants
<1> QED BY <1>2, <1>3, <1>4, <1>8, <1>9, <1>10, <1>13, <1>14, RowsAre, RowsMove

LEMMA NeoKeeps ==
    ASSUME GraphInv, NEW h \in Handlers, Graph!NeoMerge(h) \/ Graph!NeoSplit(h) PROVE GraphInv'
<1>1. /\ h \in Graph!Procs /\ h \notin PoolThreads /\ StageOK(h, proc[h])
      /\ proc[h] \in Graph!Process
  BY HandlerIs
<1>2. UNCHANGED <<asset, marked, late, regrouped, family, rows, used, mirror, owed, startup, count>>
  BY DEF Graph!NeoMerge, Graph!NeoSplit, Graph!data
<1>3. CASE Graph!NeoMerge(h)
  <2>1. proc[h].pc = "neomerge" /\ proc[h].to \in GraphCreatives /\ Graph!Goto(h, "remirror")
    BY <1>1, <1>3 DEF Graph!NeoMerge, Graph!At, StageOK
  <2>2. neo' \in Graph!Copies
    BY <1>1, <1>3, <2>1, CountIs, NeoMergedIs DEF Graph!NeoMerge
  <2> QED BY <1>1, <1>2, <2>1, <2>2, GotoKeeps DEF Pending
<1>4. CASE Graph!NeoSplit(h)
  <2>1. proc[h].pc = "neosplit" /\ proc[h].to \in GraphCreatives /\ Graph!Goto(h, "count")
    BY <1>1, <1>4 DEF Graph!NeoSplit, Graph!At, Graph!AfterSplit, StageOK
  <2>2. neo' \in Graph!Copies
    <3>1. PICK d, s : d = proc[h].to /\ s = proc[h].moves
      OBVIOUS
    <3>2. s \subseteq Assets /\ d \in GraphCreatives
      BY <1>1, <2>1, <3>1 DEF Graph!Process
    <3>3. PICK moved : moved = {<<d, a>> : a \in s \cap neo.nodes}
      OBVIOUS
    <3>4. moved \subseteq GraphCreatives \X Assets
      BY <3>2, <3>3
    <3>5. neo' \in {neo, [nodes |-> neo.nodes \cup {d},
                          edges |-> {e \in neo.edges : e[2] \notin s} \cup moved]}
      BY <1>4, <3>1, <3>3 DEF Graph!NeoSplit
    <3> QED BY <3>2, <3>4, <3>5, CountIs DEF Graph!Copies, Graph!Nodes
  <2> QED BY <1>1, <1>2, <2>1, <2>2, GotoKeeps DEF Pending
<1> QED BY <1>3, <1>4

-----------------------------------------------------------------------------
(* The creatives in every behaviour.                                       *)
LEMMA GraphStarts == MCInit => GraphInv
<1> SUFFICES ASSUME MCInit PROVE GraphInv
  OBVIOUS
<1>1. /\ asset = [a \in Assets |-> "absent"] /\ marked = {} /\ late = {} /\ regrouped = {}
      /\ family = [a \in Assets |-> Graph!None] /\ rows = {} /\ used = {}
      /\ neo = Graph!Blank /\ mirror = Graph!Blank /\ owed = FALSE
      /\ proc = [p \in Graph!Procs |-> Graph!Idle]
      /\ startup = [pc |-> "before", ids |-> {}] /\ count = [runs |-> 0, human |-> 0]
  BY DEF MCInit, Graph!Init
<1>2. \A p \in Graph!Procs : proc[p] \in Graph!Process /\ proc[p].pc = "idle"
  BY <1>1, IdleIs
<1>3. Graph!TypeOK
  <2>1. count \in [runs : 0..MaxRuns, human : 0..MaxHuman]
    BY <1>1, ScanAssumption, CurationAssumption
  <2>2. Graph!Blank \in Graph!Copies
    BY DEF Graph!Blank, Graph!Copies
  <2>3. startup \in [pc : {"before", "read", "done"}, ids : SUBSET Graph!Nodes]
    BY <1>1
  <2>4. proc \in [Graph!Procs -> Graph!Process]
    BY <1>1, <1>2
  <2> QED BY <1>1, <2>1, <2>2, <2>3, <2>4 DEF Graph!TypeOK
<1>4. StagesInv /\ CopyInv
  BY <1>2 DEF StagesInv, StageOK, CopyInv, Machine, Merging
<1>5. MirrorInv
  BY <1>1 DEF MirrorInv, Graph!Blank, Graph!Variants
<1>6. ApartInv
  BY <1>1, <1>2 DEF ApartInv, EarlyOK, Kept
<1> QED BY <1>3, <1>4, <1>5, <1>6 DEF GraphInv

LEMMA GraphGoesOn == GraphInv /\ [MCNext]_MCvars => GraphInv'
<1> SUFFICES ASSUME GraphInv, [MCNext]_MCvars PROVE GraphInv'
  OBVIOUS
<1>1. ASSUME NEW t \in PoolThreads, Graph!Analysis(t) PROVE GraphInv'
  BY <1>1, StartKeeps, ReadTagsKeeps, WriteTagsKeeps, ClusterKeeps, AttachKeeps, SyncAssetKeeps
     DEF Graph!Analysis
<1>2. ASSUME NEW h \in Handlers, Graph!Handling(h) PROVE GraphInv'
  BY <1>2, RequestsKeep, MergeCommitKeeps, NeoKeeps, SplitCommitKeeps, DeleteCommitKeeps, EditKeeps
     DEF Graph!Handling
<1>3. ASSUME NEW p \in Graph!Procs, Graph!Either(p) PROVE GraphInv'
  BY <1>3, EndsKeep, StopsKeeps, CountVariantsKeeps, CleanupKeeps, UnlistKeeps, RebuildKeeps,
     AutoMergeKeeps, AutoMirrorKeeps, AutoCommitKeeps DEF Graph!Either
<1>4. ASSUME NEW a \in Assets, Graph!Upload(a) \/ Graph!MarkReference(a) PROVE GraphInv'
  BY <1>4, UploadKeeps, MarkReferenceKeeps
<1>5. CASE Graph!Next
  BY <1>1, <1>2, <1>3, <1>4, <1>5, ReconcileKeeps DEF Graph!Next
<1>6. CASE UNCHANGED graph
  <2>1. UNCHANGED <<asset, marked, late, regrouped, family, rows, used, neo, mirror, owed, proc,
                    startup, count>>
    BY <1>6 DEF graph
  <2>2. Graph!TypeOK'
    <3>1. UNCHANGED <<Graph!Procs, Graph!Process, Graph!Copies, Graph!Nodes>>
      BY DEF Graph!Procs, Graph!Process, Graph!Copies, Graph!Nodes
    <3> QED BY <2>1, <3>1 DEF GraphInv, Graph!TypeOK
  <2>3. ApartInv'
    BY <2>1 DEF GraphInv, ApartInv, EarlyOK, Kept, Settled, Graph!Procs, Graph!MarkedApart
  <2> QED BY <2>1, <2>2, <2>3, NobodyMoves DEF GraphInv
<1> QED BY <1>5, <1>6 DEF MCNext, MCvars

(* Rows, marks, copies and processes stay in order, whatever analyses,       *)
(* automatic merges and requests interleave, fail and stop                  *)
(* (services/pipeline.py, judge_pipeline.py, merge_ops.py,                  *)
(* api/routes/assets.py, services/graph_sync.py).                          *)
THEOREM CreativesStayInOrder == MCSpec => []GraphInv
BY GraphStarts, GraphGoesOn, PTL DEF MCSpec

(* repositories/graph_mirror.py: whenever nobody is at work the mirror has   *)
(* exactly the nodes of the rows, whichever order analyses, automatic        *)
(* merges, requests and deletions end in, unless somebody stopped between a  *)
(* change and its rebuild and nobody has rebuilt it since.                  *)
THEOREM MirrorIsCurrent == MCSpec => []MirrorNodesAtRest
<1>1. GraphInv => MirrorNodesAtRest
  <2> SUFFICES ASSUME GraphInv, Graph!Resting, ~owed
               PROVE  mirror.nodes = rows \cup Graph!Variants
    BY DEF MirrorNodesAtRest, Graph!MirrorNodesAtRest
  <2>1. ~Coming
    BY DEF Coming, Graph!Resting, Graph!At, Pending
  <2> QED BY <2>1 DEF GraphInv, MirrorInv
<1> QED BY <1>1, CreativesStayInOrder, PTL

(* services/pipeline.py: material of a competitor that was marked before a   *)
(* worker took it has a creative of its own, in every interleaving of any    *)
(* number of analyses, cleanups, merges and requests, until this very        *)
(* creative is merged or split or somebody removes the mark.                *)
THEOREM EarlyMarksStayApart == MCSpec => []EarlyMarksKeepApart
<1>1. GraphInv => EarlyMarksKeepApart
  BY DEF EarlyMarksKeepApart, Graph!EarlyMarksKeepApart, GraphInv, ApartInv, Kept, Settled
<1> QED BY <1>1, CreativesStayInOrder, PTL

=============================================================================
