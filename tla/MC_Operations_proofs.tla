------------------------ MODULE MC_Operations_proofs ------------------------
(***************************************************************************)
(* Proofs about what people and background threads do with judged           *)
(* creatives: the requests about families for any creatives, proposals,     *)
(* keys, handlers and bounds; and, for any values of their constants, the    *)
(* grouping by the model, the reviews of derivations, the refreshes, what    *)
(* two videos differ in, what the rules say of two creatives, the threshold *)
(* that is suggested and the words that are learnt from corrections.        *)
(***************************************************************************)
EXTENDS MC_Operations, SequenceTheorems, FoldLemmas

(***************************************************************************)
(* The requests about families.                                            *)
(***************************************************************************)
(* The families a request may refer to: those there are, and its own.       *)
Known(r) == Existing \cup r.made \cup {None}

(* Confirming a proposal: a new family's code is inserted before members    *)
(* are looked for, and nobody is assigned to it before they are taken.      *)
Confirming(r) == r.pc \in {"number", "insert", "look", "take"} /\ r.op = "confirm"
ItemOK(r) ==
    /\ r.op = "create" => r.key = NoKey
    /\ r.pc = "item" => r.tries = 0 /\ r.code = None /\ r.op \in {"confirm", "assign", "unassign"}
    /\ r.op = "confirm" => r.todo \subseteq Proposals
    /\ r.op \in {"assign", "unassign"} => r.todo \subseteq Creatives
    /\ r.pc \in {"number", "insert"} =>
          r.code \notin r.made /\ r.op \in {"create", "confirm"} /\ r.fam = None
    /\ r.pc = "insert" => r.code # None
    /\ r.pc \in {"look", "take"} =>
          /\ r.op = "confirm"
          /\ IF r.fam = None THEN r.code \in r.made /\ \A w \in r.staged : w[2] # r.code
             ELSE r.code = None
    /\ Confirming(r) => r.item \in Proposals /\ proposals[r.item].state # "unread"

(* What a request has written: only to families that are known, and, when  *)
(* it confirms, once for each creative and to a family.                    *)
WritesOK(r) ==
    /\ r.fam \in Existing \cup {None} /\ r.fams \subseteq Existing
    /\ \A w \in r.staged : w[2] \in Known(r)
    /\ r.op = "confirm" => \A w \in r.staged : /\ w[2] # None
                                               /\ \A x \in r.staged : w[1] = x[1] => w = x
    /\ r.pc = "take" => \A w \in r.staged : w[1] \notin r.seen

(* An undisturbed confirmation by a batch still has a member of those it    *)
(* found when it began, and what was confirmed so has one for good.        *)
Scattered(r, c) == dna[c] = None /\ \A w \in r.staged : w[1] # c
MembersOK(r) ==
    /\ r.sure # {} => r.op = "confirm"
    /\ r.key # NoKey => \A f \in r.sure \ {None} : \E c \in Creatives : <<c, f>> \in r.staged
    /\ Confirming(r) /\ r.key # NoKey /\ ~r.disturbed /\ r.fam = None =>
          /\ \E c \in proposals[r.item].members : Scattered(r, c)
          /\ r.pc = "take" => r.seen # {}
RequestOK(r) == ItemOK(r) /\ WritesOK(r) /\ MembersOK(r)

(* No two requests make the same family, and none makes one that exists.    *)
MadeApart ==
    /\ \A h \in Handlers : req[h].made \cap Existing = {}
    /\ \A g, h \in Handlers : g # h => req[g].made \cap req[h].made = {}

FamilyInv == TypeOK /\ MadeApart /\ \A h \in Handlers : RequestOK(req[h])

(* A key is stored exactly while its batch has taken effect.                *)
KeysTell == \A k \in Keys : ran[k] = (IF k \in keys THEN 1 ELSE 0)

(* Each time a number is taken, another family was created since.           *)
NumberOK(r) ==
    /\ r.pc = "insert" /\ r.tries = 0 =>
          /\ Cardinality(Existing) >= r.base
          /\ r.code \in Existing => Cardinality(Existing) >= r.base + 1
    /\ r.pc \in {"number", "insert"} /\ r.tries = 1 => Cardinality(Existing) >= r.base + 1
    /\ r.pc = "insert" /\ r.tries = 1 /\ r.code \in Existing =>
          Cardinality(Existing) >= r.base + 2
NumbersTell == \A h \in Handlers : NumberOK(req[h])

-----------------------------------------------------------------------------
(* Lemmas about the operators.                                             *)

(* The highest code is an upper bound of the codes and one of them, or 0.   *)
LEMMA HighestIsHighest ==
    ASSUME NEW m \in Nat, NEW fs \in SUBSET (1..m)
    PROVE  /\ Highest(fs) \in fs \cup {0}
           /\ \A f \in fs : f <= Highest(fs)
<1> DEFINE Above == {n \in 0..m : \A f \in fs : f <= n}
           Upto == {1..n : n \in Above}
           R == StrictSubsetOrdering(1..m)
<1>1. Upto # {} /\ Upto \subseteq SUBSET (1..m)
  OBVIOUS
<1>2. IsWellFoundedOn(R, SUBSET (1..m))
  <2>1. IsFiniteSet(1..m)
    BY FS_Interval
  <2>2. FiniteSubsetsOf(1..m) = SUBSET (1..m)
    BY <2>1, FS_FiniteSubsetsOfFinite
  <2> QED BY <2>2, FS_StrictSubsetOrderingWellFounded
<1>3. \E X \in Upto : \A Y \in Upto : ~ (<<Y, X>> \in R)
  <2> HIDE DEF R, Upto
  <2> QED BY <1>1, <1>2, WFMin
<1>4. PICK n \in Above : \A Y \in Upto : ~ (<<Y, 1..n>> \in R)
  BY <1>3
<1>5. \A y \in Above : ~ (y < n)
  <2> SUFFICES ASSUME NEW y \in Above, y < n PROVE FALSE
    OBVIOUS
  <2>1. 1..y \in Upto
    OBVIOUS
  <2>2. 1..y \subseteq 1..n /\ n \in 1..n /\ n \notin 1..y
    OBVIOUS
  <2>3. 1..y \in SUBSET (1..m) /\ 1..n \in SUBSET (1..m)
    OBVIOUS
  <2> QED BY <2>1, <2>2, <2>3, <1>4 DEF StrictSubsetOrdering
<1>6. n \in fs \cup {0}
  <2> SUFFICES ASSUME n # 0 PROVE n \in fs
    OBVIOUS
  <2>1. n - 1 \in 0..m /\ ~(n - 1 \in Above)
    BY <1>5
  <2>2. PICK f \in fs : ~(f <= n - 1)
    BY <2>1
  <2> QED BY <2>1, <2>2
<1> QED BY <1>6 DEF Highest

(* What a request reads of a creative is what is committed, or what it       *)
(* wrote itself.                                                           *)
LEMMA ViewIs ==
    ASSUME NEW h \in Handlers, req[h] \in Request, NEW c \in Creatives
    PROVE  \/ View(h, c) = dna[c] /\ \A w \in req[h].staged : w[1] # c
           \/ <<c, View(h, c)>> \in req[h].staged
<1>1. req[h].staged \in SUBSET (Creatives \X (Families \cup {None}))
  BY DEF Request
<1>2. CASE \E f \in Families \cup {None} : <<c, f>> \in req[h].staged
  BY <1>2 DEF View
<1>3. CASE ~\E f \in Families \cup {None} : <<c, f>> \in req[h].staged
  BY <1>1, <1>3 DEF View
<1> QED BY <1>2, <1>3

(* A confirming request sees as scattered just the creatives that are        *)
(* scattered and that it has not assigned yet.                             *)
LEMMA ScatteredIs ==
    ASSUME FamilyInv, NEW h \in Handlers, req[h].op = "confirm", NEW c \in Creatives
    PROVE  View(h, c) = None <=> Scattered(req[h], c)
<1>1. req[h] \in Request /\ WritesOK(req[h])
  BY DEF FamilyInv, TypeOK, RequestOK
<1>2. \/ View(h, c) = dna[c] /\ \A w \in req[h].staged : w[1] # c
      \/ <<c, View(h, c)>> \in req[h].staged
  BY <1>1, ViewIs
<1>3. \A w \in req[h].staged : w[2] # None
  BY <1>1 DEF WritesOK
<1>4. CASE <<c, View(h, c)>> \in req[h].staged
  <2> DEFINE w == <<c, View(h, c)>>
  <2>1. w[1] = c /\ w[2] = View(h, c) /\ w \in req[h].staged
    BY <1>4
  <2> QED BY <2>1, <1>3 DEF Scattered
<1>5. CASE View(h, c) = dna[c] /\ \A w \in req[h].staged : w[1] # c
  BY <1>5 DEF Scattered
<1> QED BY <1>2, <1>4, <1>5

LEMMA IdleOK == Idle \in Request /\ RequestOK(Idle)
<1>1. Idle \in Request
  BY DEF Idle, Request, None
<1>2. ItemOK(Idle) /\ WritesOK(Idle) /\ MembersOK(Idle)
  BY DEF Idle, ItemOK, WritesOK, MembersOK, Confirming
<1> QED BY <1>1, <1>2 DEF RequestOK

(* A step of one request that commits nothing.                             *)
LEMMA RequestMoves ==
    ASSUME FamilyInv, NEW h \in Handlers, NEW r \in Request, Become(h, r), UNCHANGED data,
           sent' \in 0..MaxRequests, RequestOK(r),
           \A f \in r.made \ req[h].made :
              f \notin Existing /\ \A g \in Handlers \ {h} : f \notin req[g].made
    PROVE  FamilyInv'
<1>1. /\ req' \in [Handlers -> Request] /\ req'[h] = r
      /\ \A g \in Handlers \ {h} : req'[g] = req[g]
  BY DEF FamilyInv, TypeOK, Become
<1>2. Existing' = Existing
  BY DEF Existing, data
<1>3. TypeOK'
  BY <1>1, <1>2 DEF FamilyInv, TypeOK, data
<1>4. MadeApart'
  BY <1>1, <1>2 DEF FamilyInv, MadeApart
<1>5. \A g \in Handlers : RequestOK(req'[g])
  BY <1>1 DEF FamilyInv
<1>6. ASSUME NEW g \in Handlers PROVE RequestOK(req[g])'
  <2>1. RequestOK(req'[g])
    BY <1>5
  <2> QED BY <2>1, <1>2 DEF RequestOK, ItemOK, WritesOK, MembersOK, Known, Scattered, Confirming, data
<1> QED BY <1>3, <1>4, <1>6 DEF FamilyInv

-----------------------------------------------------------------------------
(* Steps that commit.                                                      *)

(* Proposals that were written keep their members, gone or not.             *)
ProposalsKept ==
    \A p \in Proposals : proposals[p].state # "unread" =>
        proposals'[p].state # "unread" /\ proposals'[p].members = proposals[p].members

(* What holds of a request outlasts the commit of another.                  *)
LEMMA RequestsOutlast ==
    ASSUME NEW r \in Request, RequestOK(r), Existing \subseteq Existing', ProposalsKept,
           dna' = dna \/ r.disturbed \/ r.pc = "idle"
    PROVE  RequestOK(r)'
<1>1. ItemOK(r)'
  BY DEF RequestOK, ItemOK, Confirming, ProposalsKept
<1>2. WritesOK(r)'
  BY DEF RequestOK, WritesOK, Known
<1>3. MembersOK(r)'
  <2>1. CASE r.disturbed \/ r.pc = "idle"
    BY <2>1 DEF RequestOK, MembersOK, Confirming
  <2>2. CASE dna' = dna
    BY <2>2 DEF RequestOK, MembersOK, ItemOK, Confirming, ProposalsKept, Scattered
  <2> QED BY <2>1, <2>2
<1> QED BY <1>1, <1>2, <1>3 DEF RequestOK

(* A commit of one request, which ends it.                                  *)
LEMMA CommitMoves ==
    ASSUME FamilyInv, NEW h \in Handlers, Finish(h), ProposalsKept,
           (TypeOK /\ req' \in [Handlers -> Request]) => TypeOK',
           Existing \subseteq Existing', Existing' \subseteq Existing \cup req[h].made
    PROVE  FamilyInv'
<1>1. req \in [Handlers -> Request]
  BY DEF FamilyInv, TypeOK
<1>2. req'[h] = Idle
  BY DEF Finish
<1>3. ASSUME NEW g \in Handlers \ {h}
      PROVE  /\ req'[g] \in Request /\ RequestOK(req[g])' /\ req'[g].made = req[g].made
  <2>1. PICK r : r = [req[g] EXCEPT !.disturbed = ~At(g, "idle")]
    OBVIOUS
  <2>2. req'[g] = r
    BY <2>1 DEF Finish
  <2>3. req[g] \in Request
    BY <1>1
  <2>4. r \in Request /\ r.made = req[g].made
    <3>1. PICK b \in BOOLEAN : b = ~At(g, "idle")
      OBVIOUS
    <3>2. r = [req[g] EXCEPT !.disturbed = b]
      BY <2>1, <3>1
    <3> QED BY <2>3, <3>2 DEF Request
  <2>5. RequestOK(req[g])
    BY DEF FamilyInv
  <2>6. RequestOK(r)
    BY <2>1, <2>3, <2>5
       DEF RequestOK, ItemOK, WritesOK, MembersOK, Known, Scattered, Confirming, Request, At
  <2>7. r.disturbed \/ r.pc = "idle"
    BY <2>1, <2>3 DEF Request, At
  <2>8. RequestOK(r)'
    BY <2>4, <2>6, <2>7, RequestsOutlast
  <2> QED BY <2>2, <2>4, <2>8
<1>4. req'[h] \in Request /\ RequestOK(req[h])' /\ req'[h].made = {}
  <2>1. PICK r : r = Idle
    OBVIOUS
  <2>2. r \in Request /\ RequestOK(r) /\ r.pc = "idle" /\ r.made = {}
    BY <2>1, IdleOK DEF Idle
  <2>3. RequestOK(r)'
    BY <2>2, RequestsOutlast
  <2> QED BY <1>2, <2>1, <2>2, <2>3
<1>5. req' \in [Handlers -> Request]
  <2>1. \A g \in Handlers : req'[g] \in Request
    BY <1>3, <1>4
  <2>2. req' = [g \in Handlers |-> req'[g]]
    BY DEF Finish
  <2> QED BY <2>1, <2>2
<1>6. TypeOK'
  BY <1>5 DEF FamilyInv
<1>7. MadeApart'
  BY <1>3, <1>4 DEF FamilyInv, MadeApart
<1>8. \A g \in Handlers : RequestOK(req[g])'
  BY <1>3, <1>4
<1> QED BY <1>6, <1>7, <1>8 DEF FamilyInv

-----------------------------------------------------------------------------
(* The actions, one after the other.                                       *)

LEMMA RequestBegins ==
    ASSUME FamilyInv, NEW h \in Handlers, NEW r \in Request, Begin(h, r), UNCHANGED data,
           r.made = {}, r.staged = {}, r.sure = {}, r.tries = 0, r.code = None,
           r.pc \notin {"insert", "look", "take"} /\ (r.pc = "number" => r.op = "create"),
           r.op = "create" => r.key = NoKey /\ r.fam = None,
           r.pc = "item" => r.op \in {"confirm", "assign", "unassign"},
           r.op = "confirm" => r.todo \subseteq Proposals,
           r.op \in {"assign", "unassign"} => r.todo \subseteq Creatives,
           r.fam \in Existing \cup {None}, r.fams \subseteq Existing
    PROVE  FamilyInv'
<1>1. sent' \in 0..MaxRequests
  BY FamiliesAssumption DEF FamilyInv, TypeOK, Begin
<1>2. RequestOK(r)
  BY DEF RequestOK, ItemOK, WritesOK, MembersOK, Confirming
<1> QED BY <1>1, <1>2, RequestMoves DEF Begin

LEMMA CreateKeeps == ASSUME FamilyInv, NEW h \in Handlers, Create(h) PROVE FamilyInv'
<1> DEFINE r == [Idle EXCEPT !.pc = "number", !.op = "create"]
<1>1. /\ r \in Request /\ r.pc = "number" /\ r.op = "create" /\ r.key = NoKey /\ r.fam = None
      /\ r.fams = {} /\ r.todo = {} /\ r.staged = {} /\ r.made = {} /\ r.sure = {}
      /\ r.tries = 0 /\ r.code = None
  BY IdleOK DEF Request, Idle
<1>2. Begin(h, r) /\ UNCHANGED data
  BY DEF Create
<1> HIDE DEF r
<1> QED BY <1>1, <1>2, RequestBegins

LEMMA ConfirmKeeps == ASSUME FamilyInv, NEW h \in Handlers, Confirm(h) PROVE FamilyInv'
<1>1. PICK k \in Keys \cup {NoKey}, ps \in SUBSET (Proposals \ Unread) :
          Begin(h, [Idle EXCEPT !.pc = "item", !.op = "confirm", !.key = k, !.todo = ps])
  BY DEF Confirm
<1> DEFINE r == [Idle EXCEPT !.pc = "item", !.op = "confirm", !.key = k, !.todo = ps]
<1>2. /\ r \in Request /\ r.pc = "item" /\ r.op = "confirm" /\ r.fam = None
      /\ r.fams = {} /\ r.todo = ps /\ r.staged = {} /\ r.made = {} /\ r.sure = {}
      /\ r.tries = 0 /\ r.code = None
  BY IdleOK DEF Request, Idle
<1>3. Begin(h, r) /\ UNCHANGED data
  BY <1>1 DEF Confirm
<1> HIDE DEF r
<1> QED BY <1>2, <1>3, RequestBegins

LEMMA AssignKeeps == ASSUME FamilyInv, NEW h \in Handlers, Assign(h) PROVE FamilyInv'
<1>1. PICK k \in Keys \cup {NoKey}, cs \in SUBSET Creatives, f \in Active :
          Begin(h, [Idle EXCEPT !.pc = "item", !.op = "assign", !.key = k,
                                !.todo = cs, !.fam = f])
  BY DEF Assign
<1> DEFINE r == [Idle EXCEPT !.pc = "item", !.op = "assign", !.key = k, !.todo = cs, !.fam = f]
<1>2. f \in Existing /\ f \in Families
  BY DEF Active, Existing
<1>3. /\ r \in Request /\ r.pc = "item" /\ r.op = "assign" /\ r.fam = f
      /\ r.fams = {} /\ r.todo = cs /\ r.staged = {} /\ r.made = {} /\ r.sure = {}
      /\ r.tries = 0 /\ r.code = None
  BY <1>2, IdleOK DEF Request, Idle
<1>4. Begin(h, r) /\ UNCHANGED data
  BY <1>1 DEF Assign
<1> HIDE DEF r
<1> QED BY <1>2, <1>3, <1>4, RequestBegins

LEMMA UnassignKeeps == ASSUME FamilyInv, NEW h \in Handlers, Unassign(h) PROVE FamilyInv'
<1>1. PICK k \in Keys \cup {NoKey}, cs \in SUBSET Creatives :
          Begin(h, [Idle EXCEPT !.pc = "item", !.op = "unassign", !.key = k, !.todo = cs])
  BY DEF Unassign
<1> DEFINE r == [Idle EXCEPT !.pc = "item", !.op = "unassign", !.key = k, !.todo = cs]
<1>2. /\ r \in Request /\ r.pc = "item" /\ r.op = "unassign" /\ r.fam = None
      /\ r.fams = {} /\ r.todo = cs /\ r.staged = {} /\ r.made = {} /\ r.sure = {}
      /\ r.tries = 0 /\ r.code = None
  BY IdleOK DEF Request, Idle
<1>3. Begin(h, r) /\ UNCHANGED data
  BY <1>1 DEF Unassign
<1> HIDE DEF r
<1> QED BY <1>2, <1>3, RequestBegins

LEMMA DeactivateKeeps == ASSUME FamilyInv, NEW h \in Handlers, Deactivate(h) PROVE FamilyInv'
<1>1. PICK f \in Active :
          Begin(h, [Idle EXCEPT !.pc = "release", !.op = "archive", !.fam = f,
                                !.seen = {c \in Creatives : dna[c] = f}])
  BY DEF Deactivate
<1>2. PICK cs \in SUBSET Creatives : cs = {c \in Creatives : dna[c] = f}
  OBVIOUS
<1> DEFINE r == [Idle EXCEPT !.pc = "release", !.op = "archive", !.fam = f, !.seen = cs]
<1>3. f \in Existing /\ f \in Families
  BY DEF Active, Existing
<1>4. /\ r \in Request /\ r.pc = "release" /\ r.op = "archive" /\ r.fam = f
      /\ r.fams = {} /\ r.todo = {} /\ r.staged = {} /\ r.made = {} /\ r.sure = {}
      /\ r.tries = 0 /\ r.code = None
  BY <1>3, IdleOK DEF Request, Idle
<1>5. Begin(h, r) /\ UNCHANGED data
  BY <1>1, <1>2 DEF Deactivate
<1> HIDE DEF r
<1> QED BY <1>3, <1>4, <1>5, RequestBegins

LEMMA AutoAssignKeeps == ASSUME FamilyInv, NEW h \in Handlers, AutoAssign(h) PROVE FamilyInv'
<1>1. PICK c \in Creatives, f \in Active :
          Begin(h, [Idle EXCEPT !.pc = "auto", !.op = "auto", !.fam = f, !.seen = {c}])
  BY DEF AutoAssign
<1> DEFINE r == [Idle EXCEPT !.pc = "auto", !.op = "auto", !.fam = f, !.seen = {c}]
<1>2. f \in Existing /\ f \in Families
  BY DEF Active, Existing
<1>3. /\ r \in Request /\ r.pc = "auto" /\ r.op = "auto" /\ r.fam = f
      /\ r.fams = {} /\ r.todo = {} /\ r.staged = {} /\ r.made = {} /\ r.sure = {}
      /\ r.tries = 0 /\ r.code = None
  BY <1>2, IdleOK DEF Request, Idle
<1>4. Begin(h, r) /\ UNCHANGED data
  BY <1>1 DEF AutoAssign
<1> HIDE DEF r
<1> QED BY <1>2, <1>3, <1>4, RequestBegins

LEMMA SuggestKeeps == ASSUME FamilyInv, NEW h \in Handlers, Suggest(h) PROVE FamilyInv'
<1>1. PICK fs, cs : fs = Active /\ cs = {c \in Creatives : dna[c] = None}
  OBVIOUS
<1> DEFINE r == [Idle EXCEPT !.pc = "suggest", !.op = "suggest", !.fams = fs, !.seen = cs]
<1>2. fs \subseteq Existing /\ fs \subseteq Families /\ cs \subseteq Creatives
  BY <1>1 DEF Active, Existing
<1>3. /\ r \in Request /\ r.pc = "suggest" /\ r.op = "suggest" /\ r.fam = None
      /\ r.fams = fs /\ r.todo = {} /\ r.staged = {} /\ r.made = {} /\ r.sure = {}
      /\ r.tries = 0 /\ r.code = None
  BY <1>2, IdleOK DEF Request, Idle
<1>4. Begin(h, r) /\ UNCHANGED data
  BY <1>1 DEF Suggest
<1> HIDE DEF r
<1> QED BY <1>2, <1>3, <1>4, RequestBegins

(* The next item of a batch, or the end of a request for one.               *)
LEMMA DoneIs ==
    ASSUME NEW h \in Handlers, req[h] \in Request, NEW r, r = Done(h, req[h])
    PROVE  /\ r \in Request /\ r.pc = IF Batch(h) THEN "item" ELSE "commit"
           /\ r.op = req[h].op /\ r.key = req[h].key /\ r.fam = req[h].fam /\ r.fams = req[h].fams
           /\ r.todo = req[h].todo \ {req[h].item} /\ r.item = NoProposal /\ r.seen = {}
           /\ r.staged = req[h].staged /\ r.drop = req[h].drop /\ r.made = req[h].made
           /\ r.code = None /\ r.tries = 0 /\ r.base = req[h].base
           /\ r.disturbed = req[h].disturbed /\ r.sure = req[h].sure
<1>1. PICK q : q = req[h]
  OBVIOUS
<1>2. PICK b \in {"item", "commit"} : b = IF Batch(h) THEN "item" ELSE "commit"
  OBVIOUS
<1>3. PICK t : t = q.todo \ {q.item}
  OBVIOUS
<1>4. r = [q EXCEPT !.item = NoProposal, !.code = None, !.tries = 0, !.seen = {},
                    !.todo = t, !.pc = b]
  BY <1>1, <1>2, <1>3 DEF Done
<1>5. q \in Request
  BY <1>1
<1>6. t \in SUBSET (Creatives \cup Proposals)
  BY <1>3, <1>5 DEF Request
<1>7. r \in Request
  <2>1. PICK s : s = [q EXCEPT !.item = NoProposal, !.code = None]
    OBVIOUS
  <2>2. s \in Request
    BY <1>5, <2>1 DEF Request
  <2>3. PICK u : u = [s EXCEPT !.tries = 0]
    OBVIOUS
  <2>4. u \in Request
    BY <2>2, <2>3 DEF Request
  <2>5. r = [u EXCEPT !.seen = {}, !.todo = t, !.pc = b]
    BY <1>4, <1>5, <2>1, <2>3 DEF Request
  <2> QED BY <1>2, <1>6, <2>4, <2>5 DEF Request
<1>8. /\ r.pc = b /\ r.todo = t /\ r.item = NoProposal /\ r.seen = {} /\ r.code = None /\ r.tries = 0
      /\ r.op = q.op /\ r.key = q.key /\ r.fam = q.fam /\ r.fams = q.fams /\ r.staged = q.staged
      /\ r.drop = q.drop /\ r.made = q.made /\ r.base = q.base /\ r.disturbed = q.disturbed
      /\ r.sure = q.sure
  BY <1>4, <1>5 DEF Request
<1> QED BY <1>1, <1>2, <1>3, <1>7, <1>8

LEMMA FailsKeeps ==
    ASSUME FamilyInv, NEW h \in Handlers, Become(h, Idle), UNCHANGED <<data, sent>>
    PROVE  FamilyInv'
<1>1. sent' \in 0..MaxRequests
  BY DEF FamilyInv, TypeOK
<1>2. Idle.made = {}
  BY DEF Idle
<1> HIDE DEF Idle
<1> QED BY <1>1, <1>2, IdleOK, RequestMoves

LEMMA ItemErrorKeeps ==
    ASSUME FamilyInv, NEW h \in Handlers, ItemError(h), UNCHANGED <<data, sent>>,
           req[h].pc \in {"number", "insert", "look", "take"}
    PROVE  FamilyInv'
<1>1. CASE ~Batch(h)
  BY <1>1, FailsKeeps DEF ItemError
<1>2. CASE Batch(h)
  <2>1. PICK q, d : q = req[h] /\ d = Done(h, req[h])
    OBVIOUS
  <2>2. q \in Request /\ RequestOK(q)
    BY <2>1 DEF FamilyInv, TypeOK
  <2>3. q.op = "confirm" /\ q.key # NoKey
    BY <1>2, <2>1, <2>2 DEF RequestOK, ItemOK, Batch
  <2>4. /\ d \in Request /\ d.pc = "item" /\ d.op = q.op /\ d.key = q.key /\ d.fam = q.fam
        /\ d.fams = q.fams /\ d.todo = q.todo \ {q.item} /\ d.seen = {} /\ d.staged = q.staged
        /\ d.made = q.made /\ d.code = None /\ d.tries = 0 /\ d.sure = q.sure
    BY <1>2, <2>1, <2>2, DoneIs
  <2>5. PICK r : r = [d EXCEPT !.made = @ \ {q.code}]
    OBVIOUS
  <2>6. Become(h, r)
    BY <1>2, <2>1, <2>5 DEF ItemError
  <2>7. /\ r \in Request /\ r.pc = "item" /\ r.op = q.op /\ r.key = q.key /\ r.fam = q.fam
        /\ r.fams = q.fams /\ r.todo = q.todo \ {q.item} /\ r.seen = {} /\ r.staged = q.staged
        /\ r.made = q.made \ {q.code} /\ r.code = None /\ r.tries = 0 /\ r.sure = q.sure
    BY <2>4, <2>5 DEF Request
  <2>8. \A w \in q.staged : q.code \in q.made => w[2] # q.code
    BY <2>1, <2>2 DEF RequestOK, ItemOK, Request, None, Families
  <2>9. ItemOK(r)
    BY <2>2, <2>3, <2>7 DEF RequestOK, ItemOK, Confirming
  <2>10. WritesOK(r)
    BY <2>2, <2>3, <2>7, <2>8 DEF RequestOK, WritesOK, Known
  <2>11. MembersOK(r)
    BY <2>2, <2>3, <2>7 DEF RequestOK, MembersOK, Confirming
  <2>12. sent' \in 0..MaxRequests /\ \A f \in r.made : f \in req[h].made
    BY <2>1, <2>7 DEF FamilyInv, TypeOK
  <2> QED BY <2>6, <2>7, <2>9, <2>10, <2>11, <2>12, RequestMoves DEF RequestOK
<1> QED BY <1>1, <1>2

LEMMA ConfirmItemKeeps == ASSUME FamilyInv, NEW h \in Handlers, ConfirmItem(h) PROVE FamilyInv'
<1>1. PICK q : q = req[h]
  OBVIOUS
<1>2. q \in Request /\ RequestOK(q) /\ q.pc = "item" /\ q.op = "confirm"
  BY <1>1 DEF FamilyInv, TypeOK, ConfirmItem, At
<1>3. q.tries = 0 /\ q.code = None /\ q.todo \subseteq Proposals
  BY <1>2 DEF RequestOK, ItemOK
<1>4. sent' \in 0..MaxRequests /\ UNCHANGED data /\ UNCHANGED <<data, sent>>
  BY DEF FamilyInv, TypeOK, ConfirmItem
<1>5. PICK p \in q.todo :
         LET look == {c \in proposals[p].members : View(h, c) = None}
             into == proposals[p].into
         IN IF p \notin Open \/ p \in req[h].drop
               \/ (into # None /\ ~EmptyFamily(h, look) /\ into \notin Active)
            THEN Become(h, IF Batch(h) THEN [req[h] EXCEPT !.todo = @ \ {p}] ELSE Idle)
            ELSE IF EmptyFamily(h, look)
            THEN /\ Deletable(h, {p})
                 /\ Become(h, [req[h] EXCEPT !.todo = @ \ {p}, !.drop = @ \cup {p}])
            ELSE Become(h, [req[h] EXCEPT !.item = p, !.fam = into, !.disturbed = FALSE,
                                          !.pc = IF into = None THEN "number" ELSE "look"])
  BY <1>1 DEF ConfirmItem
<1>6. PICK look, into : /\ look = {c \in proposals[p].members : View(h, c) = None}
                        /\ into = proposals[p].into
  OBVIOUS
<1>7. CASE Become(h, Idle)
  BY <1>4, <1>7, FailsKeeps
<1>8. CASE \E ds \in SUBSET {p} : Become(h, [req[h] EXCEPT !.todo = @ \ {p}, !.drop = @ \cup ds])
  <2>1. PICK ds \in SUBSET {p} : Become(h, [q EXCEPT !.todo = @ \ {p}, !.drop = @ \cup ds])
    BY <1>1, <1>8
  <2>2. PICK r : r = [q EXCEPT !.todo = @ \ {p}, !.drop = @ \cup ds]
    OBVIOUS
  <2>3. /\ r \in Request /\ r.pc = q.pc /\ r.op = q.op /\ r.key = q.key /\ r.fam = q.fam
        /\ r.fams = q.fams /\ r.todo = q.todo \ {p} /\ r.staged = q.staged
        /\ r.made = q.made /\ r.code = q.code /\ r.tries = q.tries /\ r.sure = q.sure
    <3>1. ds \subseteq Proposals
      BY <1>3, <1>5, <2>1
    <3> QED BY <1>2, <2>2, <3>1 DEF Request
  <2>4. RequestOK(r)
    BY <1>2, <1>3, <2>3 DEF RequestOK, ItemOK, WritesOK, MembersOK, Known, Confirming
  <2> QED BY <1>1, <1>4, <2>1, <2>2, <2>3, <2>4, RequestMoves
<1>9. CASE /\ p \in Open /\ ~EmptyFamily(h, look)
           /\ into # None => into \in Active
           /\ Become(h, [req[h] EXCEPT !.item = p, !.fam = into, !.disturbed = FALSE,
                                       !.pc = IF into = None THEN "number" ELSE "look"])
  <2>1. PICK b \in {"number", "look"} : b = IF into = None THEN "number" ELSE "look"
    OBVIOUS
  <2>a. PICK no \in BOOLEAN : no = FALSE
    OBVIOUS
  <2>2. PICK r : r = [q EXCEPT !.item = p, !.fam = into, !.disturbed = no, !.pc = b]
    OBVIOUS
  <2>3. p \in Proposals /\ into \in Existing \cup {None} /\ into \in Families \cup {None}
    BY <1>3, <1>6, <1>9 DEF Active, Existing
  <2>4. /\ r \in Request /\ r.pc = b /\ r.op = q.op /\ r.key = q.key /\ r.fam = into
        /\ r.fams = q.fams /\ r.todo = q.todo /\ r.staged = q.staged /\ r.item = p
        /\ r.made = q.made /\ r.code = q.code /\ r.tries = q.tries /\ r.sure = q.sure
    <3>1. r \in Request
      BY <1>2, <2>2, <2>3 DEF Request
    <3> QED BY <1>2, <2>2, <3>1 DEF Request
  <2>5. proposals[p].state # "unread" /\ proposals[p].members \in SUBSET Creatives
    BY <1>9, <2>3 DEF Open, FamilyInv, TypeOK
  <2>6. ItemOK(r)
    <3>1. q.op = "confirm" /\ None \notin q.made
      BY <1>2 DEF Request, None, Families
    <3> QED BY <1>2, <1>3, <2>1, <2>3, <2>4, <2>5, <3>1 DEF RequestOK, ItemOK, Confirming
  <2>7. WritesOK(r)
    BY <1>2, <2>1, <2>3, <2>4 DEF RequestOK, WritesOK, Known
  <2>8. MembersOK(r)
    <3>1. ASSUME q.key # NoKey PROVE \E c \in proposals[p].members : Scattered(q, c)
      <4>1. PICK c \in proposals[p].members : View(h, c) = None
        BY <1>1, <1>6, <1>9, <3>1 DEF EmptyFamily, Batch
      <4>2. Scattered(q, c)
        BY <1>1, <1>2, <2>5, <4>1, ScatteredIs
      <4> QED BY <4>1, <4>2
    <3> QED BY <1>2, <2>1, <2>4, <3>1 DEF RequestOK, MembersOK, Confirming, Scattered
  <2>9. Become(h, r)
    BY <1>1, <1>9, <2>1, <2>2, <2>a
  <2> QED BY <1>1, <1>4, <2>4, <2>6, <2>7, <2>8, <2>9, RequestMoves DEF RequestOK
<1>10. CASE Become(h, [req[h] EXCEPT !.todo = @ \ {p}])
  <2>1. PICK r : r = [q EXCEPT !.todo = @ \ {p}]
    OBVIOUS
  <2>2. /\ r \in Request /\ r.pc = q.pc /\ r.op = q.op /\ r.key = q.key /\ r.fam = q.fam
        /\ r.fams = q.fams /\ r.todo = q.todo \ {p} /\ r.staged = q.staged
        /\ r.made = q.made /\ r.code = q.code /\ r.tries = q.tries /\ r.sure = q.sure
    BY <1>2, <1>3, <2>1 DEF Request
  <2>3. RequestOK(r)
    BY <1>2, <1>3, <2>2 DEF RequestOK, ItemOK, WritesOK, MembersOK, Known, Confirming
  <2> QED BY <1>1, <1>4, <1>10, <2>1, <2>2, <2>3, RequestMoves
<1> QED BY <1>5, <1>6, <1>7, <1>8, <1>9, <1>10

(* The next code is none that exists, archived or not, and none of its own. *)
LEMMA NextCodeIsNew ==
    ASSUME NEW h \in Handlers, req[h] \in Request
    PROVE  NextCode(h) \notin Existing \cup req[h].made /\ NextCode(h) # None
<1>1. PICK fs : fs = Existing \cup req[h].made
  OBVIOUS
<1>2. fs \in SUBSET (1..MaxFamilies) /\ MaxFamilies \in Nat
  BY <1>1, FamiliesAssumption DEF Existing, Families, Request
<1>3. Highest(fs) \in fs \cup {0} /\ \A f \in fs : f <= Highest(fs)
  BY <1>2, HighestIsHighest
<1>4. NextCode(h) = Highest(fs) + 1
  BY <1>1 DEF NextCode
<1>5. Highest(fs) \in Nat
  <2>1. fs \subseteq Nat
    BY <1>2
  <2>2. PICK n : n = Highest(fs)
    OBVIOUS
  <2>3. n \in fs \/ n = 0
    BY <1>3, <2>2
  <2>4. n \in Nat
    <3>1. CASE n \in fs
      BY <2>1, <3>1
    <3>2. CASE n = 0
      BY <3>2
    <3> QED BY <2>3, <3>1, <3>2
  <2> QED BY <2>2, <2>4
<1>6. ASSUME Highest(fs) + 1 \in fs PROVE FALSE
  <2>1. Highest(fs) + 1 <= Highest(fs)
    BY <1>3, <1>6
  <2> QED BY <1>5, <2>1
<1> QED BY <1>1, <1>4, <1>5, <1>6 DEF None

LEMMA NumberKeeps == ASSUME FamilyInv, NEW h \in Handlers, Number(h) PROVE FamilyInv'
<1>1. PICK q : q = req[h]
  OBVIOUS
<1>2. q \in Request /\ RequestOK(q) /\ q.pc = "number"
  BY <1>1 DEF FamilyInv, TypeOK, Number, At
<1>3. sent' \in 0..MaxRequests /\ UNCHANGED data
  BY DEF FamilyInv, TypeOK, Number
<1>4. PICK code \in Families : code = NextCode(h)
  BY DEF Number
<1>5. PICK base : base = IF q.tries = 0 THEN Cardinality(Existing) ELSE q.base
  OBVIOUS
<1>6. base \in Nat
  <2>1. IsFiniteSet(Families)
    BY FamiliesAssumption, FS_Interval DEF Families
  <2>2. Existing \in SUBSET Families
    BY DEF Existing
  <2>3. Cardinality(Existing) \in Nat
    BY <2>1, <2>2, FS_Subset, FS_CardinalityType
  <2> QED BY <1>2, <1>5, <2>3 DEF Request
<1>7. PICK r : r = [q EXCEPT !.pc = "insert", !.code = code, !.base = base]
  OBVIOUS
<1>8. /\ r \in Request /\ r.pc = "insert" /\ r.op = q.op /\ r.key = q.key /\ r.fam = q.fam
      /\ r.fams = q.fams /\ r.todo = q.todo /\ r.staged = q.staged /\ r.item = q.item
      /\ r.made = q.made /\ r.code = code /\ r.tries = q.tries /\ r.sure = q.sure
      /\ r.disturbed = q.disturbed
  BY <1>2, <1>4, <1>6, <1>7 DEF Request
<1>9. code \notin q.made /\ code # None
  BY <1>1, <1>2, <1>4, NextCodeIsNew
<1>10. ItemOK(r)
  BY <1>2, <1>8, <1>9 DEF RequestOK, ItemOK, Confirming
<1>11. WritesOK(r)
  BY <1>2, <1>8 DEF RequestOK, WritesOK, Known
<1>12. MembersOK(r)
  BY <1>2, <1>8 DEF RequestOK, MembersOK, Confirming, Scattered
<1>13. Become(h, r)
  BY <1>1, <1>4, <1>5, <1>7 DEF Number
<1> QED BY <1>1, <1>3, <1>8, <1>10, <1>11, <1>12, <1>13, RequestMoves DEF RequestOK

LEMMA InsertKeeps == ASSUME FamilyInv, NEW h \in Handlers, Insert(h) PROVE FamilyInv'
<1>1. PICK q : q = req[h]
  OBVIOUS
<1>2. q \in Request /\ RequestOK(q) /\ q.pc = "insert"
  BY <1>1 DEF FamilyInv, TypeOK, Insert, At
<1>3. sent' \in 0..MaxRequests /\ UNCHANGED data /\ UNCHANGED <<data, sent>>
  BY DEF FamilyInv, TypeOK, Insert
<1>4. q.op \in {"create", "confirm"} /\ q.fam = None /\ q.code # None /\ q.code \in Families
  BY <1>2 DEF RequestOK, ItemOK, Request
<1>5. CASE ~Taken(h)
  <2>1. q.code \notin Existing
    BY <1>1, <1>2, <1>4, <1>5 DEF Taken, At, Existing
  <2>2. PICK b \in {"commit", "look"} : b = IF q.op = "create" THEN "commit" ELSE "look"
    OBVIOUS
  <2>3. PICK r : r = [q EXCEPT !.made = @ \cup {q.code}, !.pc = b]
    OBVIOUS
  <2>4. /\ r \in Request /\ r.pc = b /\ r.op = q.op /\ r.key = q.key /\ r.fam = q.fam
        /\ r.fams = q.fams /\ r.todo = q.todo /\ r.staged = q.staged /\ r.item = q.item
        /\ r.made = q.made \cup {q.code} /\ r.code = q.code /\ r.tries = q.tries
        /\ r.sure = q.sure /\ r.disturbed = q.disturbed
    BY <1>2, <1>4, <2>2, <2>3 DEF Request
  <2>5. Become(h, r)
    BY <1>1, <1>5, <2>2, <2>3 DEF Insert
  <2>6. \A w \in q.staged : w[2] # q.code
    BY <1>2, <1>4, <2>1 DEF RequestOK, ItemOK, WritesOK, Known
  <2>7. ItemOK(r)
    BY <1>2, <1>4, <2>2, <2>4, <2>6 DEF RequestOK, ItemOK, Confirming
  <2>8. WritesOK(r)
    BY <1>2, <2>2, <2>4 DEF RequestOK, WritesOK, Known
  <2>9. MembersOK(r)
    BY <1>2, <1>4, <2>2, <2>4 DEF RequestOK, MembersOK, Confirming, Scattered
  <2>10. \A f \in r.made \ req[h].made :
            f \notin Existing /\ \A g \in Handlers \ {h} : f \notin req[g].made
    BY <1>1, <2>1, <2>4 DEF Insert
  <2> QED BY <1>3, <2>4, <2>5, <2>7, <2>8, <2>9, <2>10, RequestMoves DEF RequestOK
<1>6. CASE Taken(h) /\ q.tries = 0
  <2>1. PICK r : r = [q EXCEPT !.tries = 1, !.pc = "number"]
    OBVIOUS
  <2>2. /\ r \in Request /\ r.pc = "number" /\ r.op = q.op /\ r.key = q.key /\ r.fam = q.fam
        /\ r.fams = q.fams /\ r.todo = q.todo /\ r.staged = q.staged /\ r.item = q.item
        /\ r.made = q.made /\ r.code = q.code /\ r.sure = q.sure /\ r.disturbed = q.disturbed
    <3>1. PICK s : s = [q EXCEPT !.tries = 1]
      OBVIOUS
    <3>2. s \in Request
      BY <1>2, <3>1 DEF Request
    <3>3. r = [s EXCEPT !.pc = "number"]
      BY <1>2, <2>1, <3>1 DEF Request
    <3>4. r \in Request
      BY <3>2, <3>3 DEF Request
    <3> QED BY <1>2, <2>1, <3>4 DEF Request
  <2>3. Become(h, r)
    BY <1>1, <1>6, <2>1 DEF Insert
  <2>4. ItemOK(r) /\ WritesOK(r)
    BY <1>2, <2>2 DEF RequestOK, ItemOK, WritesOK, Known, Confirming
  <2>5. MembersOK(r)
    BY <1>2, <2>2 DEF RequestOK, MembersOK, Confirming, Scattered
  <2> QED BY <1>1, <1>3, <2>2, <2>3, <2>4, <2>5, RequestMoves DEF RequestOK
<1>7. CASE Taken(h) /\ q.tries # 0
  <2>1. ItemError(h)
    BY <1>1, <1>7 DEF Insert
  <2> QED BY <1>1, <1>2, <1>3, <2>1, ItemErrorKeeps
<1> QED BY <1>5, <1>6, <1>7

LEMMA LookKeeps == ASSUME FamilyInv, NEW h \in Handlers, Look(h) PROVE FamilyInv'
<1>1. PICK q, seen : /\ q = req[h]
                     /\ seen = {c \in proposals[q.item].members : View(h, c) = None}
  OBVIOUS
<1>2. q \in Request /\ RequestOK(q) /\ q.pc = "look"
  BY <1>1 DEF FamilyInv, TypeOK, Look, At
<1>3. sent' \in 0..MaxRequests /\ UNCHANGED data
  BY DEF FamilyInv, TypeOK, Look
<1>4. q.op = "confirm" /\ q.item \in Proposals
  BY <1>2 DEF RequestOK, ItemOK, Confirming
<1>5. proposals[q.item].members \in SUBSET Creatives
  BY <1>4 DEF FamilyInv, TypeOK
<1>6. seen = {c \in proposals[q.item].members : Scattered(q, c)}
  BY <1>1, <1>4, <1>5, ScatteredIs
<1>7. PICK r : r = [q EXCEPT !.pc = "take", !.seen = seen]
  OBVIOUS
<1>8. /\ r \in Request /\ r.pc = "take" /\ r.op = q.op /\ r.key = q.key /\ r.fam = q.fam
      /\ r.fams = q.fams /\ r.todo = q.todo /\ r.staged = q.staged /\ r.item = q.item
      /\ r.made = q.made /\ r.code = q.code /\ r.sure = q.sure
      /\ r.disturbed = q.disturbed /\ r.seen = seen
  BY <1>1, <1>2, <1>5, <1>7 DEF Request
<1>9. ItemOK(r)
  BY <1>2, <1>4, <1>8 DEF RequestOK, ItemOK, Confirming
<1>10. WritesOK(r)
  BY <1>2, <1>6, <1>8 DEF RequestOK, WritesOK, Known, Scattered
<1>11. MembersOK(r)
  BY <1>2, <1>4, <1>6, <1>8 DEF RequestOK, MembersOK, Confirming, Scattered
<1>12. Become(h, r)
  BY <1>1, <1>7 DEF Look
<1> QED BY <1>1, <1>3, <1>8, <1>9, <1>10, <1>11, <1>12, RequestMoves DEF RequestOK

LEMMA TakeKeeps == ASSUME FamilyInv, NEW h \in Handlers, Take(h) PROVE FamilyInv'
<1>1. PICK q : q = req[h]
  OBVIOUS
<1>a. PICK d : d = Done(h, req[h])
  OBVIOUS
<1>b. PICK f : f = Target(h)
  OBVIOUS
<1>2. q \in Request /\ RequestOK(q) /\ q.pc = "take"
  BY <1>1 DEF FamilyInv, TypeOK, Take, At
<1>3. sent' \in 0..MaxRequests /\ UNCHANGED data
  BY DEF FamilyInv, TypeOK, Take
<1>4. q.op = "confirm" /\ q.item \in Proposals
  BY <1>2 DEF RequestOK, ItemOK, Confirming
<1>5. f = IF q.fam = None THEN q.code ELSE q.fam
  BY <1>1, <1>b DEF Target
<1>6. f # None /\ f \in Known(q) /\ f \in Families
  BY <1>2, <1>5 DEF RequestOK, ItemOK, WritesOK, Known, Request, Families, None, Existing
<1>7. q.code # None => f = q.code /\ q.fam = None
  BY <1>2, <1>5 DEF RequestOK, ItemOK
<1>8. /\ d \in Request /\ d.pc \in {"item", "commit"} /\ d.op = q.op /\ d.key = q.key
      /\ d.fam = q.fam /\ d.fams = q.fams /\ d.todo = q.todo \ {q.item} /\ d.staged = q.staged
      /\ d.drop = q.drop /\ d.made = q.made /\ d.code = None /\ d.tries = 0 /\ d.sure = q.sure
  BY <1>1, <1>a, <1>2, DoneIs
<1>9. PICK new : new = q.staged \cup (q.seen \X {f})
  OBVIOUS
<1>10. PICK sure : sure = IF q.disturbed THEN q.sure ELSE q.sure \cup {q.code}
  OBVIOUS
<1>11. PICK drop : drop = q.drop \cup {q.item}
  OBVIOUS
<1>12. PICK r : r = [d EXCEPT !.staged = new, !.drop = drop, !.sure = sure]
  OBVIOUS
<1>13. Become(h, r)
  BY <1>1, <1>a, <1>b, <1>8, <1>9, <1>10, <1>11, <1>12 DEF Take
<1>14. /\ new \in SUBSET (Creatives \X (Families \cup {None})) /\ drop \in SUBSET Proposals
       /\ sure \in SUBSET (Families \cup {None})
  BY <1>2, <1>4, <1>6, <1>9, <1>10, <1>11 DEF Request
<1>15. r \in Request
  <2>1. PICK s : s = [d EXCEPT !.staged = new]
    OBVIOUS
  <2>2. s \in Request
    BY <1>8, <1>14, <2>1 DEF Request
  <2>3. r = [s EXCEPT !.drop = drop, !.sure = sure]
    BY <1>8, <1>12, <2>1 DEF Request
  <2> QED BY <1>14, <2>2, <2>3 DEF Request
<1>16. /\ r.pc = d.pc /\ r.op = q.op /\ r.key = q.key /\ r.fam = q.fam
       /\ r.fams = q.fams /\ r.todo = q.todo \ {q.item} /\ r.staged = new
       /\ r.made = q.made /\ r.code = None /\ r.tries = 0 /\ r.sure = sure
  BY <1>8, <1>12 DEF Request
<1>17. ItemOK(r)
  BY <1>2, <1>4, <1>8, <1>16 DEF RequestOK, ItemOK, Confirming
<1>18. ASSUME NEW w \in new
       PROVE  w \in q.staged \/ (w[1] \in q.seen /\ w[2] = f /\ w = <<w[1], f>>)
  BY <1>9
<1>19. WritesOK(r)
  <2>1. r.fam \in Existing \cup {None} /\ r.fams \subseteq Existing
    BY <1>2, <1>16 DEF RequestOK, WritesOK
  <2>2. ASSUME NEW w \in new PROVE w[2] \in Known(r) /\ w[2] # None
    BY <1>2, <1>4, <1>6, <1>16, <1>18 DEF RequestOK, WritesOK, Known
  <2>3. ASSUME NEW w \in new, NEW x \in new, w[1] = x[1] PROVE w = x
    <3>1. \A y \in q.staged : y[1] \notin q.seen
      BY <1>2 DEF RequestOK, WritesOK
    <3>2. CASE w \in q.staged /\ x \in q.staged
      BY <1>2, <1>4, <2>3, <3>2 DEF RequestOK, WritesOK
    <3>3. CASE w \notin q.staged /\ x \notin q.staged
      BY <1>18, <2>3, <3>3
    <3> QED BY <1>18, <2>3, <3>1, <3>2, <3>3
  <2> QED BY <1>8, <1>16, <2>1, <2>2, <2>3 DEF WritesOK
<1>20. MembersOK(r)
  <2>1. ASSUME q.key # NoKey, NEW g \in sure \ {None}
        PROVE  \E c \in Creatives : <<c, g>> \in new
    <3>1. CASE g \in q.sure
      BY <1>2, <1>9, <2>1, <3>1 DEF RequestOK, MembersOK
    <3>2. CASE g \notin q.sure
      <4>1. g = q.code /\ ~q.disturbed /\ g # None
        BY <1>10, <2>1, <3>2
      <4>2. q.seen # {} /\ f = g
        BY <1>2, <1>4, <1>7, <2>1, <4>1 DEF RequestOK, MembersOK, Confirming
      <4>3. PICK c \in q.seen : c \in Creatives
        BY <1>2, <4>2 DEF Request
      <4> QED BY <1>9, <4>2, <4>3
    <3> QED BY <3>1, <3>2
  <2> QED BY <1>4, <1>8, <1>16, <2>1 DEF MembersOK, Confirming
<1> QED BY <1>1, <1>3, <1>13, <1>15, <1>16, <1>17, <1>19, <1>20, RequestMoves DEF RequestOK

LEMMA SetDnaKeeps ==
    ASSUME FamilyInv, NEW h \in Handlers, req[h].pc = "item", req[h].op \in {"assign", "unassign"},
           NEW c \in req[h].todo, SetDna(h, c)
    PROVE  FamilyInv'
<1>1. PICK q : q = req[h]
  OBVIOUS
<1>2. q \in Request /\ RequestOK(q)
  BY <1>1 DEF FamilyInv, TypeOK
<1>3. sent' \in 0..MaxRequests /\ UNCHANGED data
  BY DEF FamilyInv, TypeOK, SetDna
<1>4. c \in Creatives /\ q.sure = {}
  BY <1>1, <1>2 DEF RequestOK, ItemOK, MembersOK
<1>5. PICK new : new = IF View(h, c) = q.fam THEN q.staged ELSE q.staged \cup {<<c, q.fam>>}
  OBVIOUS
<1>6. PICK todo : todo = q.todo \ {c}
  OBVIOUS
<1>7. PICK r : r = [q EXCEPT !.todo = todo, !.staged = new]
  OBVIOUS
<1>8. Become(h, r)
  BY <1>1, <1>5, <1>6, <1>7 DEF SetDna
<1>9. new \in SUBSET (Creatives \X (Families \cup {None}))
  BY <1>2, <1>4, <1>5 DEF Request
<1>10. /\ r \in Request /\ r.pc = q.pc /\ r.op = q.op /\ r.key = q.key /\ r.fam = q.fam
       /\ r.fams = q.fams /\ r.todo = todo /\ r.staged = new
       /\ r.made = q.made /\ r.code = q.code /\ r.tries = q.tries /\ r.sure = {}
  BY <1>2, <1>4, <1>6, <1>7, <1>9 DEF Request
<1>11. ItemOK(r)
  BY <1>1, <1>2, <1>6, <1>10 DEF RequestOK, ItemOK, Confirming
<1>12. WritesOK(r)
  BY <1>1, <1>2, <1>5, <1>10 DEF RequestOK, WritesOK, Known
<1>13. MembersOK(r)
  BY <1>1, <1>10 DEF MembersOK, Confirming
<1> QED BY <1>1, <1>3, <1>8, <1>10, <1>11, <1>12, <1>13, RequestMoves DEF RequestOK

LEMMA ItemFailsKeeps == ASSUME FamilyInv, NEW h \in Handlers, ItemFails(h) PROVE FamilyInv'
<1>1. UNCHANGED <<data, sent>>
  BY DEF ItemFails
<1>2. CASE req[h].pc \in {"number", "insert", "look", "take"} /\ ItemError(h)
  BY <1>1, <1>2, ItemErrorKeeps
<1>3. CASE At(h, "item") /\ \E i \in req[h].todo : Become(h, [req[h] EXCEPT !.todo = @ \ {i}])
  <2>1. PICK q, i : q = req[h] /\ i \in q.todo /\ Become(h, [q EXCEPT !.todo = @ \ {i}])
    BY <1>3
  <2>2. q \in Request /\ RequestOK(q) /\ q.pc = "item"
    BY <1>3, <2>1 DEF FamilyInv, TypeOK, At
  <2>3. PICK r : r = [q EXCEPT !.todo = @ \ {i}]
    OBVIOUS
  <2>4. /\ r \in Request /\ r.pc = q.pc /\ r.op = q.op /\ r.key = q.key /\ r.fam = q.fam
        /\ r.fams = q.fams /\ r.todo = q.todo \ {i} /\ r.staged = q.staged
        /\ r.made = q.made /\ r.code = q.code /\ r.tries = q.tries /\ r.sure = q.sure
    BY <2>2, <2>3 DEF Request
  <2>5. RequestOK(r)
    BY <2>2, <2>4 DEF RequestOK, ItemOK, WritesOK, MembersOK, Known, Confirming
  <2>6. sent' \in 0..MaxRequests
    BY <1>1 DEF FamilyInv, TypeOK
  <2> QED BY <1>1, <2>1, <2>3, <2>4, <2>5, <2>6, RequestMoves
<1> QED BY <1>2, <1>3 DEF ItemFails

LEMMA CommitKeeps == ASSUME FamilyInv, NEW h \in Handlers, Commit(h) PROVE FamilyInv'
<1>1. CASE KeyTaken(h)
  BY <1>1, FailsKeeps DEF Commit
<1>2. CASE ~KeyTaken(h)
  <2>1. /\ Finish(h)
        /\ fam' = [f \in Families |-> IF f \in req[h].made THEN "active" ELSE fam[f]]
        /\ dna' = Written(h)
        /\ proposals' = [p \in Proposals |-> IF p \in req[h].drop
                           THEN [proposals[p] EXCEPT !.state = "gone"] ELSE proposals[p]]
        /\ keys' = IF Batch(h) THEN keys \cup {req[h].key} ELSE keys
        /\ ran' = IF Batch(h) THEN [ran EXCEPT ![req[h].key] = @ + 1] ELSE ran
        /\ sent' = sent
    BY <1>2 DEF Commit
  <2>2. req[h] \in Request /\ WritesOK(req[h])
    BY DEF FamilyInv, TypeOK, RequestOK
  <2>3. Existing' = Existing \cup req[h].made
    BY <2>1, <2>2 DEF Existing, Request
  <2>4. fam' \in [Families -> {"none", "active", "archived"}]
    BY <2>1 DEF FamilyInv, TypeOK
  <2>5. dna' \in [Creatives -> Existing' \cup {None}]
    <3>1. ASSUME NEW c \in Creatives PROVE View(h, c) \in Existing \cup req[h].made \cup {None}
      <4>1. CASE View(h, c) = dna[c]
        BY <4>1 DEF FamilyInv, TypeOK
      <4>2. CASE <<c, View(h, c)>> \in req[h].staged
        <5> DEFINE w == <<c, View(h, c)>>
        <5>1. w \in req[h].staged /\ w[2] = View(h, c)
          BY <4>2
        <5>2. w[2] \in Known(req[h])
          BY <2>2, <5>1 DEF WritesOK
        <5> QED BY <5>1, <5>2 DEF Known
      <4> QED BY <2>2, <4>1, <4>2, ViewIs
    <3> QED BY <2>1, <2>3, <3>1 DEF Written
  <2>6. /\ proposals' \in [Proposals -> [state : {"unread", "open", "gone"},
                                         into : Existing' \cup {None},
                                         members : SUBSET Creatives]]
        /\ ProposalsKept
    <3>1. ASSUME NEW p \in Proposals
          PROVE  /\ proposals'[p] \in [state : {"unread", "open", "gone"},
                                       into : Existing' \cup {None},
                                       members : SUBSET Creatives]
                 /\ proposals'[p].members = proposals[p].members
                 /\ proposals'[p].state \in {"gone", proposals[p].state}
      <4>1. proposals[p] \in [state : {"unread", "open", "gone"},
                              into : Existing \cup {None}, members : SUBSET Creatives]
        BY DEF FamilyInv, TypeOK
      <4> QED BY <2>1, <2>3, <4>1
    <3>2. proposals' = [p \in Proposals |-> proposals'[p]]
      BY <2>1
    <3> QED BY <3>1, <3>2 DEF ProposalsKept
  <2>7. keys' \subseteq Keys
    BY <2>1, <2>2 DEF FamilyInv, TypeOK, Batch, Request
  <2>8. ran' \in [Keys -> Nat]
    <3>1. ran \in [Keys -> Nat]
      BY DEF FamilyInv, TypeOK
    <3>2. CASE Batch(h)
      <4>1. ran' = [ran EXCEPT ![req[h].key] = @ + 1]
        BY <2>1, <3>2
      <4>2. PICK k \in Keys : k = req[h].key
        BY <2>2, <3>2 DEF Batch, Request
      <4>3. ran[k] \in Nat
        BY <3>1, <4>2
      <4>4. ran' = [ran EXCEPT ![k] = ran[k] + 1]
        BY <4>1, <4>2
      <4>5. ran[k] + 1 \in Nat
        BY <4>3
      <4> QED BY <3>1, <4>2, <4>4, <4>5
    <3>3. CASE ~Batch(h)
      BY <2>1, <3>1, <3>3
    <3> QED BY <3>2, <3>3
  <2>9. TypeOK /\ req' \in [Handlers -> Request] => TypeOK'
    BY <2>1, <2>4, <2>5, <2>6, <2>7, <2>8 DEF TypeOK
  <2> QED BY <2>1, <2>3, <2>6, <2>9, CommitMoves
<1> QED BY <1>1, <1>2

LEMMA ReleaseKeeps == ASSUME FamilyInv, NEW h \in Handlers, Release(h) PROVE FamilyInv'
<1>1. /\ Finish(h)
      /\ dna' = [c \in Creatives |-> IF c \in req[h].seen THEN None ELSE dna[c]]
      /\ fam' = [fam EXCEPT ![req[h].fam] = "archived"]
      /\ proposals' = proposals /\ keys' = keys /\ ran' = ran /\ sent' = sent
  BY DEF Release
<1>2. req[h].fam \in Existing \cup {None}
  BY DEF FamilyInv, RequestOK, WritesOK
<1>3. fam' \in [Families -> {"none", "active", "archived"}]
  BY <1>1 DEF FamilyInv, TypeOK
<1>4. Existing' = Existing
  BY <1>1, <1>2 DEF FamilyInv, TypeOK, Existing, None, Families
<1>5. dna' \in [Creatives -> Existing' \cup {None}]
  BY <1>1, <1>4 DEF FamilyInv, TypeOK
<1>6. TypeOK /\ req' \in [Handlers -> Request] => TypeOK'
  BY <1>1, <1>3, <1>4, <1>5 DEF TypeOK
<1>7. ProposalsKept
  BY <1>1 DEF ProposalsKept
<1> QED BY <1>1, <1>4, <1>6, <1>7, CommitMoves

LEMMA AutoWriteKeeps == ASSUME FamilyInv, NEW h \in Handlers, AutoWrite(h) PROVE FamilyInv'
<1>1. /\ Finish(h)
      /\ dna' = [c \in Creatives |-> IF c \in req[h].seen THEN req[h].fam ELSE dna[c]]
      /\ fam' = fam /\ proposals' = proposals /\ keys' = keys /\ ran' = ran /\ sent' = sent
  BY DEF AutoWrite
<1>2. req[h].fam \in Existing \cup {None}
  BY DEF FamilyInv, RequestOK, WritesOK
<1>3. Existing' = Existing
  BY <1>1 DEF Existing
<1>4. dna' \in [Creatives -> Existing' \cup {None}]
  BY <1>1, <1>2, <1>3 DEF FamilyInv, TypeOK
<1>5. TypeOK /\ req' \in [Handlers -> Request] => TypeOK'
  BY <1>1, <1>3, <1>4 DEF TypeOK
<1>6. ProposalsKept
  BY <1>1 DEF ProposalsKept
<1> QED BY <1>1, <1>3, <1>5, <1>6, CommitMoves

(* A commit that disturbs nobody: it assigns no creative.                   *)
LEMMA QuietCommitMoves ==
    ASSUME FamilyInv, Existing' = Existing, dna' = dna, ProposalsKept, TypeOK',
           \A h \in Handlers : req'[h] \in {req[h], Idle}
    PROVE  FamilyInv'
<1>1. ASSUME NEW h \in Handlers
      PROVE  RequestOK(req[h])' /\ (req'[h].made = req[h].made \/ req'[h].made = {})
  <2>1. PICK r : r = req'[h]
    OBVIOUS
  <2>2. r \in Request /\ RequestOK(r)
    BY <2>1, IdleOK DEF FamilyInv, TypeOK
  <2>3. RequestOK(r)'
    BY <2>2, RequestsOutlast
  <2>4. r.made = req[h].made \/ r.made = {}
    BY <2>1 DEF Idle
  <2> QED BY <2>1, <2>3, <2>4
<1>2. MadeApart'
  BY <1>1 DEF FamilyInv, MadeApart
<1> QED BY <1>1, <1>2 DEF FamilyInv

LEMMA SuggestWriteKeeps == ASSUME FamilyInv, NEW h \in Handlers, SuggestWrite(h) PROVE FamilyInv'
<1>a. PICK ps \in (SUBSET Unread) \ {{}} :
       \E g \in [ps -> (SUBSET req[h].seen) \ {{}}], into \in [ps -> req[h].fams \cup {None}] :
         /\ \A p \in ps : into[p] = None => Cardinality(g[p]) >= 2
         /\ \A p, q \in ps : p # q => g[p] \cap g[q] = {}
         /\ proposals' = [q \in Proposals |->
              IF q \in ps THEN [state |-> "open", into |-> into[q], members |-> g[q]]
              ELSE IF q \in Open THEN [proposals[q] EXCEPT !.state = "gone"]
              ELSE proposals[q]]
  BY Zenon DEF SuggestWrite
<1>1. PICK g \in [ps -> (SUBSET req[h].seen) \ {{}}], into \in [ps -> req[h].fams \cup {None}] :
        proposals' = [q \in Proposals |->
              IF q \in ps THEN [state |-> "open", into |-> into[q], members |-> g[q]]
              ELSE IF q \in Open THEN [proposals[q] EXCEPT !.state = "gone"]
              ELSE proposals[q]]
  BY <1>a
<1>2. /\ Become(h, Idle) /\ fam' = fam /\ dna' = dna /\ keys' = keys /\ ran' = ran /\ sent' = sent
  BY DEF SuggestWrite
<1>3. Existing' = Existing
  BY <1>2 DEF Existing
<1>4. req[h] \in Request /\ req[h].fams \subseteq Existing
  BY DEF FamilyInv, TypeOK, RequestOK, WritesOK
<1>5. ASSUME NEW p \in Proposals
      PROVE  /\ proposals'[p] \in [state : {"unread", "open", "gone"}, into : Existing \cup {None},
                                   members : SUBSET Creatives]
             /\ proposals[p].state # "unread" =>
                   proposals'[p].state # "unread" /\ proposals'[p].members = proposals[p].members
  <2>1. proposals[p] \in [state : {"unread", "open", "gone"}, into : Existing \cup {None},
                          members : SUBSET Creatives]
    BY DEF FamilyInv, TypeOK
  <2>2. CASE p \in ps
    <3>1. into[p] \in Existing \cup {None} /\ g[p] \in SUBSET Creatives
      BY <1>4, <2>2 DEF Request
    <3>2. proposals[p].state = "unread"
      BY <2>2 DEF Unread
    <3>3. proposals'[p] = [state |-> "open", into |-> into[p], members |-> g[p]]
      BY <1>1, <2>2
    <3> QED BY <3>1, <3>2, <3>3
  <2>3. CASE p \notin ps
    <3>1. proposals'[p] \in {proposals[p], [proposals[p] EXCEPT !.state = "gone"]}
      BY <1>1, <2>3
    <3> QED BY <2>1, <3>1
  <2> QED BY <2>2, <2>3
<1>6. proposals' \in [Proposals -> [state : {"unread", "open", "gone"},
                                    into : Existing \cup {None}, members : SUBSET Creatives]]
  <2>1. proposals' = [p \in Proposals |-> proposals'[p]]
    BY <1>1
  <2> QED BY <1>5, <2>1
<1>7. ProposalsKept
  BY <1>5 DEF ProposalsKept
<1>8. \A g1 \in Handlers : req'[g1] \in {req[g1], Idle}
  BY <1>2 DEF FamilyInv, TypeOK, Become
<1>9. req' \in [Handlers -> Request]
  BY <1>2, IdleOK DEF FamilyInv, TypeOK, Become
<1>10. TypeOK'
  BY <1>2, <1>3, <1>6, <1>9 DEF FamilyInv, TypeOK
<1> QED BY <1>2, <1>3, <1>7, <1>8, <1>10, QuietCommitMoves

LEMMA DismissKeeps == ASSUME FamilyInv, Dismiss PROVE FamilyInv'
<1>1. PICK p \in Open : proposals' = [proposals EXCEPT ![p].state = "gone"]
  BY DEF Dismiss
<1>2. fam' = fam /\ dna' = dna /\ keys' = keys /\ ran' = ran /\ sent' = sent /\ req' = req
  BY DEF Dismiss
<1>3. Existing' = Existing
  BY <1>2 DEF Existing
<1>4. proposals' \in [Proposals -> [state : {"unread", "open", "gone"},
                                    into : Existing \cup {None}, members : SUBSET Creatives]]
  BY <1>1 DEF FamilyInv, TypeOK
<1>5. ProposalsKept
  BY <1>1 DEF ProposalsKept, FamilyInv, TypeOK
<1>6. TypeOK'
  BY <1>2, <1>3, <1>4 DEF FamilyInv, TypeOK
<1> QED BY <1>2, <1>3, <1>5, <1>6, QuietCommitMoves

LEMMA ReactivateKeeps == ASSUME FamilyInv, Reactivate PROVE FamilyInv'
<1>1. PICK f \in Existing \ Active : fam' = [fam EXCEPT ![f] = "active"]
  BY DEF Reactivate
<1>2. /\ proposals' = proposals /\ dna' = dna /\ keys' = keys /\ ran' = ran /\ req' = req
      /\ sent' \in 0..MaxRequests
  BY FamiliesAssumption DEF Reactivate, FamilyInv, TypeOK
<1>3. Existing' = Existing /\ fam' \in [Families -> {"none", "active", "archived"}]
  BY <1>1 DEF Existing, FamilyInv, TypeOK
<1>4. TypeOK' /\ ProposalsKept
  BY <1>2, <1>3 DEF FamilyInv, TypeOK, ProposalsKept
<1> QED BY <1>2, <1>3, <1>4, QuietCommitMoves

LEMMA KeyExpiresKeeps == ASSUME FamilyInv, NEW k \in Keys, KeyExpires(k) PROVE FamilyInv'
<1>1. /\ fam' = fam /\ proposals' = proposals /\ dna' = dna /\ req' = req /\ sent' = sent
      /\ keys' = keys \ {k} /\ ran' = [ran EXCEPT ![k] = 0]
  BY DEF KeyExpires
<1>2. Existing' = Existing
  BY <1>1 DEF Existing
<1>3. TypeOK' /\ ProposalsKept
  BY <1>1, <1>2 DEF FamilyInv, TypeOK, ProposalsKept
<1> QED BY <1>1, <1>2, <1>3, QuietCommitMoves

-----------------------------------------------------------------------------
(* The theorems.                                                           *)

LEMMA FamilyInvInit == Init => FamilyInv
<1> SUFFICES ASSUME Init PROVE FamilyInv
  OBVIOUS
<1>1. req = [h \in Handlers |-> Idle]
  BY DEF Init
<1>2. \A h \in Handlers : req[h] \in Request /\ RequestOK(req[h]) /\ req[h].made = {}
  <2>1. Idle.made = {}
    BY DEF Idle
  <2> HIDE DEF Idle
  <2> QED BY <1>1, <2>1, IdleOK
<1>3. ASSUME NEW p \in Proposals
      PROVE  proposals[p] \in [state : {"unread", "open", "gone"}, into : Existing \cup {None},
                               members : SUBSET Creatives]
  <2>1. proposals[p] \in [state : {"open", "unread"}, into : {None, 1}, members : SUBSET Creatives]
    BY DEF Init
  <2>2. proposals[p].into \in Existing \cup {None}
    <3>1. Proposable(p) \/ proposals[p] = Unwritten
      BY DEF Init
    <3> QED BY <2>1, <3>1 DEF Proposable, Unwritten, Active, Existing
  <2> QED BY <2>1, <2>2
<1>4. proposals = [p \in Proposals |-> proposals[p]]
  BY DEF Init
<1>5. TypeOK
  <2>1. req \in [Handlers -> Request]
    BY <1>1, IdleOK
  <2>2. fam \in [Families -> {"none", "active", "archived"}]
    BY DEF Init
  <2>3. dna \in [Creatives -> Existing \cup {None}]
    BY DEF Init
  <2>4. keys \subseteq Keys /\ ran \in [Keys -> Nat] /\ sent \in 0..MaxRequests
    BY FamiliesAssumption DEF Init
  <2> QED BY <1>3, <1>4, <2>1, <2>2, <2>3, <2>4 DEF TypeOK
<1>6. MadeApart
  BY <1>2 DEF MadeApart
<1> QED BY <1>2, <1>5, <1>6 DEF FamilyInv

LEMMA FamilyInvStep == FamilyInv /\ [Next]_vars => FamilyInv'
<1> SUFFICES ASSUME FamilyInv, [Next]_vars PROVE FamilyInv'
  OBVIOUS
<1>1. ASSUME NEW h \in Handlers, Step(h) PROVE FamilyInv'
  <2>1. CASE ConfirmItem(h) \/ Number(h) \/ Insert(h) \/ Look(h) \/ Take(h)
    BY <2>1, ConfirmItemKeeps, NumberKeeps, InsertKeeps, LookKeeps, TakeKeeps
  <2>2. CASE AssignItem(h) \/ UnassignItem(h)
    <3>1. PICK c \in req[h].todo : SetDna(h, c)
      BY <2>2 DEF AssignItem, UnassignItem
    <3>2. req[h].pc = "item" /\ req[h].op \in {"assign", "unassign"}
      BY <2>2 DEF AssignItem, UnassignItem, At
    <3> QED BY <3>1, <3>2, SetDnaKeeps
  <2>3. CASE ItemFails(h) \/ Commit(h) \/ Release(h) \/ AutoWrite(h) \/ SuggestWrite(h)
    BY <2>3, ItemFailsKeeps, CommitKeeps, ReleaseKeeps, AutoWriteKeeps, SuggestWriteKeeps
  <2>4. CASE Fails(h)
    BY <2>4, FailsKeeps DEF Fails
  <2>5. CASE Create(h) \/ Confirm(h) \/ Assign(h) \/ Unassign(h) \/ Deactivate(h)
             \/ AutoAssign(h) \/ Suggest(h)
    BY <2>5, CreateKeeps, ConfirmKeeps, AssignKeeps, UnassignKeeps, DeactivateKeeps,
       AutoAssignKeeps, SuggestKeeps
  <2> QED BY <1>1, <2>1, <2>2, <2>3, <2>4, <2>5 DEF Step
<1>2. ASSUME NEW k \in Keys, KeyExpires(k) PROVE FamilyInv'
  BY <1>2, KeyExpiresKeeps
<1>3. CASE Reactivate
  BY <1>3, ReactivateKeeps
<1>4. CASE Dismiss
  BY <1>4, DismissKeeps
<1>5. CASE UNCHANGED vars
  <2>1. /\ fam' = fam /\ proposals' = proposals /\ dna' = dna /\ req' = req /\ sent' = sent
        /\ keys' = keys /\ ran' = ran
    BY <1>5 DEF vars, data
  <2>2. Existing' = Existing
    BY <2>1 DEF Existing
  <2>3. TypeOK' /\ ProposalsKept
    BY <2>1, <2>2 DEF FamilyInv, TypeOK, ProposalsKept
  <2> QED BY <2>1, <2>2, <2>3, QuietCommitMoves
<1> QED BY <1>1, <1>2, <1>3, <1>4, <1>5 DEF Next

(* Open requests stay in order whatever the others commit meanwhile: each   *)
(* new code belongs to one of them, and what they have written and not yet *)
(* committed refers to families there are or that come with the commit      *)
(* (dna.py, family_bootstrap.py, idempotency.py).                          *)
THEOREM RequestsStayInOrder == Spec => []FamilyInv
<1>1. Init => FamilyInv
  BY FamilyInvInit
<1>2. FamilyInv /\ [Next]_vars => FamilyInv'
  BY FamilyInvStep
<1> QED BY <1>1, <1>2, PTL DEF Spec

(* No creative and no proposal refers to a family that was never created.   *)
THEOREM FamiliesTyped == Spec => []TypeOK
<1>1. FamilyInv => TypeOK
  BY DEF FamilyInv
<1> QED BY <1>1, RequestsStayInOrder, PTL

-----------------------------------------------------------------------------
(* What a step may do to the families and the stored keys.                  *)

CommitsFamilies(h) ==
    /\ ~KeyTaken(h)
    /\ fam' = [f \in Families |-> IF f \in req[h].made THEN "active" ELSE fam[f]]
    /\ dna' = Written(h)
    /\ keys' = IF Batch(h) THEN keys \cup {req[h].key} ELSE keys
    /\ ran' = IF Batch(h) THEN [ran EXCEPT ![req[h].key] = @ + 1] ELSE ran

LEMMA StepsOfFamilies ==
    ASSUME [Next]_vars
    PROVE  \/ \E h \in Handlers : CommitsFamilies(h)
           \/ /\ keys' = keys /\ ran' = ran
              /\ \/ fam' = fam
                 \/ \E h \in Handlers : fam' = [fam EXCEPT ![req[h].fam] = "archived"]
                 \/ \E f \in Existing : fam' = [fam EXCEPT ![f] = "active"]
           \/ /\ fam' = fam
              /\ \E k \in Keys : keys' = keys \ {k} /\ ran' = [ran EXCEPT ![k] = 0]
<1>1. ASSUME NEW h \in Handlers, Step(h)
      PROVE  \/ CommitsFamilies(h)
             \/ /\ keys' = keys /\ ran' = ran
                /\ fam' = fam \/ fam' = [fam EXCEPT ![req[h].fam] = "archived"]
  <2>1. CASE Commit(h)
    BY <2>1 DEF Commit, CommitsFamilies, data
  <2>2. CASE ConfirmItem(h) \/ Number(h) \/ Insert(h) \/ Look(h) \/ Take(h)
    BY <2>2 DEF ConfirmItem, Number, Insert, Look, Take, data
  <2>3. CASE AssignItem(h) \/ UnassignItem(h) \/ ItemFails(h) \/ Fails(h)
    BY <2>3 DEF AssignItem, UnassignItem, SetDna, ItemFails, Fails, data
  <2>4. CASE Release(h) \/ AutoWrite(h) \/ SuggestWrite(h)
    BY <2>4 DEF Release, AutoWrite, SuggestWrite
  <2>5. CASE Create(h) \/ Confirm(h) \/ Assign(h) \/ Unassign(h)
    BY <2>5 DEF Create, Confirm, Assign, Unassign, data
  <2>6. CASE Deactivate(h) \/ AutoAssign(h) \/ Suggest(h)
    BY <2>6 DEF Deactivate, AutoAssign, Suggest, data
  <2> QED BY <1>1, <2>1, <2>2, <2>3, <2>4, <2>5, <2>6 DEF Step
<1>2. ASSUME NEW k \in Keys, KeyExpires(k)
      PROVE  fam' = fam /\ keys' = keys \ {k} /\ ran' = [ran EXCEPT ![k] = 0]
  BY <1>2 DEF KeyExpires
<1>3. CASE Reactivate
  BY <1>3 DEF Reactivate, Active
<1>4. CASE Dismiss \/ UNCHANGED vars
  BY <1>4 DEF Dismiss, vars, data
<1> QED BY <1>1, <1>2, <1>3, <1>4 DEF Next

(* A family that was created stays, archived or not.                       *)
LEMMA FamiliesStay == ASSUME TypeOK, [Next]_vars PROVE Existing \subseteq Existing'
<1>1. fam \in [Families -> {"none", "active", "archived"}]
  BY DEF TypeOK
<1>2. ASSUME NEW h \in Handlers, CommitsFamilies(h) PROVE Existing \subseteq Existing'
  BY <1>2 DEF CommitsFamilies, Existing
<1>3. ASSUME NEW f, NEW s, fam' = [fam EXCEPT ![f] = s], s # "none"
      PROVE  Existing \subseteq Existing'
  BY <1>1, <1>3 DEF Existing
<1>4. CASE fam' = fam
  BY <1>4 DEF Existing
<1> QED BY <1>2, <1>3, <1>4, StepsOfFamilies

(* Only the request that makes a family makes it exist.                     *)
LEMMA MadeByCommit ==
    ASSUME FamilyInv, [Next]_vars, NEW h \in Handlers, NEW f \in req[h].made,
           fam[f] = "none", fam'[f] # "none"
    PROVE  CommitsFamilies(h)
<1>1. f \in Families /\ fam \in [Families -> {"none", "active", "archived"}]
  BY DEF FamilyInv, TypeOK, Request
<1>2. ASSUME NEW g \in Handlers, CommitsFamilies(g) PROVE g = h
  <2>1. f \in req[g].made
    BY <1>1, <1>2 DEF CommitsFamilies
  <2> QED BY <2>1 DEF FamilyInv, MadeApart
<1>3. ASSUME NEW g \in Handlers, fam' = [fam EXCEPT ![req[g].fam] = "archived"] PROVE FALSE
  <2>1. req[g].fam \in Existing \cup {None}
    BY DEF FamilyInv, RequestOK, WritesOK
  <2>2. req[g].fam = f
    BY <1>1, <1>3
  <2> QED BY <1>1, <2>1, <2>2 DEF Existing, None, Families
<1>4. ASSUME NEW e \in Existing, fam' = [fam EXCEPT ![e] = "active"] PROVE FALSE
  BY <1>1, <1>4 DEF Existing
<1> QED BY <1>2, <1>3, <1>4, StepsOfFamilies

(* What a confirming request wrote is what it commits.                      *)
LEMMA WrittenIs ==
    ASSUME FamilyInv, NEW h \in Handlers, req[h].op = "confirm",
           NEW c \in Creatives, NEW f, <<c, f>> \in req[h].staged
    PROVE  View(h, c) = f
<1>1. req[h] \in Request /\ WritesOK(req[h])
  BY DEF FamilyInv, TypeOK, RequestOK
<1>2. PICK w, v : w = <<c, f>> /\ v = <<c, View(h, c)>>
  OBVIOUS
<1>3. w \in req[h].staged /\ w[1] = c /\ w[2] = f /\ v[1] = c /\ v[2] = View(h, c)
  BY <1>2
<1>4. v \in req[h].staged
  BY <1>1, <1>2, <1>3, ViewIs
<1>5. w = v
  BY <1>1, <1>3, <1>4 DEF WritesOK
<1> QED BY <1>3, <1>5

(* A family created by a batch whose proposal nobody disturbed gets a       *)
(* member with the same commit (family_bootstrap.py: confirm_batch,         *)
(* accept_suggestion).                                                     *)
THEOREM BatchFamiliesHaveMembers == Spec => BatchFamilyHasMembers
<1>1. FamilyInv /\ [Next]_vars => [MembersStep]_vars
  <2> SUFFICES ASSUME FamilyInv, [Next]_vars, NEW h \in Handlers,
                      NEW f \in req[h].made \cap req[h].sure,
                      Batch(h), fam[f] = "none", fam'[f] = "active"
               PROVE  \E c \in Creatives : dna'[c] = f
    BY DEF MembersStep
  <2>1. CommitsFamilies(h)
    BY MadeByCommit
  <2>2. f # None /\ req[h] \in Request /\ MembersOK(req[h])
    BY DEF FamilyInv, TypeOK, RequestOK, Request, Families, None
  <2>3. PICK c \in Creatives : <<c, f>> \in req[h].staged
    BY <2>2 DEF MembersOK, Batch
  <2>4. req[h].op = "confirm"
    BY <2>2 DEF MembersOK
  <2>5. View(h, c) = f
    BY <2>3, <2>4, WrittenIs
  <2> QED BY <2>1, <2>5 DEF CommitsFamilies, Written
<1> QED BY <1>1, RequestsStayInOrder, PTL DEF Spec, BatchFamilyHasMembers

(* Keys and the batches that took effect under them.                        *)
LEMMA KeysTellStep == FamilyInv /\ KeysTell /\ [Next]_vars => KeysTell'
<1> SUFFICES ASSUME FamilyInv, KeysTell, [Next]_vars, NEW k \in Keys
             PROVE  ran'[k] = IF k \in keys' THEN 1 ELSE 0
  BY DEF KeysTell
<1>1. ran \in [Keys -> Nat] /\ ran[k] = IF k \in keys THEN 1 ELSE 0
  BY DEF FamilyInv, TypeOK, KeysTell
<1>2. ASSUME NEW h \in Handlers, CommitsFamilies(h)
      PROVE  ran'[k] = IF k \in keys' THEN 1 ELSE 0
  <2>1. CASE Batch(h) /\ req[h].key = k
    <3>1. k \notin keys
      BY <1>2, <2>1 DEF CommitsFamilies, KeyTaken
    <3>2. ran' = [ran EXCEPT ![k] = ran[k] + 1] /\ k \in keys'
      BY <1>2, <2>1 DEF CommitsFamilies
    <3> QED BY <1>1, <3>1, <3>2
  <2>2. CASE Batch(h) /\ req[h].key # k
    BY <1>1, <1>2, <2>2 DEF CommitsFamilies
  <2>3. CASE ~Batch(h)
    BY <1>1, <1>2, <2>3 DEF CommitsFamilies
  <2> QED BY <2>1, <2>2, <2>3
<1>3. ASSUME NEW j \in Keys, keys' = keys \ {j}, ran' = [ran EXCEPT ![j] = 0]
      PROVE  ran'[k] = IF k \in keys' THEN 1 ELSE 0
  BY <1>1, <1>3
<1>4. CASE keys' = keys /\ ran' = ran
  BY <1>1, <1>4
<1> QED BY <1>2, <1>3, <1>4, StepsOfFamilies

(* The numbers: families only become more.                                 *)
LEMMA ExistingIsFinite ==
    /\ IsFiniteSet(Existing) /\ Cardinality(Existing) \in Nat
    /\ IsFiniteSet(Existing)' /\ Cardinality(Existing)' \in Nat
<1>1. IsFiniteSet(Families)
  BY FamiliesAssumption, FS_Interval DEF Families
<1>2. Existing \in SUBSET Families /\ Existing' \in SUBSET Families
  BY DEF Existing
<1>3. IsFiniteSet(Existing) /\ IsFiniteSet(Existing')
  BY <1>1, <1>2, FS_Subset
<1> QED BY <1>3, FS_CardinalityType

LEMMA NumberGrows ==
    ASSUME NEW r \in Request, NumberOK(r), Existing \subseteq Existing'
    PROVE  NumberOK(r)'
<1>1. PICK e, d : e = Existing /\ d = Existing'
  OBVIOUS
<1>2. IsFiniteSet(e) /\ IsFiniteSet(d) /\ e \in SUBSET d
  BY <1>1, ExistingIsFinite
<1>3. PICK n, m : n = Cardinality(e) /\ m = Cardinality(d)
  OBVIOUS
<1>4. n \in Nat /\ m \in Nat /\ n <= m
  BY <1>2, <1>3, FS_Subset, FS_CardinalityType
<1>5. ASSUME r.code \in d, r.code \notin e PROVE n + 1 <= m
  <2>1. PICK s : s = e \cup {r.code}
    OBVIOUS
  <2>2. s \in SUBSET d
    BY <1>2, <1>5, <2>1
  <2>3. Cardinality(s) = n + 1
    BY <1>2, <1>3, <1>5, <2>1, FS_AddElement
  <2> QED BY <1>2, <1>3, <2>2, <2>3, FS_Subset
<1>6. r.base \in Nat
  BY DEF Request
<1>7. PICK base : base = r.base
  OBVIOUS
<1>8. NumberOK(r) <=>
        /\ r.pc = "insert" /\ r.tries = 0 => n >= base /\ (r.code \in e => n >= base + 1)
        /\ r.pc \in {"number", "insert"} /\ r.tries = 1 => n >= base + 1
        /\ r.pc = "insert" /\ r.tries = 1 /\ r.code \in e => n >= base + 2
  BY <1>1, <1>3, <1>7 DEF NumberOK
<1>9. NumberOK(r)' <=>
        /\ r.pc = "insert" /\ r.tries = 0 => m >= base /\ (r.code \in d => m >= base + 1)
        /\ r.pc \in {"number", "insert"} /\ r.tries = 1 => m >= base + 1
        /\ r.pc = "insert" /\ r.tries = 1 /\ r.code \in d => m >= base + 2
  BY <1>1, <1>3, <1>7 DEF NumberOK
<1>10. base \in Nat
  BY <1>6, <1>7
<1>11. /\ n >= base => m >= base
       /\ n >= base + 1 => m >= base + 1
       /\ n >= base + 2 => m >= base + 2
  BY <1>4, <1>10
<1>12. r.code \in d /\ r.code \notin e =>
         (n >= base => m >= base + 1) /\ (n >= base + 1 => m >= base + 2)
  BY <1>4, <1>5, <1>10
<1> QED BY <1>8, <1>9, <1>11, <1>12

(* A request that is not numbering, or just begins to.                      *)
Unnumbered(r) == r.pc \notin {"number", "insert"} \/ (r.pc = "number" /\ r.tries = 0)
LEMMA UnnumberedOK == ASSUME NEW r, Unnumbered(r) PROVE NumberOK(r)
  BY DEF Unnumbered, NumberOK

LEMMA BecomeIs ==
    ASSUME TypeOK, NEW h \in Handlers, NEW r, Become(h, r)
    PROVE  req'[h] = r /\ \A g \in Handlers \ {h} : req'[g] = req[g]
  BY DEF TypeOK, Become

LEMMA ItemErrorUnnumbered ==
    ASSUME FamilyInv, NEW h \in Handlers, ItemError(h),
           req[h].pc \in {"number", "insert", "look", "take"}
    PROVE  \E r : Become(h, r) /\ NumberOK(r)
<1>1. req[h] \in Request
  BY DEF FamilyInv, TypeOK
<1>2. CASE Batch(h)
  <2>1. PICK d : d = Done(h, req[h])
    OBVIOUS
  <2>2. d \in Request /\ d.pc = "item"
    BY <1>1, <1>2, <2>1, DoneIs
  <2>3. PICK r : r = [d EXCEPT !.made = @ \ {req[h].code}]
    OBVIOUS
  <2>4. r.pc = "item"
    BY <2>2, <2>3 DEF Request
  <2>5. Become(h, r)
    BY <1>2, <2>1, <2>3 DEF ItemError
  <2> QED BY <2>4, <2>5, UnnumberedOK DEF Unnumbered
<1>3. CASE ~Batch(h)
  <2>1. Become(h, Idle)
    BY <1>3 DEF ItemError
  <2>2. Idle.pc = "idle"
    BY DEF Idle
  <2> QED BY <2>1, <2>2, UnnumberedOK DEF Unnumbered
<1> QED BY <1>2, <1>3

LEMMA NumberIsTaken ==
    ASSUME FamilyInv, NumbersTell, NEW h \in Handlers, Number(h)
    PROVE  \E r : Become(h, r) /\ NumberOK(r)
<1>1. PICK q : q = req[h]
  OBVIOUS
<1>2. q \in Request /\ NumberOK(q) /\ q.pc = "number"
  BY <1>1 DEF FamilyInv, TypeOK, NumbersTell, Number, At
<1>3. PICK code : code = NextCode(h)
  OBVIOUS
<1>4. code \notin Existing
  BY <1>1, <1>2, <1>3, NextCodeIsNew
<1>5. PICK base : base = IF q.tries = 0 THEN Cardinality(Existing) ELSE q.base
  OBVIOUS
<1>6. PICK r : r = [q EXCEPT !.pc = "insert", !.code = code, !.base = base]
  OBVIOUS
<1>7. r.pc = "insert" /\ r.code = code /\ r.tries = q.tries /\ r.base = base
  BY <1>2, <1>6 DEF Request
<1>8. Become(h, r)
  BY <1>1, <1>3, <1>5, <1>6 DEF Number
<1>9. PICK n : n = Cardinality(Existing)
  OBVIOUS
<1>10. n \in Nat
  BY <1>9, ExistingIsFinite
<1>11. CASE q.tries = 0
  <2>1. base = n
    BY <1>5, <1>9, <1>11
  <2>2. n >= base
    BY <1>10, <2>1
  <2> QED BY <1>4, <1>7, <1>8, <1>9, <1>11, <2>2 DEF NumberOK
<1>12. CASE q.tries # 0
  <2>1. q.tries = 1 /\ base = q.base
    BY <1>2, <1>5, <1>12 DEF Request
  <2>2. n >= base + 1
    BY <1>2, <1>9, <2>1 DEF NumberOK
  <2> QED BY <1>4, <1>7, <1>8, <1>9, <2>1, <2>2 DEF NumberOK
<1> QED BY <1>11, <1>12

LEMMA InsertCounts ==
    ASSUME FamilyInv, NumbersTell, NEW h \in Handlers, Insert(h)
    PROVE  \E r : Become(h, r) /\ NumberOK(r)
<1>1. PICK q : q = req[h]
  OBVIOUS
<1>2. q \in Request /\ NumberOK(q) /\ q.pc = "insert" /\ ItemOK(q)
  BY <1>1 DEF FamilyInv, TypeOK, NumbersTell, Insert, At, RequestOK
<1>3. CASE ~Taken(h)
  <2>1. PICK b \in {"commit", "look"} : b = IF q.op = "create" THEN "commit" ELSE "look"
    OBVIOUS
  <2>2. PICK r : r = [q EXCEPT !.made = @ \cup {q.code}, !.pc = b]
    OBVIOUS
  <2>3. r.pc = b /\ Become(h, r)
    BY <1>1, <1>2, <1>3, <2>1, <2>2 DEF Insert, Request
  <2> QED BY <2>1, <2>3, UnnumberedOK DEF Unnumbered
<1>4. CASE Taken(h) /\ q.tries = 0
  <2>1. PICK r : r = [q EXCEPT !.tries = 1, !.pc = "number"]
    OBVIOUS
  <2>2. r.pc = "number" /\ r.tries = 1 /\ r.base = q.base /\ Become(h, r)
    BY <1>1, <1>2, <1>4, <2>1 DEF Insert, Request
  <2>3. q.code \in Existing
    BY <1>1, <1>2, <1>4 DEF Taken, Existing, ItemOK, Request
  <2> QED BY <1>2, <1>4, <2>2, <2>3 DEF NumberOK
<1>5. CASE Taken(h) /\ q.tries # 0
  <2>1. ItemError(h)
    BY <1>1, <1>5 DEF Insert
  <2> QED BY <1>1, <1>2, <2>1, ItemErrorUnnumbered
<1> QED BY <1>3, <1>4, <1>5

(* Every action of a request leaves it numbered as it should be.            *)
LEMMA RequestsAreNumbered ==
    ASSUME FamilyInv, NumbersTell, NEW h \in Handlers, Step(h)
    PROVE  \A g \in Handlers : NumberOK(req'[g])
<1>1. TypeOK
  BY DEF FamilyInv
<1>2. ASSUME NEW r, Become(h, r), NumberOK(r) PROVE \A g \in Handlers : NumberOK(req'[g])
  BY <1>1, <1>2, BecomeIs DEF NumbersTell
<1>3. CASE Number(h) \/ Insert(h)
  BY <1>2, <1>3, NumberIsTaken, InsertCounts
<1>4. CASE ConfirmItem(h)
  <2>1. PICK q : q = req[h]
    OBVIOUS
  <2>2. q \in Request /\ q.pc = "item" /\ q.tries = 0
    BY <1>4, <2>1 DEF FamilyInv, TypeOK, RequestOK, ItemOK, ConfirmItem, At
  <2>3. PICK p, into :
          \/ Become(h, Idle)
          \/ Become(h, [q EXCEPT !.todo = @ \ {p}])
          \/ Become(h, [q EXCEPT !.todo = @ \ {p}, !.drop = @ \cup {p}])
          \/ Become(h, [q EXCEPT !.item = p, !.fam = into, !.disturbed = FALSE,
                                 !.pc = IF into = None THEN "number" ELSE "look"])
    <3>1. PICK p \in req[h].todo :
         LET look == {c \in proposals[p].members : View(h, c) = None}
             into == proposals[p].into
         IN IF p \notin Open \/ p \in req[h].drop
               \/ (into # None /\ ~EmptyFamily(h, look) /\ into \notin Active)
            THEN Become(h, IF Batch(h) THEN [req[h] EXCEPT !.todo = @ \ {p}] ELSE Idle)
            ELSE IF EmptyFamily(h, look)
            THEN /\ Deletable(h, {p})
                 /\ Become(h, [req[h] EXCEPT !.todo = @ \ {p}, !.drop = @ \cup {p}])
            ELSE Become(h, [req[h] EXCEPT !.item = p, !.fam = into, !.disturbed = FALSE,
                                          !.pc = IF into = None THEN "number" ELSE "look"])
      BY <1>4 DEF ConfirmItem
    <3>2. PICK into : into = proposals[p].into
      OBVIOUS
    <3>3. \/ Become(h, Idle)
          \/ Become(h, [q EXCEPT !.todo = @ \ {p}])
          \/ Become(h, [q EXCEPT !.todo = @ \ {p}, !.drop = @ \cup {p}])
          \/ Become(h, [q EXCEPT !.item = p, !.fam = into, !.disturbed = FALSE,
                                 !.pc = IF into = None THEN "number" ELSE "look"])
      BY <2>1, <3>1, <3>2
    <3> QED BY <3>3
  <2>4. PICK r : /\ Become(h, r)
                 /\ \/ r = Idle
                    \/ r = [q EXCEPT !.todo = @ \ {p}]
                    \/ r = [q EXCEPT !.todo = @ \ {p}, !.drop = @ \cup {p}]
                    \/ r = [q EXCEPT !.item = p, !.fam = into, !.disturbed = FALSE,
                                     !.pc = IF into = None THEN "number" ELSE "look"]
    BY <2>3
  <2>5. Unnumbered(r)
    <3>1. CASE r = Idle
      BY <3>1 DEF Unnumbered, Idle
    <3>2. CASE \/ r = [q EXCEPT !.todo = @ \ {p}]
               \/ r = [q EXCEPT !.todo = @ \ {p}, !.drop = @ \cup {p}]
      <4>1. r.pc = "item"
        BY <2>2, <3>2 DEF Request
      <4> QED BY <4>1 DEF Unnumbered
    <3>3. CASE r = [q EXCEPT !.item = p, !.fam = into, !.disturbed = FALSE,
                             !.pc = IF into = None THEN "number" ELSE "look"]
      <4>1. PICK b \in {"number", "look"} : b = IF into = None THEN "number" ELSE "look"
        OBVIOUS
      <4>2. r = [q EXCEPT !.item = p, !.fam = into, !.disturbed = FALSE, !.pc = b]
        BY <3>3, <4>1
      <4>3. r.pc = b /\ r.tries = 0
        BY <2>2, <4>2 DEF Request
      <4> QED BY <4>1, <4>3 DEF Unnumbered
    <3> QED BY <2>4, <3>1, <3>2, <3>3
  <2> QED BY <1>2, <2>4, <2>5, UnnumberedOK
<1>5. CASE Look(h) \/ Take(h)
  <2>1. PICK d : d = Done(h, req[h])
    OBVIOUS
  <2>2. req[h] \in Request
    BY <1>1 DEF TypeOK
  <2>3. d \in Request /\ d.pc \in {"item", "commit"}
    BY <2>1, <2>2, DoneIs
  <2>4. PICK q : q = req[h]
    OBVIOUS
  <2>5. PICK r : /\ Become(h, r)
                 /\ \/ \E cs : r = [q EXCEPT !.pc = "take", !.seen = cs]
                    \/ \E w, ps, fs : r = [d EXCEPT !.staged = w, !.drop = ps, !.sure = fs]
    <3>1. CASE Look(h)
      <4>1. PICK cs : cs = {c \in proposals[req[h].item].members : View(h, c) = None}
        OBVIOUS
      <4>2. PICK r : r = [q EXCEPT !.pc = "take", !.seen = cs]
        OBVIOUS
      <4>3. Become(h, r)
        BY <2>4, <3>1, <4>1, <4>2 DEF Look
      <4> QED BY <4>2, <4>3
    <3>2. CASE Take(h)
      <4>1. PICK w, ps, fs : /\ w = d.staged \cup (req[h].seen \X {Target(h)})
                             /\ ps = d.drop \cup {req[h].item}
                             /\ fs = IF req[h].disturbed THEN d.sure ELSE d.sure \cup {req[h].code}
        OBVIOUS
      <4>2. PICK r : r = [d EXCEPT !.staged = w, !.drop = ps, !.sure = fs]
        OBVIOUS
      <4>3. Become(h, r)
        BY <2>1, <3>2, <4>1, <4>2 DEF Take
      <4> QED BY <4>2, <4>3
    <3> QED BY <1>5, <3>1, <3>2
  <2>6. r.pc \in {"take", "item", "commit"}
    BY <2>2, <2>3, <2>4, <2>5 DEF Request
  <2> QED BY <1>2, <2>5, <2>6, UnnumberedOK DEF Unnumbered
<1>6. CASE AssignItem(h) \/ UnassignItem(h)
  <2>1. PICK q : q = req[h]
    OBVIOUS
  <2>2. q \in Request /\ q.pc = "item"
    BY <1>1, <1>6, <2>1 DEF TypeOK, AssignItem, UnassignItem, At
  <2>3. PICK c, w : Become(h, [q EXCEPT !.todo = @ \ {c}, !.staged = w])
    BY <1>6, <2>1 DEF AssignItem, UnassignItem, SetDna
  <2>4. PICK r : r = [q EXCEPT !.todo = @ \ {c}, !.staged = w]
    OBVIOUS
  <2>5. r.pc = "item"
    BY <2>2, <2>4 DEF Request
  <2> QED BY <1>2, <2>3, <2>4, <2>5, UnnumberedOK DEF Unnumbered
<1>7. CASE ItemFails(h)
  <2>1. CASE req[h].pc \in {"number", "insert", "look", "take"} /\ ItemError(h)
    BY <1>2, <2>1, ItemErrorUnnumbered
  <2>2. CASE At(h, "item") /\ \E i \in req[h].todo : Become(h, [req[h] EXCEPT !.todo = @ \ {i}])
    <3>1. PICK q, i : q = req[h] /\ Become(h, [q EXCEPT !.todo = @ \ {i}])
      BY <2>2
    <3>2. PICK r : r = [q EXCEPT !.todo = @ \ {i}]
      OBVIOUS
    <3>3. r.pc = "item"
      BY <1>1, <2>2, <3>1, <3>2 DEF TypeOK, At, Request
    <3> QED BY <1>2, <3>1, <3>2, <3>3, UnnumberedOK DEF Unnumbered
  <2> QED BY <1>7, <2>1, <2>2 DEF ItemFails
<1>8. CASE Become(h, Idle)
  <2>1. Unnumbered(Idle)
    BY DEF Unnumbered, Idle
  <2> QED BY <1>2, <1>8, <2>1, UnnumberedOK
<1>9. CASE Finish(h)
  <2>1. Unnumbered(req'[h])
    BY <1>9 DEF Finish, Unnumbered, Idle
  <2>2. ASSUME NEW g \in Handlers \ {h} PROVE NumberOK(req'[g])
    <3>1. PICK q, r : q = req[g] /\ r = req'[g]
      OBVIOUS
    <3>2. q \in Request /\ NumberOK(q) /\ r = [q EXCEPT !.disturbed = ~At(g, "idle")]
      BY <1>1, <1>9, <3>1 DEF TypeOK, NumbersTell, Finish
    <3>3. r.pc = q.pc /\ r.tries = q.tries /\ r.code = q.code /\ r.base = q.base
      BY <3>2 DEF Request
    <3> QED BY <3>1, <3>2, <3>3 DEF NumberOK
  <2> QED BY <2>1, <2>2, UnnumberedOK
<1>10. CASE Create(h) \/ Confirm(h) \/ Assign(h) \/ Unassign(h) \/ Deactivate(h)
            \/ AutoAssign(h) \/ Suggest(h)
  <2>1. ASSUME NEW r, Begin(h, r), Unnumbered(r) PROVE \A g \in Handlers : NumberOK(req'[g])
    BY <1>2, <2>1, UnnumberedOK DEF Begin
  <2>2. CASE Create(h)
    <3>1. PICK r : r = [Idle EXCEPT !.pc = "number", !.op = "create"]
      OBVIOUS
    <3>2. Unnumbered(r) /\ Begin(h, r)
      BY <2>2, <3>1 DEF Create, Unnumbered, Idle
    <3> QED BY <2>1, <3>2
  <2>3. CASE Confirm(h)
    <3>1. PICK k, ps : Begin(h, [Idle EXCEPT !.pc = "item", !.op = "confirm", !.key = k,
                                             !.todo = ps])
      BY <2>3 DEF Confirm
    <3>2. [Idle EXCEPT !.pc = "item", !.op = "confirm", !.key = k, !.todo = ps].pc = "item"
      BY DEF Idle
    <3> QED BY <2>1, <3>1, <3>2 DEF Unnumbered
  <2>4. CASE Assign(h)
    <3>1. PICK k, cs, f : Begin(h, [Idle EXCEPT !.pc = "item", !.op = "assign", !.key = k,
                                                !.todo = cs, !.fam = f])
      BY <2>4 DEF Assign
    <3>2. [Idle EXCEPT !.pc = "item", !.op = "assign", !.key = k, !.todo = cs,
                       !.fam = f].pc = "item"
      BY DEF Idle
    <3> QED BY <2>1, <3>1, <3>2 DEF Unnumbered
  <2>5. CASE Unassign(h)
    <3>1. PICK k, cs : Begin(h, [Idle EXCEPT !.pc = "item", !.op = "unassign", !.key = k,
                                             !.todo = cs])
      BY <2>5 DEF Unassign
    <3>2. [Idle EXCEPT !.pc = "item", !.op = "unassign", !.key = k, !.todo = cs].pc = "item"
      BY DEF Idle
    <3> QED BY <2>1, <3>1, <3>2 DEF Unnumbered
  <2>6. CASE Deactivate(h)
    <3>1. PICK f, cs : Begin(h, [Idle EXCEPT !.pc = "release", !.op = "archive", !.fam = f,
                                             !.seen = cs])
      BY <2>6 DEF Deactivate
    <3>2. [Idle EXCEPT !.pc = "release", !.op = "archive", !.fam = f, !.seen = cs].pc = "release"
      BY DEF Idle
    <3> QED BY <2>1, <3>1, <3>2 DEF Unnumbered
  <2>7. CASE AutoAssign(h)
    <3>1. PICK c, f : Begin(h, [Idle EXCEPT !.pc = "auto", !.op = "auto", !.fam = f,
                                            !.seen = {c}])
      BY <2>7 DEF AutoAssign
    <3>2. [Idle EXCEPT !.pc = "auto", !.op = "auto", !.fam = f, !.seen = {c}].pc = "auto"
      BY DEF Idle
    <3> QED BY <2>1, <3>1, <3>2 DEF Unnumbered
  <2>8. CASE Suggest(h)
    <3>1. PICK fs, cs : Begin(h, [Idle EXCEPT !.pc = "suggest", !.op = "suggest", !.fams = fs,
                                              !.seen = cs])
      BY <2>8 DEF Suggest
    <3>2. [Idle EXCEPT !.pc = "suggest", !.op = "suggest", !.fams = fs, !.seen = cs].pc = "suggest"
      BY DEF Idle
    <3> QED BY <2>1, <3>1, <3>2 DEF Unnumbered
  <2> QED BY <1>10, <2>2, <2>3, <2>4, <2>5, <2>6, <2>7, <2>8
<1>11. CASE Commit(h) \/ Release(h) \/ AutoWrite(h) \/ SuggestWrite(h) \/ Fails(h)
  <2>1. Become(h, Idle) \/ Finish(h)
    BY <1>11 DEF Commit, Release, AutoWrite, SuggestWrite, Fails
  <2> QED BY <1>8, <1>9, <2>1
<1> HIDE DEF Idle
<1> QED BY <1>3, <1>4, <1>5, <1>6, <1>7, <1>10, <1>11 DEF Step

LEMMA NumbersTellStep == FamilyInv /\ NumbersTell /\ [Next]_vars => NumbersTell'
<1> SUFFICES ASSUME FamilyInv, NumbersTell, [Next]_vars PROVE NumbersTell'
  OBVIOUS
<1>1. \A g \in Handlers : NumberOK(req'[g])
  <2>1. CASE \E h \in Handlers : Step(h)
    BY <2>1, RequestsAreNumbered
  <2>2. CASE req' = req
    BY <2>2 DEF NumbersTell
  <2> QED BY <2>1, <2>2 DEF Next, KeyExpires, Reactivate, Dismiss, vars
<1>2. FamilyInv' /\ Existing \subseteq Existing'
  BY FamilyInvStep, FamiliesStay DEF FamilyInv
<1>3. ASSUME NEW g \in Handlers PROVE NumberOK(req[g])'
  <2>1. PICK r : r = req'[g]
    OBVIOUS
  <2>2. r \in Request
    BY <1>2, <2>1 DEF FamilyInv, TypeOK
  <2>3. NumberOK(r)
    BY <1>1, <2>1
  <2>4. NumberOK(r)'
    BY <1>2, <2>2, <2>3, NumberGrows
  <2> QED BY <2>1, <2>4
<1> QED BY <1>3 DEF NumbersTell

(* A batch repeated with its key takes effect once (idempotency.py:          *)
(* lookup, store), and a creation is refused for its number only after two *)
(* other families were created while it ran (dna.py: _next_code).          *)
THEOREM RequestsTakeEffectOnce == Spec => []FamilyRequestsHold
<1> DEFINE Inv == FamilyInv /\ KeysTell /\ NumbersTell
<1>1. Init => Inv
  <2> SUFFICES ASSUME Init PROVE KeysTell /\ NumbersTell
    BY FamilyInvInit
  <2>1. KeysTell
    BY DEF Init, KeysTell
  <2>2. \A h \in Handlers : req[h].pc = "idle"
    BY DEF Init, Idle
  <2> QED BY <2>1, <2>2, UnnumberedOK DEF NumbersTell, Unnumbered
<1>2. Inv /\ [Next]_vars => Inv'
  BY FamilyInvStep, KeysTellStep, NumbersTellStep
<1>3. Inv => FamilyRequestsHold
  <2> SUFFICES ASSUME Inv PROVE OncePerKey /\ ConflictNeedsTwo
    BY DEF FamilyRequestsHold
  <2>1. OncePerKey
    BY DEF KeysTell, OncePerKey
  <2>2. ConflictNeedsTwo
    <3> SUFFICES ASSUME NEW h \in Handlers, Taken(h), req[h].tries = 1
                 PROVE  Cardinality(Existing) >= req[h].base + 2
      BY DEF ConflictNeedsTwo
    <3>1. req[h] \in Request /\ ItemOK(req[h]) /\ NumberOK(req[h]) /\ req[h].pc = "insert"
      BY DEF FamilyInv, TypeOK, RequestOK, NumbersTell, Taken, At
    <3>2. req[h].code \in Existing
      BY <3>1 DEF Taken, ItemOK, Request, Existing
    <3> QED BY <3>1, <3>2 DEF NumberOK
  <2> QED BY <2>1, <2>2
<1> QED BY <1>1, <1>2, <1>3, PTL DEF Spec

(***************************************************************************)
(* The proposals for families.  What an answer says of a creative that it    *)
(* has named before, or was not asked about, is dropped; and no batch, nor   *)
(* the rescue, asks about one that a proposal holds already.                *)
(***************************************************************************)
GroupingInv ==
    /\ v1 \in Nat /\ v2 \in Seq(Grouping!NewFamilies(Grouping!All)) /\ DOMAIN v3 = Confirmed
    /\ Grouping!FamiliesDisjoint
    /\ \A b \in DOMAIN Batches : v1 <= b => Grouping!Referenced \cap Batches[b] = {}

(* What is left of an answer: of those asked about, each once.              *)
Once(items) == \A i, j \in DOMAIN items : i # j => items[i].members \cap items[j].members = {}
OfIt(item, rest) == \E kept \in SUBSET item.members : rest = [item EXCEPT !.members = kept]
Within(items, asked) == \A i \in DOMAIN items : items[i].members \subseteq asked

LEMMA CleanedIs ==
    ASSUME NEW n \in Int, NEW items, DOMAIN items = 1..n,
           \A i \in 1..n : "members" \in DOMAIN items[i], NEW asked, NEW seen,
           NEW left, left = Grouping!Cleaned(items, asked, seen)
    PROVE  /\ left = [i \in 1..n |-> left[i]] /\ Once(left) /\ Within(left, asked)
           /\ \A i \in 1..n : /\ OfIt(items[i], left[i])
                              /\ left[i].members \subseteq items[i].members
                              /\ left[i].members \cap seen = {}
<1> DEFINE kept(i) == (items[i].members \cap asked) \ (seen \cup Grouping!Earlier(items, i))
<1>1. left = [i \in 1..n |-> left[i]] /\ DOMAIN left = 1..n BY DEF Grouping!Cleaned
<1>2. \A i \in 1..n : left[i] = [items[i] EXCEPT !.members = kept(i)] BY DEF Grouping!Cleaned
<1>3. \A i \in 1..n : left[i].members = kept(i) BY <1>2
<1>4. ASSUME NEW i \in 1..n, NEW j \in 1..n, i < j
      PROVE  left[i].members \cap left[j].members = {}
  <2>1. i \in 1..(j - 1) BY <1>4
  <2>2. items[i].members \subseteq Grouping!Earlier(items, j) BY <2>1 DEF Grouping!Earlier
  <2> QED BY <1>3, <2>2
<1>5. Once(left)
  <2> SUFFICES ASSUME NEW i \in 1..n, NEW j \in 1..n, i # j
               PROVE  left[i].members \cap left[j].members = {}
    BY <1>1 DEF Once
  <2>1. i < j \/ j < i OBVIOUS
  <2>2. CASE i < j BY <1>4, <2>2
  <2>3. CASE j < i BY <1>4, <2>3
  <2> QED BY <2>1, <2>2, <2>3
<1>6. Within(left, asked) BY <1>1, <1>3 DEF Within
<1>7. \A i \in 1..n : kept(i) \in SUBSET items[i].members OBVIOUS
<1> HIDE DEF kept
<1>8. \A i \in 1..n : OfIt(items[i], left[i]) BY <1>2, <1>7 DEF OfIt
<1>9. \A i \in 1..n : left[i].members \subseteq items[i].members BY <1>3, <1>7
<1>10. \A i \in 1..n : left[i].members \cap seen = {} BY <1>3 DEF kept
<1> QED BY <1>1, <1>5, <1>6, <1>8, <1>9, <1>10

LEMMA AnswersLeave ==
    ASSUME NEW a \in Grouping!Answers(Grouping!All), NEW asked
    PROVE  LET new == Grouping!ToNew(a, asked)
               merges == Grouping!ToMerge(a, asked)
           IN /\ new \in Seq(Grouping!NewFamilies(Grouping!All))
              /\ Once(new) /\ Within(new, asked) /\ Once(merges) /\ Within(merges, asked)
              /\ Grouping!Mentioned(new) \cap Grouping!Mentioned(merges) = {}
<1> DEFINE all == Grouping!All
           new == Grouping!ToNew(a, asked)
           merges == Grouping!ToMerge(a, asked)
           of(n, m) == [new : [1..n -> Grouping!NewFamilies(all)],
                        merges : [1..(m - n) -> Grouping!Merges(all)]]
<1>1. PICK n \in 0..MaxItems, m \in 0..MaxItems : a \in of(n, m)
  <2>1. Grouping!Answers(all) = UNION {of(n, m) : n \in 0..MaxItems, m \in 0..MaxItems}
    BY DEF Grouping!Answers
  <2> HIDE DEF of, all
  <2> QED BY <2>1 DEF all
<1>2. /\ n \in Int /\ m - n \in Int /\ n \in Nat
      /\ a.new \in [1..n -> Grouping!NewFamilies(all)]
      /\ a.merges \in [1..(m - n) -> Grouping!Merges(all)]
  BY <1>1
<1>3. DOMAIN a.new = 1..n /\ \A i \in 1..n : "members" \in DOMAIN a.new[i]
  BY <1>2 DEF Grouping!NewFamilies
<1>4. DOMAIN a.merges = 1..(m - n) /\ \A i \in 1..(m - n) : "members" \in DOMAIN a.merges[i]
  <2>1. \A f \in Grouping!Merges(all) : "members" \in DOMAIN f BY DEF Grouping!Merges
  <2> QED BY <1>2, <2>1
<1>5. /\ new = [i \in 1..n |-> new[i]] /\ Once(new) /\ Within(new, asked)
      /\ \A i \in 1..n : OfIt(a.new[i], new[i]) /\ new[i].members \subseteq a.new[i].members
  <2> DEFINE items == a.new
  <2>1. new = Grouping!Cleaned(items, asked, {}) BY DEF Grouping!ToNew
  <2>2. DOMAIN items = 1..n /\ \A i \in 1..n : "members" \in DOMAIN items[i] BY <1>3
  <2> HIDE DEF new, items
  <2>3. /\ new = [i \in 1..n |-> new[i]] /\ Once(new) /\ Within(new, asked)
        /\ \A i \in 1..n : OfIt(items[i], new[i]) /\ new[i].members \subseteq items[i].members
    BY <1>2, <2>1, <2>2, CleanedIs
  <2> QED BY <2>3 DEF items
<1>6. /\ merges = [i \in 1..(m - n) |-> merges[i]] /\ Once(merges) /\ Within(merges, asked)
      /\ \A i \in 1..(m - n) : merges[i].members \cap Grouping!Mentioned(a.new) = {}
  <2>1. merges = Grouping!Cleaned(a.merges, asked, Grouping!Mentioned(a.new))
    BY DEF Grouping!ToMerge
  <2> HIDE DEF merges
  <2> QED BY <1>2, <1>4, <2>1, CleanedIs
<1>7. new \in Seq(Grouping!NewFamilies(all))
  <2>1. new = [i \in 1..n |-> new[i]] BY <1>5
  <2>2. ASSUME NEW i \in 1..n PROVE new[i] \in Grouping!NewFamilies(all)
    <3>1. PICK kept \in SUBSET a.new[i].members : new[i] = [a.new[i] EXCEPT !.members = kept]
      BY <1>5 DEF OfIt
    <3>2. a.new[i] \in Grouping!NewFamilies(all) BY <1>2
    <3> HIDE DEF new
    <3> QED BY <3>1, <3>2 DEF Grouping!NewFamilies
  <2> HIDE DEF new
  <2>3. new \in [1..n -> Grouping!NewFamilies(all)] BY <2>1, <2>2
  <2> QED BY <1>2, <2>3
<1>8. Grouping!Mentioned(new) \subseteq Grouping!Mentioned(a.new)
  BY <1>2, <1>5 DEF Grouping!Mentioned
<1>9. Grouping!Mentioned(new) \cap Grouping!Mentioned(merges) = {}
  <2> HIDE DEF new, merges
  <2> QED BY <1>6, <1>8 DEF Grouping!Mentioned
<1> QED BY <1>5, <1>6, <1>7, <1>9

(* No item goes to two targets.                                             *)
LEMMA TargetsShareNothing ==
    ASSUME NEW items, Once(items), NEW k, NEW n, NEW l, NEW o, k # l \/ n # o
    PROVE  Grouping!Named(items, k, n) \cap Grouping!Named(items, l, o) = {}
<1> SUFFICES ASSUME NEW c \in Grouping!Named(items, k, n), c \in Grouping!Named(items, l, o)
             PROVE  FALSE
  OBVIOUS
<1>1. PICK i \in DOMAIN items : items[i].kind = k /\ items[i].to = n /\ c \in items[i].members
  BY DEF Grouping!Named
<1>2. PICK j \in DOMAIN items : items[j].kind = l /\ items[j].to = o /\ c \in items[j].members
  BY DEF Grouping!Named
<1>3. i # j BY <1>1, <1>2
<1> QED BY <1>1, <1>2, <1>3 DEF Once

LEMMA TargetsAreMentioned ==
    ASSUME NEW items, NEW k, NEW n
    PROVE  Grouping!Named(items, k, n) \subseteq Grouping!Mentioned(items)
BY DEF Grouping!Named, Grouping!Mentioned

(* Apart and Referenced of any proposals and attachments.                   *)
ApartIn(ps, at) ==
    /\ \A i, j \in DOMAIN ps : i # j => ps[i].members \cap ps[j].members = {}
    /\ \A c \in Confirmed :
         /\ \A i \in DOMAIN ps : at[c] \cap ps[i].members = {}
         /\ \A d \in Confirmed : c # d => at[c] \cap at[d] = {}
ReferencedIn(ps, at) == Grouping!Mentioned(ps) \cup UNION {at[c] : c \in Confirmed}

LEMMA MergesKeepApart ==
    ASSUME NEW ps \in Seq(Grouping!NewFamilies(Grouping!All)), NEW at, NEW items, Once(items),
           Grouping!Mentioned(items) \subseteq Grouping!All,
           ApartIn(ps, at), ReferencedIn(ps, at) \cap Grouping!Mentioned(items) = {}
    PROVE  LET qs == Grouping!Merged(ps, items)
               bt == Grouping!Attached(at, items)
           IN /\ qs \in Seq(Grouping!NewFamilies(Grouping!All)) /\ DOMAIN bt = Confirmed
              /\ ApartIn(qs, bt)
              /\ ReferencedIn(qs, bt) \subseteq ReferencedIn(ps, at) \cup Grouping!Mentioned(items)
<1> DEFINE all == Grouping!All
           qs == Grouping!Merged(ps, items)
           bt == Grouping!Attached(at, items)
           toName(n) == Grouping!Named(items, "family", n)
           toCode(c) == Grouping!Named(items, "code", c)
           last(i) == i = Grouping!LastOf(ps, ps[i].name)
           new(i) == IF last(i) THEN toName(ps[i].name) ELSE {}
<1>1. /\ DOMAIN ps = 1..Len(ps) /\ Len(ps) \in Nat
      /\ \A i \in DOMAIN ps : ps[i] \in Grouping!NewFamilies(all)
  BY LenProperties, ElementOfSeq
<1>2. /\ DOMAIN qs = DOMAIN ps /\ qs = [i \in DOMAIN ps |-> qs[i]]
      /\ \A i \in DOMAIN ps :
            qs[i] = IF last(i) THEN [ps[i] EXCEPT !.members = @ \cup toName(ps[i].name)] ELSE ps[i]
  BY DEF Grouping!Merged
<1>3. DOMAIN bt = Confirmed /\ \A c \in Confirmed : bt[c] = at[c] \cup toCode(c)
  BY DEF Grouping!Attached
<1>4. \A n : /\ toName(n) \subseteq Grouping!Mentioned(items)
             /\ toCode(n) \subseteq Grouping!Mentioned(items)
  BY TargetsAreMentioned
<1>5. \A n, o : /\ n # o => toName(n) \cap toName(o) = {} /\ toCode(n) \cap toCode(o) = {}
                /\ toName(n) \cap toCode(o) = {}
  BY TargetsShareNothing
<1> HIDE DEF qs, bt, toName, toCode, last
<1>6. \A i \in DOMAIN ps : /\ qs[i] \in Grouping!NewFamilies(all)
                           /\ qs[i].members = ps[i].members \cup new(i)
  <2> SUFFICES ASSUME NEW i \in DOMAIN ps
               PROVE  qs[i] \in Grouping!NewFamilies(all) /\ qs[i].members = ps[i].members \cup new(i)
    OBVIOUS
  <2>1. ps[i] \in [name : Names, members : SUBSET all] BY <1>1 DEF Grouping!NewFamilies
  <2>2. toName(ps[i].name) \subseteq all BY <1>4
  <2>3. CASE last(i) BY <1>2, <2>1, <2>2, <2>3 DEF Grouping!NewFamilies
  <2>4. CASE ~last(i) BY <1>2, <2>1, <2>4 DEF Grouping!NewFamilies
  <2> QED BY <2>3, <2>4
<1>7. qs \in Seq(Grouping!NewFamilies(all))
  <2>1. qs \in [1..Len(ps) -> Grouping!NewFamilies(all)] BY <1>1, <1>2, <1>6
  <2> QED BY <1>1, <2>1
<1>8. \A i \in DOMAIN ps : ps[i].members \subseteq ReferencedIn(ps, at)
  BY DEF ReferencedIn, Grouping!Mentioned
<1>9. \A c \in Confirmed : at[c] \subseteq ReferencedIn(ps, at) BY DEF ReferencedIn
<1>10. \A i \in DOMAIN ps : new(i) \subseteq Grouping!Mentioned(items) BY <1>4
<1>11. \A i, j \in DOMAIN ps : i # j => new(i) \cap new(j) = {}
  <2> SUFFICES ASSUME NEW i \in DOMAIN ps, NEW j \in DOMAIN ps, i # j, last(i), last(j)
               PROVE  toName(ps[i].name) \cap toName(ps[j].name) = {}
    OBVIOUS
  <2>1. ps[i].name # ps[j].name BY DEF last
  <2> QED BY <1>5, <2>1
<1>12. \A i \in DOMAIN ps, c \in Confirmed : new(i) \cap toCode(c) = {} BY <1>5
<1> HIDE DEF new
<1>13. ASSUME NEW i \in DOMAIN ps, NEW j \in DOMAIN ps, i # j
       PROVE  qs[i].members \cap qs[j].members = {}
  <2>1. ps[i].members \cap ps[j].members = {} BY <1>13 DEF ApartIn
  <2>2. ps[i].members \cap new(j) = {} /\ new(i) \cap ps[j].members = {} BY <1>8, <1>10
  <2> QED BY <1>6, <1>11, <1>13, <2>1, <2>2
<1>14. ASSUME NEW c \in Confirmed, NEW i \in DOMAIN ps PROVE bt[c] \cap qs[i].members = {}
  <2>1. at[c] \cap ps[i].members = {} BY DEF ApartIn
  <2>2. at[c] \cap new(i) = {} /\ toCode(c) \cap ps[i].members = {} BY <1>4, <1>8, <1>9, <1>10
  <2> QED BY <1>3, <1>6, <1>12, <2>1, <2>2
<1>15. ASSUME NEW c \in Confirmed, NEW d \in Confirmed, c # d PROVE bt[c] \cap bt[d] = {}
  <2>1. at[c] \cap at[d] = {} BY <1>15 DEF ApartIn
  <2>2. at[c] \cap toCode(d) = {} /\ toCode(c) \cap at[d] = {} BY <1>4, <1>9
  <2>3. toCode(c) \cap toCode(d) = {} BY <1>5, <1>15
  <2> QED BY <1>3, <2>1, <2>2, <2>3
<1>16. ApartIn(qs, bt) BY <1>2, <1>13, <1>14, <1>15 DEF ApartIn
<1>17. Grouping!Mentioned(qs) \subseteq ReferencedIn(ps, at) \cup Grouping!Mentioned(items)
  <2>1. \A i \in DOMAIN qs : qs[i].members \subseteq ReferencedIn(ps, at) \cup Grouping!Mentioned(items)
    BY <1>2, <1>6, <1>8, <1>10
  <2> QED BY <2>1 DEF Grouping!Mentioned
<1>18. \A c \in Confirmed : bt[c] \subseteq ReferencedIn(ps, at) \cup Grouping!Mentioned(items)
  BY <1>3, <1>4, <1>9
<1>19. ReferencedIn(qs, bt) \subseteq ReferencedIn(ps, at) \cup Grouping!Mentioned(items)
  BY <1>17, <1>18 DEF ReferencedIn
<1> QED BY <1>3, <1>7, <1>16, <1>19 DEF qs, bt

LEMMA NewOnesKeepApart ==
    ASSUME NEW T, NEW ps \in Seq(T), NEW new \in Seq(T), NEW at,
           ApartIn(ps, at), Once(new), ReferencedIn(ps, at) \cap Grouping!Mentioned(new) = {}
    PROVE  /\ ApartIn(ps \o new, at)
           /\ ReferencedIn(ps \o new, at) \subseteq ReferencedIn(ps, at) \cup Grouping!Mentioned(new)
<1> DEFINE qs == ps \o new
           old(i) == i \in DOMAIN ps
           shifted(i) == i - Len(ps)
<1>1. /\ DOMAIN ps = 1..Len(ps) /\ DOMAIN new = 1..Len(new) /\ Len(ps) \in Nat /\ Len(new) \in Nat
  BY LenProperties
<1>2. qs \in Seq(T) /\ Len(qs) = Len(ps) + Len(new)
      /\ \A i \in 1..Len(qs) : qs[i] = IF i <= Len(ps) THEN ps[i] ELSE new[i - Len(ps)]
  BY ConcatProperties
<1>3. DOMAIN qs = 1..(Len(ps) + Len(new)) BY <1>2, LenProperties
<1> HIDE DEF qs
<1>4. \A i \in DOMAIN qs : old(i) => qs[i] = ps[i] BY <1>1, <1>2, <1>3
<1>5. \A i \in DOMAIN qs : ~old(i) => shifted(i) \in DOMAIN new /\ qs[i] = new[shifted(i)]
  BY <1>1, <1>2, <1>3
<1>6. \A i, j \in DOMAIN qs : i # j => shifted(i) # shifted(j) BY <1>1, <1>3
<1> HIDE DEF old, shifted
<1>7. \A i \in DOMAIN qs : old(i) => i \in DOMAIN ps BY DEF old
<1>8. \A i \in DOMAIN ps : ps[i].members \subseteq ReferencedIn(ps, at)
  BY DEF ReferencedIn, Grouping!Mentioned
<1>9. \A c \in Confirmed : at[c] \subseteq ReferencedIn(ps, at) BY DEF ReferencedIn
<1>10. \A i \in DOMAIN new : new[i].members \subseteq Grouping!Mentioned(new)
  BY DEF Grouping!Mentioned
<1>11. ASSUME NEW i \in DOMAIN qs, NEW j \in DOMAIN qs, i # j
       PROVE  qs[i].members \cap qs[j].members = {}
  <2>1. CASE old(i) /\ old(j) BY <1>4, <1>7, <1>11, <2>1 DEF ApartIn
  <2>2. CASE old(i) /\ ~old(j) BY <1>4, <1>5, <1>7, <1>8, <1>10, <2>2
  <2>3. CASE ~old(i) /\ old(j) BY <1>4, <1>5, <1>7, <1>8, <1>10, <2>3
  <2>4. CASE ~old(i) /\ ~old(j) BY <1>5, <1>6, <1>11, <2>4 DEF Once
  <2> QED BY <2>1, <2>2, <2>3, <2>4
<1>12. ASSUME NEW c \in Confirmed, NEW i \in DOMAIN qs PROVE at[c] \cap qs[i].members = {}
  <2>1. CASE old(i) BY <1>4, <1>7, <2>1 DEF ApartIn
  <2>2. CASE ~old(i) BY <1>5, <1>9, <1>10, <2>2
  <2> QED BY <2>1, <2>2
<1>13. \A c, d \in Confirmed : c # d => at[c] \cap at[d] = {} BY DEF ApartIn
<1>14. ApartIn(qs, at) BY <1>11, <1>12, <1>13 DEF ApartIn
<1>15. \A i \in DOMAIN qs : qs[i].members \subseteq ReferencedIn(ps, at) \cup Grouping!Mentioned(new)
  BY <1>4, <1>5, <1>7, <1>8, <1>10
<1>16. Grouping!Mentioned(qs) \subseteq ReferencedIn(ps, at) \cup Grouping!Mentioned(new)
  BY <1>15 DEF Grouping!Mentioned
<1>17. ReferencedIn(qs, at) \subseteq ReferencedIn(ps, at) \cup Grouping!Mentioned(new)
  BY <1>9, <1>16 DEF ReferencedIn
<1> QED BY <1>14, <1>17 DEF qs

LEMMA GroupingStarts == MCInit /\ part = "proposals" => GroupingInv
<1> SUFFICES ASSUME Grouping!Init PROVE GroupingInv BY DEF MCInit
<1>1. v1 = 1 /\ v2 = <<>> /\ v3 = [c \in Confirmed |-> {}] BY DEF Grouping!Init
<1>2. \E s : v4 \in {{}, {s}} BY DEF Grouping!Init
<1>3. v2 \in Seq(Grouping!NewFamilies(Grouping!All)) /\ DOMAIN v2 = {} BY <1>1
<1>4. Grouping!FamiliesDisjoint BY <1>1, <1>2, <1>3 DEF Grouping!FamiliesDisjoint, Grouping!Apart
<1>5. Grouping!Referenced = {} BY <1>1, <1>3 DEF Grouping!Referenced, Grouping!Mentioned
<1> QED BY <1>1, <1>3, <1>4, <1>5 DEF GroupingInv

LEMMA InTermsOfBoth ==
    /\ Grouping!Apart = ApartIn(v2, v3) /\ Grouping!Referenced = ReferencedIn(v2, v3)
    /\ Grouping!Apart' = ApartIn(v2', v3') /\ Grouping!Referenced' = ReferencedIn(v2', v3')
BY DEF Grouping!Apart, Grouping!Referenced, ApartIn, ReferencedIn

(* A batch, or the rescue: whatever the answer says of those it asks about   *)
(* leaves the proposals apart, and refers to nothing else that is new.       *)
LEMMA AnswersKeepApart ==
    ASSUME GroupingInv, NEW a \in Grouping!Answers(Grouping!All),
           NEW asked \in SUBSET Grouping!All, Grouping!Referenced \cap asked = {},
           NEW new \in {<<>>, Grouping!ToNew(a, asked)},
           v2' = Grouping!Merged(v2, Grouping!ToMerge(a, asked)) \o new,
           v3' = Grouping!Attached(v3, Grouping!ToMerge(a, asked))
    PROVE  /\ v2' \in Seq(Grouping!NewFamilies(Grouping!All)) /\ DOMAIN v3' = Confirmed
           /\ Grouping!Apart' /\ Grouping!Referenced' \subseteq Grouping!Referenced \cup asked
<1> DEFINE T == Grouping!NewFamilies(Grouping!All)
           merges == Grouping!ToMerge(a, asked)
           qs == Grouping!Merged(v2, merges)
<1>1. v2 \in Seq(T) /\ ApartIn(v2, v3) /\ ReferencedIn(v2, v3) \cap asked = {}
  BY InTermsOfBoth DEF GroupingInv, Grouping!FamiliesDisjoint
<1>2. /\ Once(merges) /\ Within(merges, asked)
      /\ new \in Seq(T) /\ Once(new) /\ Within(new, asked)
      /\ Grouping!Mentioned(new) \cap Grouping!Mentioned(merges) = {}
  <2>1. CASE new = Grouping!ToNew(a, asked) BY <2>1, AnswersLeave
  <2>2. CASE new = <<>>
    <3>1. new \in Seq(T) /\ DOMAIN new = {} BY <2>2
    <3> QED BY <3>1, AnswersLeave DEF Once, Within, Grouping!Mentioned
  <2> QED BY <2>1, <2>2
<1>3. /\ v2' = qs \o new /\ v3' = Grouping!Attached(v3, merges) OBVIOUS
<1> HIDE DEF merges
<1>4. Grouping!Mentioned(merges) \subseteq asked /\ Grouping!Mentioned(new) \subseteq asked
  BY <1>2 DEF Within, Grouping!Mentioned
<1>5. /\ qs \in Seq(T) /\ DOMAIN v3' = Confirmed /\ ApartIn(qs, v3')
      /\ ReferencedIn(qs, v3') \subseteq ReferencedIn(v2, v3) \cup Grouping!Mentioned(merges)
  BY <1>1, <1>2, <1>3, <1>4, MergesKeepApart
<1> HIDE DEF qs, T
<1>6. ReferencedIn(qs, v3') \cap Grouping!Mentioned(new) = {} BY <1>1, <1>2, <1>4, <1>5
<1>7. /\ ApartIn(v2', v3')
      /\ ReferencedIn(v2', v3') \subseteq ReferencedIn(qs, v3') \cup Grouping!Mentioned(new)
  BY <1>2, <1>3, <1>5, <1>6, NewOnesKeepApart
<1>8. v2' \in Seq(T) BY <1>2, <1>3, <1>5, ConcatProperties
<1>9. ReferencedIn(v2', v3') \subseteq ReferencedIn(v2, v3) \cup asked BY <1>4, <1>5, <1>7
<1> QED BY <1>5, <1>7, <1>8, <1>9, InTermsOfBoth DEF T

LEMMA BatchesKeep == ASSUME GroupingInv, Grouping!ProposeBatch PROVE GroupingInv'
<1>1. PICK a \in Grouping!Answers(Grouping!All) :
         LET merges == Grouping!ToMerge(a, Batches[v1])
         IN /\ v2' = Grouping!Merged(v2, merges) \o Grouping!ToNew(a, Batches[v1])
            /\ v3' = Grouping!Attached(v3, merges)
  BY DEF Grouping!ProposeBatch
<1>2. v1 \in DOMAIN Batches /\ v1' = v1 + 1 /\ v4' = v4 /\ v1 \in Nat
  BY DEF Grouping!ProposeBatch, GroupingInv
<1>3. Batches[v1] \in SUBSET Grouping!All BY <1>2 DEF Grouping!All
<1>4. Grouping!Referenced \cap Batches[v1] = {} BY <1>2 DEF GroupingInv
<1>5. /\ v2' \in Seq(Grouping!NewFamilies(Grouping!All)) /\ DOMAIN v3' = Confirmed
      /\ Grouping!Apart' /\ Grouping!Referenced' \subseteq Grouping!Referenced \cup Batches[v1]
  BY <1>1, <1>3, <1>4, AnswersKeepApart
<1>6. Grouping!FamiliesDisjoint' BY <1>2, <1>5 DEF GroupingInv, Grouping!FamiliesDisjoint
<1>7. ASSUME NEW b \in DOMAIN Batches, v1' <= b PROVE Grouping!Referenced' \cap Batches[b] = {}
  <2>1. b \in Nat BY LenProperties, OperationsAssumption DEF OperationsAssumption
  <2>2. v1 <= b /\ v1 # b BY <1>2, <1>7, <2>1
  <2>3. Grouping!Referenced \cap Batches[b] = {} BY <2>2 DEF GroupingInv
  <2>4. Batches[v1] \cap Batches[b] = {}
    BY <1>2, <2>2, OperationsAssumption DEF OperationsAssumption
  <2> QED BY <1>5, <2>3, <2>4
<1> QED BY <1>2, <1>5, <1>6, <1>7 DEF GroupingInv

LEMMA RescueKeeps == ASSUME GroupingInv, Grouping!RescueScatter PROVE GroupingInv'
<1> DEFINE asked == Grouping!Scatter
<1>1. PICK a \in Grouping!Answers(Grouping!All) :
         /\ v2' = Grouping!Merged(v2, Grouping!ToMerge(a, asked))
         /\ v3' = Grouping!Attached(v3, Grouping!ToMerge(a, asked))
  BY DEF Grouping!RescueScatter
<1>2. v1 = Len(Batches) + 1 /\ v1' = v1 + 1 /\ v4' = v4 BY DEF Grouping!RescueScatter
<1>3. asked \in SUBSET Grouping!All /\ Grouping!Referenced \cap asked = {} BY DEF Grouping!Scatter
<1> DEFINE T == Grouping!NewFamilies(Grouping!All)
           merges == Grouping!ToMerge(a, asked)
<1>4. Grouping!Merged(v2, merges) \in Seq(T)
  <2>1. v2 \in Seq(T) /\ ApartIn(v2, v3) /\ ReferencedIn(v2, v3) \cap asked = {}
    BY <1>3, InTermsOfBoth DEF GroupingInv, Grouping!FamiliesDisjoint
  <2>2. Once(merges) /\ Within(merges, asked) BY AnswersLeave
  <2> HIDE DEF merges, asked
  <2>3. Grouping!Mentioned(merges) \subseteq asked BY <2>2 DEF Within, Grouping!Mentioned
  <2> QED BY <1>3, <2>1, <2>2, <2>3, MergesKeepApart
<1>5. v2' = Grouping!Merged(v2, merges) \o <<>> BY <1>1, <1>4
<1> HIDE DEF asked
<1>6. /\ v2' \in Seq(T) /\ DOMAIN v3' = Confirmed
      /\ Grouping!Apart' /\ Grouping!Referenced' \subseteq Grouping!Referenced \cup asked
  BY <1>1, <1>3, <1>5, AnswersKeepApart
<1>7. Grouping!FamiliesDisjoint' BY <1>2, <1>6 DEF GroupingInv, Grouping!FamiliesDisjoint
<1>8. v1' \in Nat /\ \A b \in DOMAIN Batches : ~(v1' <= b)
  <2>1. Len(Batches) \in Nat /\ DOMAIN Batches = 1..Len(Batches)
    BY LenProperties, OperationsAssumption DEF OperationsAssumption
  <2> QED BY <1>2, <2>1
<1> QED BY <1>6, <1>7, <1>8 DEF GroupingInv

(* What is written is of proposals that are apart, or was there before.      *)
LEMMA WritesKeep == ASSUME GroupingInv, Grouping!Write PROVE GroupingInv'
<1>1. v1' = v1 + 1 /\ UNCHANGED <<v2, v3>> /\ v1 \in Nat BY DEF Grouping!Write, GroupingInv
<1>2. v4' = v4 \/ v4' = Grouping!Worthy BY DEF Grouping!Write
<1>3. Grouping!Apart BY DEF GroupingInv, Grouping!FamiliesDisjoint
<1>4. ASSUME NEW s \in Grouping!Worthy
      PROVE  \/ \E i \in DOMAIN v2 : s = Grouping!Suggestion(Grouping!None, i, v2[i].members)
             \/ \E c \in Confirmed : s = Grouping!Suggestion(c, 0, v3[c])
  BY DEF Grouping!Worthy
<1>5. \A c, i, m : Grouping!Suggestion(c, i, m).members = m BY DEF Grouping!Suggestion
<1>6. ASSUME NEW s \in Grouping!Worthy, NEW t \in Grouping!Worthy, s # t
      PROVE  s.members \cap t.members = {}
  <2> DEFINE new(u, i) == u = Grouping!Suggestion(Grouping!None, i, v2[i].members)
             old(u, c) == u = Grouping!Suggestion(c, 0, v3[c])
  <2>1. CASE \E i, j \in DOMAIN v2 : new(s, i) /\ new(t, j)
    BY <1>3, <1>5, <1>6, <2>1 DEF Grouping!Apart
  <2>2. CASE \E i \in DOMAIN v2, c \in Confirmed : new(s, i) /\ old(t, c)
    BY <1>3, <1>5, <2>2 DEF Grouping!Apart
  <2>3. CASE \E i \in DOMAIN v2, c \in Confirmed : new(t, i) /\ old(s, c)
    BY <1>3, <1>5, <2>3 DEF Grouping!Apart
  <2>4. CASE \E c, d \in Confirmed : old(s, c) /\ old(t, d)
    BY <1>3, <1>5, <1>6, <2>4 DEF Grouping!Apart
  <2> QED BY <1>4, <2>1, <2>2, <2>3, <2>4
<1>7. Grouping!FamiliesDisjoint'
  <2>1. Grouping!Apart' BY <1>1, <1>3 DEF Grouping!Apart
  <2>2. \A s, t \in v4' : s # t => s.members \cap t.members = {}
    BY <1>2, <1>6 DEF GroupingInv, Grouping!FamiliesDisjoint
  <2> QED BY <2>1, <2>2 DEF Grouping!FamiliesDisjoint
<1>8. Grouping!Referenced' = Grouping!Referenced
  BY <1>1 DEF Grouping!Referenced, Grouping!Mentioned
<1>9. \A b \in DOMAIN Batches : b \in Nat
  BY LenProperties, OperationsAssumption DEF OperationsAssumption
<1>10. \A b \in DOMAIN Batches : v1' <= b => v1 <= b BY <1>1, <1>9
<1> QED BY <1>1, <1>7, <1>8, <1>10 DEF GroupingInv

(* services/family_bootstrap.py: however the batches are cut and whatever    *)
(* the model answers to each and to the rescue, a creative is in at most one *)
(* proposal and offered at most once.  For any batches, names and codes, and *)
(* answers of any length.                                                  *)
THEOREM ProposalsStayApart == MCSpec => []FamiliesDisjoint
<1> DEFINE J == part = "proposals" => GroupingInv
<1>1. MCInit => J BY GroupingStarts
<1>2. ASSUME J, [MCNext]_MCvars PROVE J'
  <2> SUFFICES ASSUME part = "proposals", GroupingInv PROVE GroupingInv'
    BY <1>2 DEF MCNext, MCvars
  <2>1. CASE Grouping!Next BY <2>1, BatchesKeep, RescueKeeps, WritesKeep DEF Grouping!Next
  <2>2. CASE UNCHANGED others
    <3>1. UNCHANGED <<v1, v2, v3, v4>> BY <2>2 DEF others, from3, from4
    <3> QED BY <3>1 DEF GroupingInv, Grouping!FamiliesDisjoint, Grouping!Apart, Grouping!Referenced,
                        Grouping!Mentioned
  <2> QED BY <1>2, <2>1, <2>2 DEF MCNext, MCvars, Other
<1>3. J => FamiliesDisjoint BY DEF GroupingInv, FamiliesDisjoint
<1> HIDE DEF J
<1> QED BY <1>1, <1>2, <1>3, PTL DEF MCSpec

(***************************************************************************)
(* The links.  A review that is to write has read an undecided link, and     *)
(* only people count edits; so a step that counts none is of a review.       *)
(***************************************************************************)
LinkFields == {"alive", "pair", "factor", "reviewed"}
LinkInv ==
    /\ v5 \in Nat
    /\ DOMAIN v1 = Links!Ids /\ \A i \in Links!Ids : DOMAIN v1[i] = LinkFields
    /\ DOMAIN v4 = Reviews /\ \A r \in Reviews : v4[r].pc = "write" => v4[r].open

LEMMA LinksStart == MCInit /\ part = "links" => LinkInv
<1> SUFFICES ASSUME Links!Init PROVE LinkInv BY DEF MCInit
<1>1. v1 = [i \in Links!Ids |-> Links!NoLink] /\ v4 = [r \in Reviews |-> Links!Idle] /\ v5 = 0
  BY DEF Links!Init
<1>2. DOMAIN Links!NoLink = LinkFields BY DEF Links!NoLink, LinkFields
<1>3. Links!Idle.pc # "write" BY DEF Links!Idle
<1> QED BY <1>1, <1>2, <1>3 DEF LinkInv

(* A review that starts has nothing to write.                               *)
LEMMA StartsKeep ==
    ASSUME LinkInv, NEW r \in Reviews, NEW i, Links!Start(r, i)
    PROVE  DOMAIN v4' = Reviews /\ \A k \in Reviews : v4'[k].pc = "write" => v4'[k].open
<1>1. v4' = [v4 EXCEPT ![r] = [Links!Idle EXCEPT !.pc = "begin", !.id = i]] BY DEF Links!Start
<1>2. [Links!Idle EXCEPT !.pc = "begin", !.id = i].pc = "begin" BY DEF Links!Idle
<1>3. DOMAIN v4 = Reviews BY DEF LinkInv
<1>4. v4'[r].pc = "begin" /\ \A k \in Reviews \ {r} : v4'[k] = v4[k] BY <1>1, <1>2, <1>3
<1> QED BY <1>1, <1>3, <1>4 DEF LinkInv

(* People's edits are counted.                                              *)
LEMMA CreatesKeep ==
    ASSUME LinkInv, NEW p \in LinkPairs, NEW f, NEW r \in Reviews, Links!Create(p, f, r)
    PROVE  LinkInv' /\ v5' # v5
<1>1. v5' = v5 + 1 /\ v5 \in Nat BY DEF Links!Create, Links!Edit, LinkInv
<1>2. PICK i \in IF Links!LinkOf(p) # {} THEN Links!LinkOf(p) ELSE Links!Fresh :
          LET old == IF v1[i].alive THEN v1[i]
                     ELSE [alive |-> TRUE, pair |-> p, factor |-> f, reviewed |-> FALSE]
          IN /\ v1' = [v1 EXCEPT ![i] = [old EXCEPT !.reviewed = @ \/ f # "unknown"]]
             /\ Links!Start(r, i)
  BY DEF Links!Create
<1>3. i \in Links!Ids BY DEF Links!LinkOf, Links!Fresh
<1> DEFINE old == IF v1[i].alive THEN v1[i]
                  ELSE [alive |-> TRUE, pair |-> p, factor |-> f, reviewed |-> FALSE]
<1>4. DOMAIN old = LinkFields BY <1>3 DEF LinkInv, LinkFields
<1>5. v1' = [v1 EXCEPT ![i] = [old EXCEPT !.reviewed = @ \/ f # "unknown"]] BY <1>2
<1> HIDE DEF old
<1>6. DOMAIN v1' = Links!Ids /\ \A j \in Links!Ids : DOMAIN v1'[j] = LinkFields
  BY <1>3, <1>4, <1>5 DEF LinkInv
<1> QED BY <1>1, <1>2, <1>6, StartsKeep DEF LinkInv

LEMMA LinkShapesKeep ==
    ASSUME LinkInv, NEW i,
           \/ v1' = v1 \/ v1' = [v1 EXCEPT ![i].alive = FALSE]
           \/ \E f : \/ v1' = [v1 EXCEPT ![i].factor = f]
                     \/ v1' = [v1 EXCEPT ![i].factor = f, ![i].reviewed = TRUE]
    PROVE  DOMAIN v1' = Links!Ids /\ \A j \in Links!Ids : DOMAIN v1'[j] = LinkFields
<1> USE DEF LinkInv
<1>1. CASE v1' = v1 BY <1>1
<1>2. CASE v1' = [v1 EXCEPT ![i].alive = FALSE] BY <1>2
<1>3. CASE \E f : v1' = [v1 EXCEPT ![i].factor = f] BY <1>3
<1>4. CASE \E f : v1' = [v1 EXCEPT ![i].factor = f, ![i].reviewed = TRUE]
  <2>1. PICK f : v1' = [v1 EXCEPT ![i].factor = f, ![i].reviewed = TRUE] BY <1>4
  <2>2. DOMAIN v1' = Links!Ids BY <2>1
  <2>3. \A j \in Links!Ids \ {i} : v1'[j] = v1[j] BY <2>1
  <2>4. i \in Links!Ids => v1'[i] = [v1[i] EXCEPT !.factor = f, !.reviewed = TRUE] BY <2>1
  <2> QED BY <2>2, <2>3, <2>4
<1> QED BY <1>1, <1>2, <1>3, <1>4

LEMMA UpdatesKeep ==
    ASSUME LinkInv, NEW i, NEW f, Links!Update(i, f) PROVE LinkInv' /\ v5' # v5
<1>1. v5' = v5 + 1 /\ v5 \in Nat /\ v4' = v4 BY DEF Links!Update, Links!Edit, LinkInv
<1>2. v1' = v1 \/ v1' = [v1 EXCEPT ![i].factor = f, ![i].reviewed = TRUE] BY DEF Links!Update
<1> QED BY <1>1, <1>2, LinkShapesKeep DEF LinkInv

LEMMA DeletesKeep == ASSUME LinkInv, NEW i, Links!Delete(i) PROVE LinkInv' /\ v5' # v5
<1>1. v5' = v5 + 1 /\ v5 \in Nat /\ v4' = v4 BY DEF Links!Delete, Links!Edit, LinkInv
<1>2. v1' = [v1 EXCEPT ![i].alive = FALSE] BY DEF Links!Delete
<1> QED BY <1>1, <1>2, LinkShapesKeep DEF LinkInv

(* A review that begins opens a link that nobody has decided.               *)
LEMMA BeginsKeep ==
    ASSUME LinkInv, NEW r \in Reviews, Links!Begin(r) PROVE LinkInv' /\ v1' = v1
<1>1. v1' = v1 /\ v5' = v5 /\ DOMAIN v4 = Reviews BY DEF Links!Begin, LinkInv
<1>2. Links!Idle.pc # "write" BY DEF Links!Idle
<1>3. \E q : v4' = [v4 EXCEPT ![r] = q] /\ (q.pc = "write" => q.open)
  <2> DEFINE i == v4[r].id
  <2>1. CASE Links!Undecided(i)
    <3> DEFINE yes == v1[i].alive /\ ~v1[i].reviewed
    <3>1. PICK finds : v4' = [v4 EXCEPT ![r] = [pc |-> "write", id |-> i, factor |-> v1[i].factor,
                                                finds |-> finds, open |-> yes]]
      BY <2>1 DEF Links!Begin
    <3>2. yes BY <2>1 DEF Links!Undecided
    <3>3. yes = TRUE BY <3>2
    <3> HIDE DEF yes
    <3>4. [pc |-> "write", id |-> i, factor |-> v1[i].factor, finds |-> finds, open |-> yes].open
      BY <3>3
    <3> QED BY <3>1, <3>4
  <2>2. CASE ~Links!Undecided(i) BY <1>2, <2>2 DEF Links!Begin
  <2> QED BY <2>1, <2>2
<1>4. PICK q : v4' = [v4 EXCEPT ![r] = q] /\ (q.pc = "write" => q.open) BY <1>3
<1>5. DOMAIN v4' = Reviews /\ \A k \in Reviews : v4'[k] = IF k = r THEN q ELSE v4[k] BY <1>1, <1>4
<1> QED BY <1>1, <1>4, <1>5 DEF LinkInv

(* One that ends may have put what it measured itself in a factor's place.   *)
LEMMA FinishesMeasure ==
    ASSUME LinkInv, NEW r \in Reviews, Links!Finish(r)
    PROVE  /\ LinkInv'
           /\ \A i \in Links!Ids :
                 /\ v1'[i].alive = v1[i].alive /\ v1'[i].reviewed = v1[i].reviewed
                 /\ v1'[i].factor # v1[i].factor =>
                       /\ v1'[i].factor \in Measurable
                       /\ v4[r].id = i /\ v4[r].open /\ v4[r].finds = v1'[i].factor
                       /\ v4'[r].pc = "idle"
<1>1. v4[r].pc = "write" /\ v4' = [v4 EXCEPT ![r] = Links!Idle] /\ v5' = v5 BY DEF Links!Finish
<1>2. Links!Idle.pc = "idle" BY DEF Links!Idle
<1>3. DOMAIN v4 = Reviews /\ v4[r].open BY <1>1 DEF LinkInv
<1>4. v4'[r].pc = "idle" /\ DOMAIN v4' = Reviews /\ \A k \in Reviews \ {r} : v4'[k] = v4[k]
  BY <1>1, <1>2, <1>3
<1> DEFINE i == v4[r].id
           finds == v4[r].finds
<1>5. v1' = v1 \/ (finds \in Measurable /\ v1' = [v1 EXCEPT ![i].factor = finds])
  BY DEF Links!Finish, Links!Decides, Links!Answers
<1>6. DOMAIN v1' = Links!Ids /\ \A j \in Links!Ids : DOMAIN v1'[j] = LinkFields
  BY <1>5, LinkShapesKeep
<1>7. LinkInv' BY <1>1, <1>4, <1>6 DEF LinkInv
<1>8. CASE v1' = v1 BY <1>7, <1>8
<1>9. CASE finds \in Measurable /\ v1' = [v1 EXCEPT ![i].factor = finds]
  <2>1. finds \in Measurable /\ v1' = [v1 EXCEPT ![i].factor = finds] BY <1>9
  <2>2. ASSUME NEW j \in Links!Ids
        PROVE  /\ v1'[j].alive = v1[j].alive /\ v1'[j].reviewed = v1[j].reviewed
               /\ v1'[j].factor # v1[j].factor =>
                     j = i /\ v1'[j].factor = finds /\ finds \in Measurable
    <3>1. DOMAIN v1 = Links!Ids /\ DOMAIN v1[j] = LinkFields BY DEF LinkInv
    <3>2. CASE j = i
      <4>1. v1'[j] = [v1[j] EXCEPT !.factor = finds] BY <2>1, <3>1, <3>2
      <4> QED BY <2>1, <3>1, <3>2, <4>1 DEF LinkFields
    <3>3. CASE j # i BY <2>1, <3>1, <3>3
    <3> QED BY <3>2, <3>3
  <2> QED BY <1>3, <1>4, <1>7, <2>2
<1> QED BY <1>5, <1>8, <1>9

LEMMA LinksKeep ==
    ASSUME LinkInv, Links!Next
    PROVE  LinkInv' /\ Links!MachineStep
<1>1. CASE \E p \in LinkPairs, f \in Factors \cup {"unknown"}, r \in Reviews : Links!Create(p, f, r)
  BY <1>1, CreatesKeep DEF Links!MachineStep, Links!ByMachine
<1>2. CASE \E i \in Links!Ids : \/ Links!Delete(i) \/ Links!Follow(i)
                                \/ \E f \in Factors \cup {"unknown"} : Links!Update(i, f)
  <2>1. \E i \in Links!Ids : Links!Delete(i) \/ \E f : Links!Update(i, f) BY <1>2 DEF Links!Follow
  <2> QED BY <2>1, UpdatesKeep, DeletesKeep DEF Links!MachineStep, Links!ByMachine
<1>3. CASE \E r \in Reviews : Links!Begin(r) BY <1>3, BeginsKeep DEF Links!MachineStep
<1>4. CASE \E r \in Reviews : Links!Finish(r) BY <1>4, FinishesMeasure DEF Links!MachineStep
<1> QED BY <1>1, <1>2, <1>3, <1>4 DEF Links!Next

(* services/derivation_review.py: what no human asked for neither unlinks    *)
(* nor decides a link, and changes a factor only to what the review that     *)
(* ends measured, never to what a judge answered it, of a link that was      *)
(* undecided when it read it.  For any pairs, factors, number of reviews and *)
(* of edits.                                                               *)
THEOREM TheMachineMeasures == MCSpec => MachineOnlyMeasures
<1> DEFINE J == part = "links" => LinkInv
           S == part = "links" => Links!MachineStep
<1>1. MCInit => J BY LinksStart
<1>2. ASSUME J, [MCNext]_MCvars PROVE J' /\ S
  <2> SUFFICES ASSUME part = "links", LinkInv PROVE LinkInv' /\ Links!MachineStep
    BY <1>2 DEF MCNext, MCvars
  <2>1. CASE Links!Next BY <2>1, LinksKeep
  <2>2. CASE UNCHANGED others
    <3>1. UNCHANGED <<v1, v4, v5>> BY <2>2 DEF others, from4, from5
    <3> QED BY <3>1 DEF LinkInv, Links!MachineStep
  <2> QED BY <1>2, <2>1, <2>2 DEF MCNext, MCvars, Other
<1>3. MachineOnlyMeasures <=> [][S]_MCvars BY DEF MachineOnlyMeasures
<1> HIDE DEF J, S
<1> QED BY <1>1, <1>2, <1>3, PTL DEF MCSpec

(***************************************************************************)
(* The refreshes.  One that is alone to its commit has read the newest       *)
(* snapshots; after it the newest of each creative tell what it found in the *)
(* rows it read, which are still the first ones, and in what else it read.   *)
(***************************************************************************)
Fields == {"pc", "asOf", "in", "seen", "live", "update", "known", "at", "alone"}
Newer(c, rows, around) ==
    \E s \in Refresh!Newest(c) : s.content = Refresh!Content(c, rows, around)
RefreshShapes ==
    /\ v1 \in Seq(Offered) /\ v6 \in Nat
    /\ v4 = [c \in Scored |-> v4[c]] /\ v3 = [c \in Scored |-> v3[c]]
    /\ DOMAIN v5 = Refreshers /\ \A h \in Refreshers : DOMAIN v5[h] = Fields
StageOK(h) ==
    /\ v5[h].pc # "idle" => v5[h].asOf \in 0..Len(v1)
    /\ v5[h].alone => /\ v5[h].pc # "idle"
                      /\ \A g \in Refreshers \ {h} : v5[g].pc = "idle"
    /\ v5[h].pc = "flushed" =>
         /\ v5[h].at \in Nat /\ v5[h].at <= v6 /\ v5[h].update \subseteq v5[h].live
         /\ v5[h].alone => \A c \in Scored : /\ v5[h].known[c] = Refresh!Newest(c)
                                             /\ \A s \in v4[c] : s.at < v5[h].at
SnapshotsCounted == \A c \in Scored : \A s \in v4[c] : s.at \in Nat /\ s.at <= v6
LastTold ==
    \A l \in v8 : /\ l.asOf \in 0..Len(v1)
                 /\ \A c \in Scored : Newer(c, SubSeq(v1, 1, l.asOf), l.in)
RefreshInv ==
    RefreshShapes /\ (\A h \in Refreshers : StageOK(h)) /\ SnapshotsCounted /\ LastTold

LEMMA RefreshStarts == MCInit /\ part = "refresh" => RefreshInv
<1> SUFFICES ASSUME Refresh!Init PROVE RefreshInv BY DEF MCInit
<1>1. v1 = <<>> /\ v1 \in Seq(Offered) /\ v6 = 0 BY DEF Refresh!Init
<1>2. v4 = [c \in Scored |-> {}] /\ v3 = [c \in Scored |-> "active"] /\ v8 = {}
  BY DEF Refresh!Init
<1>3. v5 = [h \in Refreshers |-> Refresh!Idle] BY DEF Refresh!Init
<1>4. DOMAIN Refresh!Idle = Fields /\ Refresh!Idle.pc = "idle" /\ Refresh!Idle.alone = FALSE
  BY DEF Refresh!Idle, Fields
<1>5. RefreshShapes BY <1>1, <1>2, <1>3, <1>4 DEF RefreshShapes
<1>6. \A h \in Refreshers : StageOK(h) BY <1>3, <1>4 DEF StageOK
<1> QED BY <1>2, <1>5, <1>6 DEF RefreshInv, SnapshotsCounted, LastTold

(* More rows come after those that were read.                               *)
LEMMA RowsAreAppended ==
    ASSUME v1 \in Seq(Offered), NEW r \in Offered, v1' = Append(v1, r)
    PROVE  /\ v1' \in Seq(Offered) /\ Len(v1') = Len(v1) + 1 /\ Len(v1) \in Nat
           /\ \A n \in 0..Len(v1) : SubSeq(v1', 1, n) = SubSeq(v1, 1, n)
<1>1. v1' \in Seq(Offered) /\ Len(v1') = Len(v1) + 1 /\ \A i \in 1..Len(v1) : v1'[i] = v1[i]
  BY AppendProperties
<1>2. Len(v1) \in Nat BY LenProperties
<1>3. ASSUME NEW n \in 0..Len(v1) PROVE SubSeq(v1', 1, n) = SubSeq(v1, 1, n)
  <2>1. \A i \in 1..n : v1'[i] = v1[i] BY <1>1, <1>2
  <2>2. n \in Nat BY <1>2
  <2>3. SubSeq(v1', 1, n) = [i \in 1..n |-> v1'[i]] /\ SubSeq(v1, 1, n) = [i \in 1..n |-> v1[i]]
    BY <2>2
  <2> QED BY <2>1, <2>3
<1> QED BY <1>1, <1>2, <1>3

LEMMA ImportsKeep == ASSUME RefreshInv, NEW r \in Offered, Refresh!Import(r) PROVE RefreshInv'
<1>1. v1' = Append(v1, r) /\ UNCHANGED <<v3, v4, v5, v6, v8>> BY DEF Refresh!Import
<1>2. v1 \in Seq(Offered) BY DEF RefreshInv, RefreshShapes
<1>3. /\ v1' \in Seq(Offered) /\ Len(v1') = Len(v1) + 1 /\ Len(v1) \in Nat
      /\ \A n \in 0..Len(v1) : SubSeq(v1', 1, n) = SubSeq(v1, 1, n)
  BY <1>1, <1>2, RowsAreAppended
<1>4. \A c : Refresh!Newest(c)' = Refresh!Newest(c) BY <1>1 DEF Refresh!Newest
<1>5. RefreshShapes' BY <1>1, <1>3 DEF RefreshInv, RefreshShapes
<1>6. \A h \in Refreshers : StageOK(h)' BY <1>1, <1>3, <1>4 DEF RefreshInv, StageOK
<1>7. LastTold'
  <2> SUFFICES ASSUME NEW l \in v8
               PROVE  /\ l.asOf \in 0..Len(v1')
                      /\ \A c \in Scored : Newer(c, SubSeq(v1, 1, l.asOf), l.in)'
    BY <1>1 DEF LastTold
  <2>1. l.asOf \in 0..Len(v1) /\ \A c \in Scored : Newer(c, SubSeq(v1, 1, l.asOf), l.in)
    BY DEF RefreshInv, LastTold
  <2>2. SubSeq(v1', 1, l.asOf) = SubSeq(v1, 1, l.asOf) BY <1>3, <2>1
  <2>3. ASSUME NEW c \in Scored PROVE Newer(c, SubSeq(v1, 1, l.asOf), l.in)'
    <3>1. Newer(c, SubSeq(v1, 1, l.asOf), l.in) BY <2>1
    <3> QED BY <1>4, <2>2, <3>1 DEF Newer
  <2> QED BY <1>3, <2>1, <2>3
<1> QED BY <1>1, <1>5, <1>6, <1>7 DEF RefreshInv, SnapshotsCounted

LEMMA ActsKeep ==
    ASSUME RefreshInv,
           \/ Refresh!NextDay \/ Refresh!Elsewhere
           \/ \E c \in Scored : Refresh!Archive(c) \/ Refresh!KeepWatching(c) \/ Refresh!Restore(c)
    PROVE  RefreshInv'
<1>1. UNCHANGED <<v1, v4, v5, v6, v8>>
  BY DEF Refresh!NextDay, Refresh!Elsewhere, Refresh!Archive, Refresh!KeepWatching,
         Refresh!Restore, Refresh!Set
<1>2. v3' = [c \in Scored |-> v3'[c]]
  <2>1. v3' = v3 \/ \E c \in Scored : \E state : v3' = [v3 EXCEPT ![c] = state]
    BY DEF Refresh!NextDay, Refresh!Elsewhere, Refresh!Archive, Refresh!KeepWatching,
           Refresh!Restore, Refresh!Set
  <2>2. v3 = [c \in Scored |-> v3[c]] BY DEF RefreshInv, RefreshShapes
  <2> QED BY <2>1, <2>2
<1>3. \A c : Refresh!Newest(c)' = Refresh!Newest(c) BY <1>1 DEF Refresh!Newest
<1>4. RefreshShapes' BY <1>1, <1>2 DEF RefreshInv, RefreshShapes
<1>5. \A h \in Refreshers : StageOK(h)' BY <1>1, <1>3 DEF RefreshInv, StageOK
<1>6. LastTold' BY <1>1, <1>3 DEF RefreshInv, LastTold, Newer
<1> QED BY <1>1, <1>4, <1>5, <1>6 DEF RefreshInv, SnapshotsCounted

(* A refresh that reads rows ends the solitude of every other.              *)
LEMMA ReadsKeep == ASSUME RefreshInv, NEW h \in Refreshers, Refresh!Read(h) PROVE RefreshInv'
<1> DEFINE lonely == \A g \in Refreshers : v5[g].pc = "idle"
           fresh == [Refresh!Idle EXCEPT !.pc = "read", !.asOf = Len(v1), !.in = v9,
                                         !.seen = v3, !.alone = \A g \in Refreshers : ~Refresh!Busy(g)]
<1>1. UNCHANGED <<v1, v3, v4, v6, v8>> /\ v5[h].pc = "idle"
      /\ v5' = [k \in Refreshers |-> IF k = h THEN fresh ELSE [v5[k] EXCEPT !.alone = FALSE]]
  BY DEF Refresh!Read, Refresh!Busy
<1>2. DOMAIN fresh = Fields /\ fresh.pc = "read" /\ fresh.asOf = Len(v1)
      /\ (fresh.alone => lonely)
  BY DEF Refresh!Idle, Fields, Refresh!Busy
<1> HIDE DEF fresh
<1>3. \A k \in Refreshers \ {h} :
         /\ DOMAIN v5'[k] = Fields /\ v5'[k].alone = FALSE
         /\ v5'[k].pc = v5[k].pc /\ v5'[k].asOf = v5[k].asOf /\ v5'[k].at = v5[k].at
         /\ v5'[k].update = v5[k].update /\ v5'[k].live = v5[k].live
  <2> SUFFICES ASSUME NEW k \in Refreshers \ {h}
               PROVE  /\ DOMAIN v5'[k] = Fields /\ v5'[k].alone = FALSE
                      /\ v5'[k].pc = v5[k].pc /\ v5'[k].asOf = v5[k].asOf /\ v5'[k].at = v5[k].at
                      /\ v5'[k].update = v5[k].update /\ v5'[k].live = v5[k].live
    OBVIOUS
  <2>1. DOMAIN v5[k] = Fields BY DEF RefreshInv, RefreshShapes
  <2>2. v5'[k] = [v5[k] EXCEPT !.alone = FALSE] BY <1>1
  <2> QED BY <2>1, <2>2 DEF Fields
<1>4. v5'[h] = fresh BY <1>1
<1>5. \A c : Refresh!Newest(c)' = Refresh!Newest(c) BY <1>1 DEF Refresh!Newest
<1>6. RefreshShapes' BY <1>1, <1>2, <1>3, <1>4 DEF RefreshInv, RefreshShapes
<1>7. Len(v1) \in Nat BY LenProperties DEF RefreshInv, RefreshShapes
<1>8. StageOK(h)'
  <2>1. fresh.alone => \A g \in Refreshers \ {h} : v5'[g].pc = "idle" BY <1>2, <1>3
  <2> QED BY <1>1, <1>2, <1>4, <1>7, <2>1 DEF StageOK
<1>9. ASSUME NEW k \in Refreshers \ {h} PROVE StageOK(k)'
  <2>1. StageOK(k) BY DEF RefreshInv
  <2> QED BY <1>1, <1>3, <2>1 DEF StageOK
<1>10. LastTold' BY <1>1, <1>5 DEF RefreshInv, LastTold, Newer
<1> QED BY <1>1, <1>6, <1>8, <1>9, <1>10 DEF RefreshInv, SnapshotsCounted

LEMMA SelectsKeep == ASSUME RefreshInv, NEW h \in Refreshers, Refresh!Select(h) PROVE RefreshInv'
<1>1. UNCHANGED <<v1, v3, v4, v6, v8>> /\ v5[h].pc = "read" BY DEF Refresh!Select
<1>2. DOMAIN v5 = Refreshers /\ DOMAIN v5[h] = Fields BY DEF RefreshInv, RefreshShapes
<1>3. /\ DOMAIN v5' = Refreshers /\ \A k \in Refreshers \ {h} : v5'[k] = v5[k]
      /\ DOMAIN v5'[h] = Fields /\ v5'[h].pc = "selected"
      /\ v5'[h].asOf = v5[h].asOf /\ v5'[h].alone = v5[h].alone
  <2>1. PICK live : v5' = [v5 EXCEPT ![h].pc = "selected", ![h].live = live] BY DEF Refresh!Select
  <2>2. v5'[h] = [v5[h] EXCEPT !.pc = "selected", !.live = live] BY <1>2, <2>1
  <2> QED BY <1>2, <2>1, <2>2 DEF Fields
<1>4. \A c : Refresh!Newest(c)' = Refresh!Newest(c) BY <1>1 DEF Refresh!Newest
<1>5. RefreshShapes' BY <1>1, <1>3 DEF RefreshInv, RefreshShapes
<1>6. ASSUME NEW k \in Refreshers PROVE StageOK(k)'
  <2>1. StageOK(k) BY DEF RefreshInv
  <2>2. CASE k = h BY <1>1, <1>3, <2>1, <2>2 DEF StageOK
  <2>3. CASE k # h
    <3>1. v5[k].alone => FALSE BY <1>1, <2>1, <2>3 DEF StageOK
    <3> QED BY <1>1, <1>3, <2>1, <2>3, <3>1 DEF StageOK
  <2> QED BY <2>2, <2>3
<1>7. LastTold' BY <1>1, <1>4 DEF RefreshInv, LastTold, Newer
<1> QED BY <1>1, <1>5, <1>6, <1>7 DEF RefreshInv, SnapshotsCounted

LEMMA FlushesKeep == ASSUME RefreshInv, NEW h \in Refreshers, Refresh!Flush(h) PROVE RefreshInv'
<1>1. UNCHANGED <<v1, v3, v4, v8>> /\ v5[h].pc = "selected" /\ v6' = v6 + 1 BY DEF Refresh!Flush
<1>2. /\ DOMAIN v5 = Refreshers /\ DOMAIN v5[h] = Fields /\ v6 \in Nat
      /\ v4 = [c \in Scored |-> v4[c]]
  BY DEF RefreshInv, RefreshShapes
<1>3. /\ DOMAIN v5' = Refreshers /\ \A k \in Refreshers \ {h} : v5'[k] = v5[k]
      /\ DOMAIN v5'[h] = Fields /\ v5'[h].pc = "flushed"
      /\ v5'[h].asOf = v5[h].asOf /\ v5'[h].alone = v5[h].alone
      /\ v5'[h].at = v6 + 1 /\ v5'[h].update \subseteq v5'[h].live
      /\ \A c \in Scored : v5'[h].known[c] = Refresh!Newest(c)
  <2> DEFINE changed == {c \in v5[h].live :
                           Refresh!Target(c, Refresh!Metrics(c, Refresh!AsRead(h))) # v5[h].seen[c]}
             known == [c \in Scored |-> Refresh!Newest(c)]
  <2>1. v5' = [v5 EXCEPT ![h].pc = "flushed", ![h].update = changed,
                         ![h].known = known, ![h].at = v6 + 1]
    BY DEF Refresh!Flush
  <2>2. changed \subseteq v5[h].live /\ \A c \in Scored : known[c] = Refresh!Newest(c)
    OBVIOUS
  <2> HIDE DEF changed, known
  <2>3. v5'[h] = [v5[h] EXCEPT !.pc = "flushed", !.update = changed, !.known = known, !.at = v6 + 1]
    BY <1>2, <2>1
  <2> QED BY <1>2, <2>1, <2>2, <2>3 DEF Fields
<1>4. \A c : Refresh!Newest(c)' = Refresh!Newest(c) BY <1>1 DEF Refresh!Newest
<1>5. RefreshShapes' BY <1>1, <1>2, <1>3 DEF RefreshInv, RefreshShapes
<1>6. \A c \in Scored : \A s \in v4[c] : s.at < v6 + 1 /\ s.at \in Nat
  BY <1>2 DEF RefreshInv, SnapshotsCounted
<1>7. ASSUME NEW k \in Refreshers PROVE StageOK(k)'
  <2>1. StageOK(k) BY DEF RefreshInv
  <2>2. CASE k = h
    <3>1. \A c \in Scored : \A s \in v4'[c] : s.at < v5'[h].at BY <1>1, <1>3, <1>6
    <3>2. \A c \in Scored : v5'[h].known[c] = Refresh!Newest(c)' BY <1>3, <1>4
    <3> QED BY <1>1, <1>2, <1>3, <2>1, <2>2, <3>1, <3>2 DEF StageOK
  <2>3. CASE k # h
    <3>1. v5[k].alone => FALSE BY <1>1, <2>1, <2>3 DEF StageOK
    <3> QED BY <1>1, <1>2, <1>3, <2>1, <2>3, <3>1 DEF StageOK
  <2> QED BY <2>2, <2>3
<1>8. SnapshotsCounted' BY <1>1, <1>2, <1>6 DEF SnapshotsCounted
<1>9. LastTold' BY <1>1, <1>4 DEF RefreshInv, LastTold, Newer
<1> QED BY <1>5, <1>7, <1>8, <1>9 DEF RefreshInv

(* The commit: what it found is the newest afterwards, or was before.        *)
LEMMA CommitsTell ==
    ASSUME RefreshInv, NEW h \in Refreshers, Refresh!Commit(h), NEW c \in Scored
    PROVE  LET found == Refresh!Content(c, SubSeq(v1, 1, v5[h].asOf), v5[h].in)
               new == [at |-> v5[h].at, content |-> found] IN
           /\ \/ v4'[c] = v4[c] /\ \E s \in v5[h].known[c] : s.content = found
              \/ v4'[c] = v4[c] \cup {new}
           /\ (\E s \in v5[h].known[c] : s.content = found) => v4'[c] = v4[c]
           /\ v5[h].alone => \E s \in Refresh!Newest(c)' : s.content = found
<1> DEFINE rows == SubSeq(v1, 1, v5[h].asOf)
           found == Refresh!Content(c, rows, v5[h].in)
           new == [at |-> v5[h].at, content |-> found]
           told == \E s \in v5[h].known[c] : s.content = found
<1>1. v4'[c] = IF told THEN v4[c] ELSE v4[c] \cup {new}
  BY DEF Refresh!Commit, Refresh!AsRead
<1>2. v1' = v1 /\ v5[h].pc = "flushed" BY DEF Refresh!Commit
<1>3. ASSUME v5[h].alone PROVE \E s \in Refresh!Newest(c)' : s.content = found
  <2>1. /\ v5[h].known[c] = Refresh!Newest(c) /\ \A s \in v4[c] : s.at < v5[h].at
        /\ v5[h].at \in Nat /\ \A s \in v4[c] : s.at \in Nat
    BY <1>2, <1>3 DEF RefreshInv, StageOK, SnapshotsCounted
  <2>2. CASE told
    <3>1. Refresh!Newest(c)' = Refresh!Newest(c) BY <1>1, <2>2 DEF Refresh!Newest
    <3> QED BY <2>1, <2>2, <3>1
  <2>3. CASE ~told
    <3>1. v4'[c] = v4[c] \cup {new} BY <1>1, <2>3
    <3>2. new.at = v5[h].at /\ new.content = found OBVIOUS
    <3> HIDE DEF new, found
    <3>3. \A t \in v4'[c] : t.at <= new.at BY <2>1, <3>1, <3>2
    <3>4. new \in Refresh!Newest(c)' BY <3>1, <3>3 DEF Refresh!Newest
    <3> QED BY <3>2, <3>4
  <2> QED BY <2>2, <2>3
<1> QED BY <1>1, <1>3

LEMMA CommitsKeep == ASSUME RefreshInv, NEW h \in Refreshers, Refresh!Commit(h) PROVE RefreshInv'
<1> DEFINE found(c) == Refresh!Content(c, SubSeq(v1, 1, v5[h].asOf), v5[h].in)
<1>1. /\ v1' = v1 /\ v6' = v6 /\ v5[h].pc = "flushed" /\ v5' = [v5 EXCEPT ![h] = Refresh!Idle]
      /\ v8' = IF v5[h].alone THEN {Refresh!Found(h)} ELSE {}
      /\ v4' = [c \in Scored |-> v4'[c]] /\ v3' = [c \in Scored |-> v3'[c]]
  BY DEF Refresh!Commit
<1>2. DOMAIN Refresh!Idle = Fields /\ Refresh!Idle.pc = "idle" /\ Refresh!Idle.alone = FALSE
  BY DEF Refresh!Idle, Fields
<1>3. DOMAIN v5 = Refreshers /\ \A k \in Refreshers : DOMAIN v5[k] = Fields
  BY DEF RefreshInv, RefreshShapes
<1>4. v5'[h] = Refresh!Idle /\ DOMAIN v5' = Refreshers /\ \A k \in Refreshers \ {h} : v5'[k] = v5[k]
  BY <1>1, <1>3
<1>5. RefreshShapes' BY <1>1, <1>2, <1>3, <1>4 DEF RefreshInv, RefreshShapes
<1>6. v5[h].at \in Nat /\ v5[h].at <= v6 /\ v5[h].asOf \in 0..Len(v1)
  BY <1>1 DEF RefreshInv, StageOK
<1>7. SnapshotsCounted'
  <2> SUFFICES ASSUME NEW c \in Scored, NEW s \in v4'[c] PROVE s.at \in Nat /\ s.at <= v6
    BY <1>1 DEF SnapshotsCounted
  <2>1. v4'[c] = v4[c] \/ v4'[c] = v4[c] \cup {[at |-> v5[h].at, content |-> found(c)]}
    BY CommitsTell
  <2>2. s \in v4[c] \/ s.at = v5[h].at BY <2>1
  <2> QED BY <1>6, <2>2 DEF RefreshInv, SnapshotsCounted
<1>8. ASSUME NEW k \in Refreshers PROVE StageOK(k)'
  <2>1. StageOK(k) /\ StageOK(h) BY DEF RefreshInv
  <2>2. CASE k = h BY <1>2, <1>4, <2>2 DEF StageOK
  <2>3. CASE k # h
    <3>1. v5[k].alone => FALSE BY <1>1, <2>1, <2>3 DEF StageOK
    <3> QED BY <1>1, <1>4, <2>1, <2>3, <3>1 DEF StageOK
  <2> QED BY <2>2, <2>3
<1>9. LastTold'
  <2> SUFFICES ASSUME NEW l \in v8'
               PROVE  /\ l.asOf \in 0..Len(v1)
                      /\ \A c \in Scored : Newer(c, SubSeq(v1, 1, l.asOf), l.in)'
    BY <1>1 DEF LastTold
  <2>1. v5[h].alone /\ l = Refresh!Found(h) BY <1>1
  <2>2. l.asOf = v5[h].asOf /\ l.in = v5[h].in BY <2>1 DEF Refresh!Found
  <2>3. ASSUME NEW c \in Scored PROVE Newer(c, SubSeq(v1, 1, l.asOf), l.in)'
    <3>1. PICK s \in Refresh!Newest(c)' : s.content = found(c) BY <2>1, CommitsTell
    <3>2. s.content = Refresh!Content(c, SubSeq(v1', 1, l.asOf), l.in) BY <1>1, <2>2, <3>1
    <3> QED BY <3>1, <3>2 DEF Newer
  <2> QED BY <1>6, <2>2, <2>3
<1> QED BY <1>5, <1>7, <1>8, <1>9 DEF RefreshInv

LEMMA QuietIsSilent ==
    ASSUME RefreshInv, NEW h \in Refreshers, Refresh!Commit(h)
    PROVE  /\ Refresh!Quiet(h) => v4' = v4
           /\ \A c \in Scored : v3'[c] # v3[c] => v3'[c] # "archived" /\ c \in v5[h].live
<1> DEFINE found(c) == Refresh!Content(c, SubSeq(v1, 1, v5[h].asOf), v5[h].in)
<1>1. v5[h].pc = "flushed" /\ v4' = [c \in Scored |-> v4'[c]] /\ v4 = [c \in Scored |-> v4[c]]
  BY DEF Refresh!Commit, RefreshInv, RefreshShapes
<1>2. /\ v5[h].asOf \in 0..Len(v1) /\ v5[h].update \subseteq v5[h].live
      /\ v5[h].alone => \A c \in Scored : v5[h].known[c] = Refresh!Newest(c)
  BY <1>1 DEF RefreshInv, StageOK
<1>3. ASSUME Refresh!Quiet(h), NEW c \in Scored PROVE v4'[c] = v4[c]
  <2>1. v5[h].alone /\ Refresh!Found(h) \in v8 BY <1>3 DEF Refresh!Quiet
  <2>2. Refresh!Found(h).asOf = v5[h].asOf /\ Refresh!Found(h).in = v5[h].in
    BY DEF Refresh!Found
  <2>3. PICK s \in Refresh!Newest(c) : s.content = found(c)
    BY <2>1, <2>2 DEF RefreshInv, LastTold, Newer
  <2>4. s \in v5[h].known[c] BY <1>2, <2>1, <2>3
  <2> QED BY <2>3, <2>4, CommitsTell
<1>4. ASSUME NEW c \in Scored, v3'[c] # v3[c] PROVE v3'[c] # "archived" /\ c \in v5[h].live
  <2>1. v3'[c] = IF c \in v5[h].update THEN Refresh!Target(c, Refresh!Metrics(c, Refresh!AsRead(h)))
                 ELSE v3[c]
    BY DEF Refresh!Commit
  <2>2. c \in v5[h].update /\ v3'[c] \in {"active", "watch"} BY <1>4, <2>1 DEF Refresh!Target
  <2> QED BY <1>2, <2>2
<1>5. Refresh!Quiet(h) => v4' = v4
  <2> SUFFICES ASSUME Refresh!Quiet(h) PROVE v4' = v4
    OBVIOUS
  <2>1. \A c \in Scored : v4'[c] = v4[c] BY <1>3
  <2> QED BY <1>1, <2>1
<1> QED BY <1>4, <1>5

(* services/verdict_snapshots.py, services/lifecycle.py: a refresh that no    *)
(* other overlaps and that finds what the last such one found, the rows and   *)
(* the rest, writes no snapshot, on whatever day; and no refresh archives, or *)
(* restores what was archived when it selected.  For any creatives, rows,    *)
(* requests, thresholds and whatever else verdicts take in.                *)
THEOREM RefreshesAreQuiet == MCSpec => QuietRefreshIsSilent
<1> DEFINE J == part = "refresh" => RefreshInv
           S == part = "refresh" => Refresh!RefreshStep
<1>1. MCInit => J BY RefreshStarts
<1>2. ASSUME J, [MCNext]_MCvars PROVE J'
  <2> SUFFICES ASSUME part = "refresh", RefreshInv PROVE RefreshInv'
    BY <1>2 DEF MCNext, MCvars
  <2>1. CASE Refresh!Next
    BY <2>1, ImportsKeep, ActsKeep, ReadsKeep, SelectsKeep, FlushesKeep, CommitsKeep
       DEF Refresh!Next
  <2>2. CASE UNCHANGED others
    <3>1. UNCHANGED <<v1, v2, v3, v4, v5, v6, v7, v8, v9>>
      BY <2>2 DEF others, from3, from4, from5, from6, from7, from8
    <3>2. \A c : Refresh!Newest(c)' = Refresh!Newest(c) BY <3>1 DEF Refresh!Newest
    <3>3. LastTold' BY <3>1, <3>2 DEF RefreshInv, LastTold, Newer
    <3> QED BY <3>1, <3>2, <3>3 DEF RefreshInv, RefreshShapes, StageOK, SnapshotsCounted
  <2> QED BY <1>2, <2>1, <2>2 DEF MCNext, MCvars, Other
<1>3. J => S BY QuietIsSilent DEF Refresh!RefreshStep
<1>4. QuietRefreshIsSilent <=> [][S]_MCvars BY DEF QuietRefreshIsSilent
<1> HIDE DEF J, S
<1> QED BY <1>1, <1>2, <1>3, <1>4, PTL DEF MCSpec

(***************************************************************************)
(* What was added to a video.                                              *)
(***************************************************************************)
Findings ==
    IF Difference!Resized THEN "aspect-ratio"
    ELSE IF ~Difference!WellAligned THEN "not-a-derivation"
    ELSE IF Difference!Prefix >= Edge THEN "intro-sticker"
    ELSE IF Difference!Suffix >= Edge THEN "brand-endcard" ELSE Difference!Unclear
AreVideos == v1 \in Seq(Frames) /\ v1 # <<>> /\ v2 \in Seq(Frames) /\ v2 # <<>>
DifferenceInv == AreVideos /\ Difference!EditsAreFound

LEMMA SameCardinality == \A S : Difference!Cardinality(S) = Cardinality(S)
BY DEF Difference!Cardinality, Cardinality

(* Where one shift makes the whole source agree, and no other does, it is    *)
(* the one that is taken, and the part that agrees is the source.           *)
LEMMA WholeSourceIsShift ==
    ASSUME AreVideos, NEW n \in Difference!Shifts, Difference!Agree(n) = DOMAIN v1,
           \A l \in Difference!Shifts : Difference!Agree(l) = DOMAIN v1 => l = n
    PROVE  /\ Difference!Shift = n /\ Difference!Aligned = 1..Len(v1)
           /\ Difference!Prefix = n /\ Difference!Suffix = Len(v2) - (Len(v1) + n)
           /\ Difference!WellAligned <=> 2 * Len(v1) >= Len(v2)
<1>1. /\ Len(v1) \in Nat \ {0} /\ Len(v2) \in Nat \ {0}
      /\ DOMAIN v1 = 1..Len(v1) /\ DOMAIN v2 = 1..Len(v2)
  BY EmptySeq, LenProperties DEF AreVideos
<1>2. IsFiniteSet(DOMAIN v1) /\ Cardinality(DOMAIN v1) = Len(v1) BY <1>1, FS_Interval
<1>3. ASSUME NEW l \in Difference!Shifts
      PROVE  /\ Cardinality(Difference!Agree(l)) \in Nat
             /\ l # n => Cardinality(Difference!Agree(l)) < Len(v1)
  <2>1. Difference!Agree(l) \in SUBSET DOMAIN v1 BY DEF Difference!Agree
  <2> QED BY <1>2, <2>1, FS_Subset, FS_CardinalityType
<1>4. Difference!Shifts \subseteq Int /\ \A k \in Difference!Shifts : Difference!Size(k) \in Int
  BY <1>1 DEF Difference!Shifts, Difference!Size
<1>5. ASSUME NEW l \in Difference!Shifts PROVE Difference!Preferred(n, l)
  <2>1. CASE l = n BY <1>1, <1>2, <1>4, <2>1, SameCardinality DEF Difference!Preferred
  <2>2. CASE l # n BY <1>1, <1>2, <1>3, <2>2, SameCardinality DEF Difference!Preferred
  <2> QED BY <2>1, <2>2
<1>6. ASSUME NEW k \in Difference!Shifts, Difference!Preferred(k, n) PROVE k = n
  BY <1>1, <1>2, <1>3, <1>6, SameCardinality DEF Difference!Preferred
<1>7. Difference!Shift = n BY <1>5, <1>6 DEF Difference!Shift
<1>8. Difference!Aligned = 1..Len(v1) BY <1>1, <1>7 DEF Difference!Aligned
<1>9. Difference!Min(1..Len(v1)) = 1 /\ Difference!Max(1..Len(v1)) = Len(v1)
  BY <1>1 DEF Difference!Min, Difference!Max
<1>10. Difference!Prefix = n /\ Difference!Suffix = Len(v2) - (Len(v1) + n)
  BY <1>1, <1>4, <1>7, <1>8, <1>9 DEF Difference!Prefix, Difference!Suffix
<1>11. Difference!WellAligned <=> 2 * Len(v1) >= Len(v2)
  BY <1>1, <1>2, <1>8, SameCardinality DEF Difference!WellAligned
<1> QED BY <1>7, <1>8, <1>10, <1>11

(* With frames of others around the source, only where it begins agrees all. *)
LEMMA AddedIsFound ==
    ASSUME AreVideos, NEW n \in 0..(Len(v2) - Len(v1)),
           Difference!Around(Difference!FrontOf(n), v1, Difference!BackOf(n))
    PROVE  /\ Difference!Prefix = Len(Difference!FrontOf(n))
           /\ Difference!Suffix = Len(Difference!BackOf(n))
           /\ Difference!WellAligned <=> 2 * Len(v1) >= Len(v2)
<1> DEFINE h == Difference!FrontOf(n)
           t == Difference!BackOf(n)
<1>1. /\ Len(v1) \in Nat \ {0} /\ Len(v2) \in Nat \ {0}
      /\ DOMAIN v1 = 1..Len(v1) /\ DOMAIN v2 = 1..Len(v2)
  BY EmptySeq, LenProperties DEF AreVideos
<1>2. n \in Nat /\ n + Len(v1) <= Len(v2) BY <1>1
<1>3. /\ h \in Seq(Frames) /\ Len(h) = n /\ DOMAIN h = 1..n
      /\ \A i \in 1..n : h[i] = v2[i]
  <2>1. 1 \in Int /\ n \in Int /\ \A i \in 1..n : i \in 1..Len(v2) BY <1>1, <1>2
  <2> QED BY <1>1, <1>2, LenProperties DEF AreVideos, Difference!FrontOf
<1>4. /\ t \in Seq(Frames) /\ Len(t) = Len(v2) - (n + Len(v1)) /\ DOMAIN t = 1..Len(t)
      /\ \A i \in 1..Len(t) : t[i] = v2[n + Len(v1) + i]
  <2>1. PICK m : m = n + Len(v1) + 1 OBVIOUS
  <2>2. m \in Int /\ Len(v2) - m + 1 = Len(v2) - (n + Len(v1)) BY <1>1, <1>2, <2>1
  <2>3. \A i \in m..Len(v2) : v2[i] \in Frames BY <1>1, <1>2, <2>1 DEF AreVideos
  <2>4. t = SubSeq(v2, m, Len(v2)) BY <2>1 DEF Difference!BackOf
  <2>5. PICK len : len = Len(v2) - m + 1 OBVIOUS
  <2>6. len \in Nat /\ (m <= Len(v2) => len = Len(v2) - m + 1) /\ (~(m <= Len(v2)) => len = 0)
    <3>1. PICK last : last = Len(v2) OBVIOUS
    <3>2. PICK front : front = Len(v1) OBVIOUS
    <3>3. last \in Nat /\ front \in Nat /\ n + front <= last BY <1>1, <1>2, <3>1, <3>2
    <3>4. m = n + front + 1 /\ len = last - m + 1 BY <2>1, <2>5, <3>1, <3>2
    <3> QED BY <1>2, <3>1, <3>3, <3>4
  <2>7. t \in Seq(Frames) /\ Len(t) = len /\ \A i \in 1..len : t[i] = v2[m + i - 1]
    BY <1>1, <2>2, <2>3, <2>4, <2>5, <2>6, SubSeqProperties
  <2>8. ASSUME NEW i \in 1..Len(t) PROVE t[i] = v2[n + Len(v1) + i]
    <3>1. i \in 1..len /\ i \in Int /\ t[i] = v2[m + i - 1] BY <2>6, <2>7
    <3>2. m + i - 1 = n + Len(v1) + i BY <1>1, <1>2, <2>1, <3>1
    <3> QED BY <3>1, <3>2
  <2>9. t \in Seq(Frames) /\ Len(t) = Len(v2) - (n + Len(v1)) BY <2>2, <2>5, <2>7
  <2>10. DOMAIN t = 1..Len(t) BY <2>9, LenProperties
  <2> QED BY <2>8, <2>9, <2>10
<1>5. /\ v2 = (h \o v1) \o t
      /\ Difference!ToSet(h) \cap Difference!ToSet(v1) = {}
      /\ Difference!ToSet(t) \cap Difference!ToSet(v1) = {}
  BY DEF Difference!Around, Difference!Apart
<1> HIDE DEF h, t
<1>6. h \o v1 \in Seq(Frames) /\ Len(h \o v1) = n + Len(v1)
      /\ \A i \in 1..Len(v1) : (h \o v1)[i + n] = v1[i]
  <2>1. /\ h \o v1 \in Seq(Frames) /\ Len(h \o v1) = n + Len(v1)
        /\ \A i \in 1..(n + Len(v1)) : (h \o v1)[i] = IF i <= n THEN h[i] ELSE v1[i - n]
    BY <1>2, <1>3, ConcatProperties DEF AreVideos
  <2>2. \A i \in 1..Len(v1) : i + n \in 1..(n + Len(v1)) /\ ~(i + n <= n) /\ (i + n) - n = i
    BY <1>1, <1>2
  <2> QED BY <2>1, <2>2
<1>7. \A i \in 1..(n + Len(v1)) : v2[i] = (h \o v1)[i]
  BY <1>1, <1>2, <1>4, <1>5, <1>6, ConcatProperties
<1>8. \A i \in 1..Len(v1) : i + n \in DOMAIN v2 /\ v1[i] = v2[i + n]
  <2>1. \A i \in 1..Len(v1) : i + n \in 1..(n + Len(v1)) /\ i + n \in DOMAIN v2 BY <1>1, <1>2
  <2> QED BY <1>6, <1>7, <2>1
<1>9. Difference!Agree(n) = DOMAIN v1 BY <1>1, <1>8 DEF Difference!Agree
<1>10. ASSUME NEW i \in DOMAIN v1, NEW j \in DOMAIN v2, v1[i] = v2[j]
       PROVE  j \in (n + 1)..(n + Len(v1))
  <2>1. j \notin 1..n
    <3> SUFFICES ASSUME j \in 1..n PROVE FALSE
      OBVIOUS
    <3>1. v1[i] = h[j] /\ j \in DOMAIN h BY <1>3, <1>10
    <3> QED BY <1>5, <3>1 DEF Difference!ToSet
  <2>2. j \notin (n + Len(v1) + 1)..Len(v2)
    <3> SUFFICES ASSUME j \in (n + Len(v1) + 1)..Len(v2) PROVE FALSE
      OBVIOUS
    <3>1. j - (n + Len(v1)) \in 1..Len(t) /\ n + Len(v1) + (j - (n + Len(v1))) = j
      BY <1>1, <1>2, <1>4
    <3>2. v1[i] = t[j - (n + Len(v1))] BY <1>4, <1>10, <3>1
    <3> QED BY <1>4, <1>5, <3>1, <3>2 DEF Difference!ToSet
  <2> QED BY <1>1, <1>2, <2>1, <2>2
<1>11. ASSUME NEW l \in Difference!Shifts, Difference!Agree(l) = DOMAIN v1 PROVE l = n
  <2>1. l \in Int BY <1>1 DEF Difference!Shifts
  <2>2. 1 \in DOMAIN v1 /\ Len(v1) \in DOMAIN v1 BY <1>1
  <2>3. /\ 1 + l \in DOMAIN v2 /\ v1[1] = v2[1 + l]
        /\ Len(v1) + l \in DOMAIN v2 /\ v1[Len(v1)] = v2[Len(v1) + l]
    BY <1>11, <2>2 DEF Difference!Agree
  <2>4. 1 + l >= n + 1 /\ Len(v1) + l <= n + Len(v1) BY <1>1, <1>2, <1>10, <2>1, <2>2, <2>3
  <2> QED BY <1>1, <1>2, <2>1, <2>4
<1>12. n \in Difference!Shifts BY <1>1, <1>2 DEF Difference!Shifts
<1>13. /\ Difference!Prefix = n /\ Difference!Suffix = Len(v2) - (Len(v1) + n)
       /\ Difference!WellAligned <=> 2 * Len(v1) >= Len(v2)
  BY <1>9, <1>11, <1>12, WholeSourceIsShift
<1> QED BY <1>1, <1>2, <1>3, <1>4, <1>13 DEF h, t

LEMMA CopyIsFound ==
    ASSUME AreVideos, v1 = v2 PROVE Difference!WellAligned
<1>1. Len(v1) \in Nat \ {0} /\ DOMAIN v1 = 1..Len(v1)
  BY EmptySeq, LenProperties DEF AreVideos
<1>2. 0 \in Difference!Shifts BY <1>1 DEF Difference!Shifts
<1>3. Difference!Agree(0) = DOMAIN v1
  <2>1. \A i \in DOMAIN v1 : i + 0 \in DOMAIN v1 /\ v1[i + 0] = v1[i] BY <1>1
  <2> QED BY <2>1 DEF Difference!Agree
<1>4. ASSUME NEW l \in Difference!Shifts, Difference!Agree(l) = DOMAIN v1 PROVE l = 0
  <2>1. l \in Int /\ 1 \in DOMAIN v1 /\ Len(v1) \in DOMAIN v1 BY <1>1 DEF Difference!Shifts
  <2>2. 1 + l \in DOMAIN v1 /\ Len(v1) + l \in DOMAIN v1 BY <1>4, <2>1 DEF Difference!Agree
  <2> QED BY <1>1, <2>1, <2>2
<1>5. Difference!WellAligned <=> 2 * Len(v1) >= Len(v2)
  BY <1>2, <1>3, <1>4, WholeSourceIsShift
<1> QED BY <1>1, <1>5

LEMMA FindingsAreRight ==
    ASSUME AreVideos
    PROVE  /\ \A n \in 0..(Len(v2) - Len(v1)) :
                 (v3 = "same" /\ Difference!Around(Difference!FrontOf(n), v1, Difference!BackOf(n)))
                     => Findings = Difference!Expected(Difference!FrontOf(n), Difference!BackOf(n))
           /\ v1 = v2 => Findings # "not-a-derivation"
<1>1. Len(v1) \in Nat /\ Len(v2) \in Nat BY LenProperties DEF AreVideos
<1>2. ASSUME NEW n \in 0..(Len(v2) - Len(v1)), v3 = "same",
             Difference!Around(Difference!FrontOf(n), v1, Difference!BackOf(n))
      PROVE  Findings = Difference!Expected(Difference!FrontOf(n), Difference!BackOf(n))
  <2>1. ~Difference!Resized BY <1>2 DEF Difference!Resized
  <2>2. /\ Difference!Prefix = Len(Difference!FrontOf(n))
        /\ Difference!Suffix = Len(Difference!BackOf(n))
        /\ Difference!WellAligned <=> ~(2 * Len(v1) < Len(v2))
    BY <1>1, <1>2, AddedIsFound
  <2> QED BY <2>1, <2>2 DEF Findings, Difference!Expected
<1>3. ASSUME v1 = v2 PROVE Findings # "not-a-derivation"
  <2>1. Difference!WellAligned BY <1>3, CopyIsFound
  <2>2. Difference!Unclear # "not-a-derivation" BY DEF Difference!Unclear
  <2> QED BY <2>1, <2>2 DEF Findings
<1> QED BY <1>2, <1>3

LEMMA DifferenceStarts == Difference!Init => DifferenceInv
<1> SUFFICES ASSUME Difference!Init PROVE AreVideos
  BY DEF Difference!Init, DifferenceInv, Difference!EditsAreFound
<1>1. ASSUME NEW m PROVE Difference!BoundedSeq(Frames, m) \subseteq Seq(Frames)
  <2>1. ASSUME NEW s, NEW k \in 0..m, s \in [1..k -> Frames] PROVE s \in Seq(Frames)
    BY <2>1, SeqDef
  <2> QED BY <2>1 DEF Difference!BoundedSeq, Difference!SeqOf
<1> QED BY <1>1 DEF Difference!Init, AreVideos

(* services/variant_diff.py: whatever the frames, the lengths and the line   *)
(* at which an addition counts, an intro or an end card that was put around  *)
(* a video is what is found, and no copy is taken for another video.         *)
THEOREM EditsAreAlwaysFound == MCSpec => []EditsAreFound
<1> DEFINE J == part = "difference" => DifferenceInv
<1>1. MCInit => J BY DifferenceStarts DEF MCInit
<1>2. ASSUME J, [MCNext]_MCvars PROVE J'
  <2> SUFFICES ASSUME part = "difference", DifferenceInv PROVE DifferenceInv'
    BY <1>2 DEF MCNext, MCvars
  <2>1. CASE Difference!Next
    <3>1. v1' = v1 /\ v2' = v2 /\ v3' = v3 /\ v4' = Findings
      BY <2>1 DEF Difference!Next, Difference!Classify, Findings
    <3> QED BY <3>1, FindingsAreRight
            DEF DifferenceInv, AreVideos, Difference!EditsAreFound, Difference!Expected,
                Difference!Around, Difference!Apart, Difference!FrontOf, Difference!BackOf
  <2>2. CASE UNCHANGED others
    <3>1. v1' = v1 /\ v2' = v2 /\ v3' = v3 /\ v4' = v4
      BY <2>2 DEF others, from3, from4
    <3> QED BY <3>1
            DEF DifferenceInv, AreVideos, Difference!EditsAreFound, Difference!Expected,
                Difference!Around, Difference!Apart, Difference!FrontOf, Difference!BackOf
  <2> QED BY <1>2, <2>1, <2>2 DEF MCNext, MCvars, Other
<1>3. J => EditsAreFound BY DEF EditsAreFound, DifferenceInv
<1> HIDE DEF J
<1> QED BY <1>1, <1>2, <1>3, PTL DEF MCSpec

(***************************************************************************)
(* What is to be done with a creative.                                     *)
(***************************************************************************)
Metric == [spend : Nat, payers : Nat, objective : STRING, idle : Int, exhausted : Nat, roas : Int,
           installs : Nat, impressions : Nat, d3 : Int, retention : Int, recent : Nat,
           before : Nat, markets : Nat, ctr : Int]

(* Where the parts of a joined sequence are.                                *)
LEMMA Joined ==
    ASSUME NEW S, NEW a \in Seq(S), NEW b \in Seq(S)
    PROVE  /\ a \o b \in Seq(S) /\ Len(a \o b) = Len(a) + Len(b)
           /\ \A i \in 1..Len(a) : (a \o b)[i] = a[i]
           /\ \A i \in 1..Len(b) : (a \o b)[Len(a) + i] = b[i]
<1>1. /\ a \o b \in Seq(S) /\ Len(a \o b) = Len(a) + Len(b)
      /\ \A i \in 1..Len(a) + Len(b) : (a \o b)[i] = IF i <= Len(a) THEN a[i] ELSE b[i - Len(a)]
      /\ Len(a) \in Nat /\ Len(b) \in Nat
  BY ConcatProperties, LenProperties
<1>2. ASSUME NEW i \in 1..Len(b) PROVE (a \o b)[Len(a) + i] = b[i]
  <2>1. Len(a) + i \in 1..(Len(a) + Len(b)) /\ ~(Len(a) + i <= Len(a)) /\ (Len(a) + i) - Len(a) = i
    BY <1>1
  <2> QED BY <1>1, <2>1
<1> QED BY <1>1, <1>2

(* The rules one by one.                                                   *)
LEMMA RulesAreThese ==
    /\ DOMAIN Verdicts!Rules = 1..18
    /\ Verdicts!Rules[1] = "no_delivery" /\ Verdicts!Rules[2] = "insufficient_data"
    /\ Verdicts!Rules[3] = "idle_underperform" /\ Verdicts!Rules[4] = "derivations_exhausted"
    /\ Verdicts!Rules[5] = "factor_exhausted" /\ Verdicts!Rules[6] = "zero_payers"
    /\ Verdicts!Rules[7] = "insufficient_payers" /\ Verdicts!Rules[8] = "cpp_over_pause_line"
    /\ Verdicts!Rules[9] = "cpp_over_red_weak_roas" /\ Verdicts!Rules[10] = "cpi_far_over_market"
    /\ Verdicts!Rules[11] = "idle_was_healthy" /\ Verdicts!Rules[12] = "efficient_not_scaled"
    /\ Verdicts!Rules[13] = "cpp_over_red" /\ Verdicts!Rules[14] = "cpi_over_market"
    /\ Verdicts!Rules[15] = "d1_roas_below_green" /\ Verdicts!Rules[16] = "d3_roas_weak"
    /\ Verdicts!Rules[17] = "d1_retention_weak" /\ Verdicts!Rules[18] = "keep_healthy"
<1> DEFINE names == {"no_delivery", "insufficient_data", "idle_underperform", "derivations_exhausted",
                     "factor_exhausted", "zero_payers", "insufficient_payers", "cpp_over_pause_line",
                     "cpp_over_red_weak_roas", "cpi_far_over_market", "idle_was_healthy",
                     "efficient_not_scaled", "cpp_over_red", "cpi_over_market",
                     "d1_roas_below_green", "d3_roas_weak", "d1_retention_weak", "keep_healthy"}
           gates == Verdicts!Gates
           costs == Verdicts!CostRules
           idle == <<"idle_was_healthy">>
           rest == <<"efficient_not_scaled", "cpp_over_red", "cpi_over_market",
                     "d1_roas_below_green", "d3_roas_weak", "d1_retention_weak", "keep_healthy">>
<1>1. gates \in Seq(names) /\ costs \in Seq(names) /\ idle \in Seq(names) /\ rest \in Seq(names)
  BY DEF Verdicts!Gates, Verdicts!CostRules
<1>2. Len(gates) = 7 /\ Len(costs) = 3 /\ Len(idle) = 1 /\ Len(rest) = 7
  BY DEF Verdicts!Gates, Verdicts!CostRules
<1>3. /\ gates[1] = "no_delivery" /\ gates[2] = "insufficient_data"
      /\ gates[3] = "idle_underperform" /\ gates[4] = "derivations_exhausted"
      /\ gates[5] = "factor_exhausted" /\ gates[6] = "zero_payers" /\ gates[7] = "insufficient_payers"
      /\ costs[1] = "cpp_over_pause_line" /\ costs[2] = "cpp_over_red_weak_roas"
      /\ costs[3] = "cpi_far_over_market" /\ idle[1] = "idle_was_healthy"
      /\ rest[1] = "efficient_not_scaled" /\ rest[2] = "cpp_over_red" /\ rest[3] = "cpi_over_market"
      /\ rest[4] = "d1_roas_below_green" /\ rest[5] = "d3_roas_weak"
      /\ rest[6] = "d1_retention_weak" /\ rest[7] = "keep_healthy"
  BY DEF Verdicts!Gates, Verdicts!CostRules
<1> DEFINE stops == costs \o idle
           front == gates \o stops
<1>4. Verdicts!Rules = front \o rest BY DEF Verdicts!Rules, Verdicts!Stops
<1> HIDE DEF names, gates, costs, idle, rest
<1>5. /\ stops \in Seq(names) /\ Len(stops) = Len(costs) + Len(idle)
      /\ \A i \in 1..Len(costs) : stops[i] = costs[i]
      /\ \A i \in 1..Len(idle) : stops[Len(costs) + i] = idle[i]
  BY <1>1, Joined
<1> HIDE DEF stops
<1>6. stops \in Seq(names) BY <1>5
<1>7. /\ front \in Seq(names) /\ Len(front) = Len(gates) + Len(stops)
      /\ \A i \in 1..Len(gates) : front[i] = gates[i]
      /\ \A i \in 1..Len(stops) : front[Len(gates) + i] = stops[i]
  BY <1>1, <1>6, Joined
<1> HIDE DEF front
<1>8. front \in Seq(names) BY <1>7
<1>9. /\ Verdicts!Rules \in Seq(names) /\ Len(Verdicts!Rules) = Len(front) + Len(rest)
      /\ \A i \in 1..Len(front) : Verdicts!Rules[i] = front[i]
      /\ \A i \in 1..Len(rest) : Verdicts!Rules[Len(front) + i] = rest[i]
  BY <1>1, <1>4, <1>8, Joined
<1>10. Len(stops) = 4 /\ (\A i \in 1..3 : stops[i] = costs[i]) /\ stops[4] = idle[1]
  BY <1>2, <1>5
<1>11. /\ Len(front) = 11 /\ \A i \in 1..7 : front[i] = gates[i]
      /\ \A i \in 1..4 : front[7 + i] = stops[i]
  BY <1>2, <1>7, <1>10
<1>12. /\ Len(Verdicts!Rules) = 18 /\ \A i \in 1..11 : Verdicts!Rules[i] = front[i]
       /\ \A i \in 1..7 : Verdicts!Rules[11 + i] = rest[i]
  BY <1>2, <1>9, <1>11
<1>13. DOMAIN Verdicts!Rules = 1..18 BY <1>9, <1>12, LenProperties
<1>14. /\ front[8] = stops[1] /\ front[9] = stops[2] /\ front[10] = stops[3] /\ front[11] = stops[4]
  BY <1>11
<1>15. /\ Verdicts!Rules[12] = rest[1] /\ Verdicts!Rules[13] = rest[2] /\ Verdicts!Rules[14] = rest[3]
       /\ Verdicts!Rules[15] = rest[4] /\ Verdicts!Rules[16] = rest[5]
       /\ Verdicts!Rules[17] = rest[6] /\ Verdicts!Rules[18] = rest[7]
  BY <1>12
<1> QED BY <1>3, <1>10, <1>11, <1>12, <1>13, <1>14, <1>15

(* The rule that decides fires, and none before it does.                    *)
LEMMA FirstDecides ==
    ASSUME NEW m
    PROVE  \E k \in 1..18 : /\ Verdicts!Fires(m, Verdicts!Rules[k])
                            /\ \A j \in 1..(k - 1) : ~Verdicts!Fires(m, Verdicts!Rules[j])
                            /\ Verdicts!FirstRule(m) = Verdicts!Rules[k]
<1> DEFINE fires == {i \in DOMAIN Verdicts!Rules : Verdicts!Fires(m, Verdicts!Rules[i])}
<1>1. fires \subseteq 1..18 /\ fires \subseteq Nat BY RulesAreThese
<1>2. 18 \in fires BY RulesAreThese DEF Verdicts!Fires
<1>3. \E k \in fires : \A j \in fires : k <= j BY <1>1, <1>2, LeastNumber
<1>4. /\ Verdicts!Min(fires) \in fires /\ \A j \in fires : Verdicts!Min(fires) <= j
      /\ Verdicts!FirstRule(m) = Verdicts!Rules[Verdicts!Min(fires)]
  BY <1>3 DEF Verdicts!Min, Verdicts!FirstRule
<1>5. PICK k : k = Verdicts!Min(fires) OBVIOUS
<1>6. ASSUME NEW j \in 1..(k - 1) PROVE ~Verdicts!Fires(m, Verdicts!Rules[j])
  <2>1. k \in 1..18 /\ j \in 1..18 /\ ~(k <= j) BY <1>1, <1>4, <1>5
  <2>2. j \notin fires BY <1>4, <1>5, <2>1
  <2> QED BY <2>1, <2>2, RulesAreThese
<1> QED BY <1>1, <1>4, <1>5, <1>6

(* How hard a creative is stopped, said without the order of the rules.     *)
Seen(m) == ~Verdicts!Fires(m, "no_delivery") /\ ~Verdicts!Fires(m, "insufficient_data")
Archived(m) ==
    Seen(m) /\ (Verdicts!Fires(m, "idle_underperform") \/ Verdicts!Fires(m, "derivations_exhausted"))
Paused(m) ==
    /\ Seen(m) /\ ~Archived(m) /\ ~Verdicts!Fires(m, "factor_exhausted")
    /\ \/ Verdicts!Fires(m, "zero_payers")
       \/ /\ ~Verdicts!Fires(m, "insufficient_payers")
          /\ \/ Verdicts!Fires(m, "cpp_over_pause_line")
             \/ Verdicts!Fires(m, "cpp_over_red_weak_roas")
             \/ Verdicts!Fires(m, "cpi_far_over_market")
HardnessOf(m) == Verdicts!Hardness[Verdicts!ActionOf(Verdicts!FirstRule(m))]

LEMMA ActionsAreThese ==
    /\ \A r \in {"idle_underperform", "derivations_exhausted"} :
           Verdicts!Hardness[Verdicts!ActionOf(r)] = 2
    /\ \A r \in {"zero_payers", "cpp_over_pause_line", "cpp_over_red_weak_roas",
                 "cpi_far_over_market"} : Verdicts!Hardness[Verdicts!ActionOf(r)] = 1
    /\ \A r \in {"no_delivery", "insufficient_data", "factor_exhausted", "insufficient_payers",
                 "idle_was_healthy", "efficient_not_scaled", "cpp_over_red", "cpi_over_market",
                 "d1_roas_below_green", "d3_roas_weak", "d1_retention_weak", "keep_healthy"} :
           Verdicts!Hardness[Verdicts!ActionOf(r)] = 0
    /\ \A r \in {"cpp_over_pause_line", "cpp_over_red", "cpp_over_red_weak_roas"} :
           Verdicts!ActionOf(r) # "KEEP"
<1>1. {Verdicts!CostRules[i] : i \in DOMAIN Verdicts!CostRules} =
          {"cpp_over_pause_line", "cpp_over_red_weak_roas", "cpi_far_over_market"}
  <2>1. DOMAIN Verdicts!CostRules = 1..3 BY DEF Verdicts!CostRules
  <2>2. /\ Verdicts!CostRules[1] = "cpp_over_pause_line"
        /\ Verdicts!CostRules[2] = "cpp_over_red_weak_roas"
        /\ Verdicts!CostRules[3] = "cpi_far_over_market"
    BY DEF Verdicts!CostRules
  <2> QED BY <2>1, <2>2
<1>2. \A r : Verdicts!ActionOf(r) =
          IF r \in {"idle_underperform", "derivations_exhausted"} THEN "ARCHIVE"
          ELSE IF r \in {"zero_payers", "cpp_over_pause_line", "cpp_over_red_weak_roas",
                         "cpi_far_over_market"} THEN "PAUSE"
          ELSE IF r = "keep_healthy" THEN "KEEP" ELSE "ITERATE"
  BY <1>1 DEF Verdicts!ActionOf
<1>3. /\ Verdicts!Hardness["KEEP"] = 0 /\ Verdicts!Hardness["ITERATE"] = 0
      /\ Verdicts!Hardness["PAUSE"] = 1 /\ Verdicts!Hardness["ARCHIVE"] = 2
  BY DEF Verdicts!Hardness
<1> QED BY <1>2, <1>3

LEMMA HardnessIsThis ==
    ASSUME NEW m
    PROVE  HardnessOf(m) = IF Archived(m) THEN 2 ELSE IF Paused(m) THEN 1 ELSE 0
<1>1. PICK k \in 1..18 : /\ Verdicts!Fires(m, Verdicts!Rules[k])
                         /\ \A j \in 1..(k - 1) : ~Verdicts!Fires(m, Verdicts!Rules[j])
                         /\ Verdicts!FirstRule(m) = Verdicts!Rules[k]
  BY FirstDecides
<1> DEFINE F(r) == Verdicts!Fires(m, r)
<1>2. HardnessOf(m) = Verdicts!Hardness[Verdicts!ActionOf(Verdicts!Rules[k])]
  BY <1>1 DEF HardnessOf
<1>3. CASE k \in 1..2
  <2>1. HardnessOf(m) = 0 BY <1>2, <1>3, RulesAreThese, ActionsAreThese
  <2>2. ~Seen(m) BY <1>1, <1>3, RulesAreThese DEF Seen
  <2> QED BY <2>1, <2>2 DEF Archived, Paused
<1>4. ASSUME k \in 3..18 PROVE Seen(m)
  BY <1>1, <1>4, RulesAreThese DEF Seen
<1>5. CASE k \in 3..4
  <2>1. HardnessOf(m) = 2 BY <1>2, <1>5, RulesAreThese, ActionsAreThese
  <2>2. Archived(m) BY <1>1, <1>4, <1>5, RulesAreThese DEF Archived
  <2> QED BY <2>1, <2>2
<1>6. ASSUME k \in 5..18 PROVE ~Archived(m)
  BY <1>1, <1>6, RulesAreThese DEF Archived
<1>7. CASE k = 5
  <2>1. HardnessOf(m) = 0 BY <1>2, <1>7, RulesAreThese, ActionsAreThese
  <2>2. ~Paused(m) BY <1>1, <1>7, RulesAreThese DEF Paused
  <2> QED BY <1>6, <1>7, <2>1, <2>2
<1>8. ASSUME k \in 6..18 PROVE ~F("factor_exhausted") BY <1>1, <1>8, RulesAreThese
<1>9. CASE k = 6
  <2>1. HardnessOf(m) = 1 BY <1>2, <1>9, RulesAreThese, ActionsAreThese
  <2>2. Paused(m) BY <1>1, <1>4, <1>6, <1>8, <1>9, RulesAreThese DEF Paused
  <2> QED BY <1>6, <1>9, <2>1, <2>2
<1>10. ASSUME k \in 7..18 PROVE ~F("zero_payers") BY <1>1, <1>10, RulesAreThese
<1>11. CASE k = 7
  <2>1. HardnessOf(m) = 0 BY <1>2, <1>11, RulesAreThese, ActionsAreThese
  <2>2. ~Paused(m) BY <1>1, <1>10, <1>11, RulesAreThese DEF Paused
  <2> QED BY <1>6, <1>11, <2>1, <2>2
<1>12. ASSUME k \in 8..18 PROVE ~F("insufficient_payers") BY <1>1, <1>12, RulesAreThese
<1>13. CASE k \in 8..10
  <2>1. HardnessOf(m) = 1 BY <1>2, <1>13, RulesAreThese, ActionsAreThese
  <2>2. \/ F("cpp_over_pause_line") \/ F("cpp_over_red_weak_roas") \/ F("cpi_far_over_market")
    BY <1>1, <1>13, RulesAreThese
  <2>3. Paused(m) BY <1>4, <1>6, <1>8, <1>12, <1>13, <2>2 DEF Paused
  <2> QED BY <1>6, <1>13, <2>1, <2>3
<1>14. CASE k \in 11..18
  <2>1. HardnessOf(m) = 0 BY <1>2, <1>14, RulesAreThese, ActionsAreThese
  <2>2. ~F("cpp_over_pause_line") /\ ~F("cpp_over_red_weak_roas") /\ ~F("cpi_far_over_market")
    BY <1>1, <1>14, RulesAreThese
  <2>3. ~Paused(m) BY <1>10, <1>14, <2>2 DEF Paused
  <2> QED BY <1>6, <1>14, <2>1, <2>3
<1> QED BY <1>3, <1>5, <1>7, <1>9, <1>11, <1>13, <1>14

LEMMA MoreCostsMore ==
    ASSUME NEW line \in Nat, NEW a \in Nat, NEW b \in Nat, a <= b
    PROVE  line * a <= line * b
<1>1. PICK d \in Nat : b = a + d
  <2>1. b - a \in Nat /\ b = a + (b - a) OBVIOUS
  <2> QED BY <2>1
<1>2. line * (a + d) = line * a + line * d /\ line * d \in Nat /\ line * a \in Nat OBVIOUS
<1> QED BY <1>1, <1>2

(* The pair that is judged.                                                *)
Worse(n, m) ==
    /\ n \in Metric /\ m \in Metric
    /\ m.spend = n.spend /\ m.objective = n.objective /\ m.idle = n.idle
    /\ m.exhausted = n.exhausted /\ m.impressions = n.impressions
    /\ Verdicts!NoMore(m.payers, n.payers, MinPayers)
    /\ Verdicts!NoMore(m.roas, n.roas, 0) /\ Verdicts!NoMore(m.installs, n.installs, MinInstalls)

LEMMA SecondIsWorse ==
    ASSUME NEW n \in Judged, NEW m \in Verdicts!NoBetter(n)
    PROVE  Worse(n, m)
<1>1. n \in Metric BY VerdictsAssumption DEF Metric
<1>2. PICK p \in Verdicts!Payers, r \in Verdicts!Returns, i \in Verdicts!Installs :
          m = Verdicts!Earning(n, p, r, i)
  BY DEF Verdicts!NoBetter
<1>3. p \in Nat /\ r \in Int /\ i \in Nat
  BY VerdictsAssumption DEF Verdicts!Payers, Verdicts!Returns, Verdicts!Installs, Verdicts!Of
<1>4. /\ m \in Metric
      /\ m.spend = n.spend /\ m.objective = n.objective /\ m.idle = n.idle
      /\ m.exhausted = n.exhausted /\ m.impressions = n.impressions
  BY <1>1, <1>2, <1>3 DEF Metric, Verdicts!Earning
<1>5. /\ Verdicts!NoMore(m.payers, n.payers, MinPayers) /\ Verdicts!NoMore(m.roas, n.roas, 0)
      /\ Verdicts!NoMore(m.installs, n.installs, MinInstalls)
  BY DEF Verdicts!NoBetter
<1> QED BY <1>1, <1>4, <1>5 DEF Worse

LEMMA CostsMore ==
    ASSUME NEW n, NEW m, Worse(n, m), NEW line \in Nat, Verdicts!CostsAtLeast(n, line)
    PROVE  Verdicts!CostsAtLeast(m, line)
<1>1. n.payers \in Nat /\ m.payers \in Nat /\ n.spend \in Nat /\ m.spend = n.spend /\ MinPayers \in Nat \ {0}
  BY VerdictsAssumption DEF Worse, Metric
<1>2. n.payers > 0 /\ n.spend >= line * n.payers BY DEF Verdicts!CostsAtLeast
<1>3. m.payers > 0 /\ m.payers <= n.payers
  BY <1>1, <1>2 DEF Worse, Verdicts!NoMore
<1>4. line * m.payers <= line * n.payers /\ line * m.payers \in Nat /\ line * n.payers \in Nat
  BY <1>1, <1>3, MoreCostsMore
<1> QED BY <1>1, <1>2, <1>3, <1>4 DEF Verdicts!CostsAtLeast

LEMMA LinesAreNumbers ==
    ASSUME NEW m
    PROVE  /\ Lines.red \in Nat /\ Lines.pause \in Nat /\ Lines.weak \in Nat /\ Lines.efficient \in Nat
           /\ Verdicts!Red(m) \in Nat /\ Verdicts!Pause(m) \in Nat
BY VerdictsAssumption DEF Verdicts!Red, Verdicts!Pause, Verdicts!Doubled

LEMMA WorseIsJudgedBySame ==
    ASSUME NEW n, NEW m, Worse(n, m)
    PROVE  /\ Verdicts!Install(m) <=> Verdicts!Install(n)
           /\ Verdicts!JudgedBy(m) = Verdicts!JudgedBy(n)
           /\ Verdicts!Red(m) = Verdicts!Red(n) /\ Verdicts!Pause(m) = Verdicts!Pause(n)
           /\ Verdicts!LongIdle(m) <=> Verdicts!LongIdle(n)
BY DEF Worse, Verdicts!Install, Verdicts!JudgedBy, Verdicts!Red, Verdicts!Pause, Verdicts!Doubled,
       Verdicts!LongIdle

(* Gates are the same for both, but for an idle one's, and what stops the    *)
(* better stops the worse.                                                 *)
LEMMA WorseAtGates ==
    ASSUME NEW n, NEW m, Worse(n, m)
    PROVE  /\ \A r \in {"no_delivery", "insufficient_data", "derivations_exhausted",
                        "factor_exhausted", "zero_payers", "insufficient_payers"} :
                 Verdicts!Fires(m, r) <=> Verdicts!Fires(n, r)
           /\ Verdicts!Fires(n, "idle_underperform") => Verdicts!Fires(m, "idle_underperform")
<1>1. n.payers \in Nat /\ m.payers \in Nat /\ n.spend \in Nat /\ MinPayers \in Nat \ {0}
  BY VerdictsAssumption DEF Worse, Metric
<1>2. /\ Verdicts!Fires(m, "no_delivery") <=> Verdicts!Fires(n, "no_delivery")
      /\ Verdicts!Fires(m, "insufficient_data") <=> Verdicts!Fires(n, "insufficient_data")
      /\ Verdicts!Fires(m, "derivations_exhausted") <=> Verdicts!Fires(n, "derivations_exhausted")
      /\ Verdicts!Fires(m, "factor_exhausted") <=> Verdicts!Fires(n, "factor_exhausted")
  BY DEF Worse, Verdicts!Fires
<1>3. m.payers = 0 <=> n.payers = 0 BY <1>1 DEF Worse, Verdicts!NoMore
<1>4. m.payers \in 1..(MinPayers - 1) <=> n.payers \in 1..(MinPayers - 1)
  BY <1>1 DEF Worse, Verdicts!NoMore
<1>5. Verdicts!Fires(m, "zero_payers") <=> Verdicts!Fires(n, "zero_payers")
  BY <1>3, WorseIsJudgedBySame DEF Worse, Verdicts!Fires
<1>6. Verdicts!Fires(m, "insufficient_payers") <=> Verdicts!Fires(n, "insufficient_payers")
  BY <1>4 DEF Worse, Verdicts!Fires
<1>7. ASSUME Verdicts!Fires(n, "idle_underperform") PROVE Verdicts!Fires(m, "idle_underperform")
  <2>1. /\ Verdicts!LongIdle(n)
        /\ n.payers = 0 \/ ("cpp" \in Verdicts!JudgedBy(n) /\ Verdicts!CostsAtLeast(n, Verdicts!Red(n)))
    BY <1>7 DEF Verdicts!Fires
  <2>2. Verdicts!CostsAtLeast(n, Verdicts!Red(n)) => Verdicts!CostsAtLeast(m, Verdicts!Red(m))
    BY CostsMore, LinesAreNumbers, WorseIsJudgedBySame
  <2>3. /\ Verdicts!LongIdle(m)
        /\ m.payers = 0 \/ ("cpp" \in Verdicts!JudgedBy(m) /\ Verdicts!CostsAtLeast(m, Verdicts!Red(m)))
    BY <1>3, <2>1, <2>2, WorseIsJudgedBySame
  <2> QED BY <2>3 DEF Verdicts!Fires
<1> QED BY <1>2, <1>5, <1>6, <1>7

LEMMA WorseAtCost ==
    ASSUME NEW n, NEW m, Worse(n, m),
           NEW r \in {"cpp_over_pause_line", "cpp_over_red_weak_roas", "cpi_far_over_market"},
           Verdicts!Fires(n, r)
    PROVE  Verdicts!Fires(m, r)
<1>1. /\ n.payers \in Nat /\ m.payers \in Nat /\ n.spend \in Nat /\ MinPayers \in Nat \ {0}
      /\ n.installs \in Nat /\ m.installs \in Nat /\ n.roas \in Int /\ m.roas \in Int
      /\ MinInstalls \in Nat /\ m.spend = n.spend
  BY VerdictsAssumption DEF Worse, Metric
<1>2. Verdicts!CostKnown(n) => Verdicts!CostKnown(m)
  BY <1>1, WorseIsJudgedBySame DEF Worse, Verdicts!NoMore, Verdicts!CostKnown
<1>3. CASE r = "cpp_over_pause_line"
  <2>1. Verdicts!CostKnown(n) /\ Verdicts!CostsAtLeast(n, Verdicts!Pause(n))
    BY <1>3 DEF Verdicts!Fires
  <2>2. Verdicts!CostsAtLeast(m, Verdicts!Pause(m))
    BY <2>1, CostsMore, LinesAreNumbers, WorseIsJudgedBySame
  <2> QED BY <1>2, <1>3, <2>1, <2>2 DEF Verdicts!Fires
<1>4. CASE r = "cpp_over_red_weak_roas"
  <2>1. /\ Verdicts!CostKnown(n) /\ "d1_roas" \in Verdicts!JudgedBy(n)
        /\ Verdicts!CostsAtLeast(n, Verdicts!Red(n)) /\ Verdicts!Below(n.roas, Lines.weak)
        /\ n.spend >= Significant
    BY <1>4 DEF Verdicts!Fires
  <2>2. Verdicts!CostsAtLeast(m, Verdicts!Red(m))
    BY <2>1, CostsMore, LinesAreNumbers, WorseIsJudgedBySame
  <2>3. Verdicts!Below(m.roas, Lines.weak)
    BY <1>1, <2>1, LinesAreNumbers DEF Worse, Verdicts!NoMore, Verdicts!Below, Verdicts!None
  <2>4. "d1_roas" \in Verdicts!JudgedBy(m) /\ m.spend >= Significant
    BY <1>1, <2>1, WorseIsJudgedBySame
  <2> QED BY <1>2, <1>4, <2>1, <2>2, <2>3, <2>4 DEF Verdicts!Fires
<1>5. CASE r = "cpi_far_over_market"
  <2>1. /\ Verdicts!Install(n) /\ Market.reliable /\ Market.cpi # Verdicts!None
        /\ n.installs >= MinInstalls /\ 2 * n.spend >= 4 * Market.cpi * n.installs
    BY <1>5 DEF Verdicts!Fires, Verdicts!InstallCostsOver
  <2>2. m.installs <= n.installs /\ m.installs >= MinInstalls
    BY <1>1, <2>1 DEF Worse, Verdicts!NoMore
  <2>3. Market.cpi \in Nat /\ 4 * Market.cpi \in Nat BY <2>1, VerdictsAssumption
  <2>4. PICK line \in Nat : line = 4 * Market.cpi BY <2>3
  <2>5. line * m.installs <= line * n.installs /\ line * m.installs \in Nat /\ line * n.installs \in Nat
    BY <1>1, <2>2, MoreCostsMore
  <2>6. 2 * m.spend >= 4 * Market.cpi * m.installs BY <1>1, <2>1, <2>4, <2>5
  <2>7. Verdicts!InstallCostsOver(m, 4)
    BY <2>1, <2>2, <2>6, WorseIsJudgedBySame DEF Verdicts!InstallCostsOver
  <2> QED BY <1>5, <2>7 DEF Verdicts!Fires
<1> QED BY <1>3, <1>4, <1>5

LEMMA WorseIsAsHard ==
    ASSUME NEW n, NEW m, Worse(n, m) PROVE HardnessOf(m) >= HardnessOf(n)
<1>1. Seen(m) <=> Seen(n) BY WorseAtGates DEF Seen
<1>2. Archived(n) => Archived(m) BY <1>1, WorseAtGates DEF Archived
<1>3. Paused(n) => Archived(m) \/ Paused(m)
  <2> SUFFICES ASSUME Paused(n), ~Archived(m) PROVE Paused(m)
    OBVIOUS
  <2>1. /\ Seen(m) /\ ~Verdicts!Fires(m, "factor_exhausted")
        /\ \/ Verdicts!Fires(m, "zero_payers")
           \/ /\ ~Verdicts!Fires(m, "insufficient_payers")
              /\ \/ Verdicts!Fires(n, "cpp_over_pause_line")
                 \/ Verdicts!Fires(n, "cpp_over_red_weak_roas")
                 \/ Verdicts!Fires(n, "cpi_far_over_market")
    BY <1>1, WorseAtGates DEF Paused
  <2>2. \A r \in {"cpp_over_pause_line", "cpp_over_red_weak_roas", "cpi_far_over_market"} :
            Verdicts!Fires(n, r) => Verdicts!Fires(m, r)
    BY WorseAtCost
  <2> QED BY <2>1, <2>2 DEF Paused
<1> QED BY <1>2, <1>3, HardnessIsThis

LEMMA OverpaidStops ==
    ASSUME NEW m \in Metric, Verdicts!Overpaid(m), Verdicts!EnoughSeen(m), m.exhausted # 1
    PROVE  HardnessOf(m) > 0
<1>1. /\ m.spend \in Nat /\ m.payers \in Nat /\ m.exhausted \in Nat /\ m.installs \in Nat
      /\ MinPayers \in Nat \ {0} /\ m.impressions \in Nat
      /\ Lines.spend \in Nat /\ Lines.impressions \in Nat /\ Lines.pause \in Nat
  BY VerdictsAssumption DEF Metric
<1>2. Seen(m) BY <1>1 DEF Seen, Verdicts!Fires, Verdicts!EnoughSeen
<1>3. Verdicts!Fires(m, "factor_exhausted") => Verdicts!Fires(m, "derivations_exhausted")
  BY <1>1 DEF Verdicts!Fires
<1>4. ~Verdicts!Fires(m, "insufficient_payers")
  BY <1>1 DEF Verdicts!Overpaid, Verdicts!Fires
<1>5. CASE m.objective = "install"
  <2>1. /\ Market.reliable /\ Market.cpi # Verdicts!None /\ m.installs >= MinInstalls
        /\ m.spend >= 2 * Market.cpi * m.installs
    BY <1>5 DEF Verdicts!Overpaid
  <2>2. PICK c \in Nat : c = Market.cpi BY <2>1, VerdictsAssumption
  <2>3. PICK x \in Nat : x = c * m.installs BY <1>1
  <2>4. 2 * c * m.installs = 2 * x /\ 4 * c * m.installs = 4 * x BY <1>1, <2>3
  <2>5. 2 * m.spend >= 4 * Market.cpi * m.installs BY <1>1, <2>1, <2>2, <2>4
  <2> QED BY <1>2, <1>3, <1>4, <1>5, <2>1, <2>5, HardnessIsThis
          DEF Archived, Paused, Verdicts!Fires, Verdicts!InstallCostsOver, Verdicts!Install
<1>6. CASE m.objective # "install"
  <2>1. m.payers >= MinPayers /\ m.spend >= Verdicts!Allowance(m) * Lines.pause * m.payers
    BY <1>6 DEF Verdicts!Overpaid
  <2>2. Verdicts!Allowance(m) * Lines.pause = Verdicts!Pause(m)
    BY <1>1 DEF Verdicts!Allowance, Verdicts!Pause, Verdicts!Doubled
  <2>3. Verdicts!CostsAtLeast(m, Verdicts!Pause(m)) BY <1>1, <2>1, <2>2 DEF Verdicts!CostsAtLeast
  <2>4. Verdicts!CostKnown(m)
    BY <1>6, <2>1 DEF Verdicts!CostKnown, Verdicts!JudgedBy, Verdicts!Install
  <2>5. Verdicts!Fires(m, "cpp_over_pause_line") BY <2>3, <2>4 DEF Verdicts!Fires
  <2> QED BY <1>2, <1>3, <1>4, <2>5, HardnessIsThis DEF Archived, Paused
<1> QED BY <1>5, <1>6

(* The defaults are 60, 120 and 180; the settings do not ask for an order.   *)
LinesInOrder == Lines.efficient <= Lines.red /\ Lines.red <= Lines.pause

LEMMA BlamedIsDear ==
    ASSUME NEW m \in Metric, LinesInOrder,
           Verdicts!FirstRule(m) \in {"cpp_over_pause_line", "cpp_over_red", "cpp_over_red_weak_roas"}
    PROVE  Verdicts!Label(m, Verdicts!FirstRule(m)) \notin
               {"saturated", "low_click_high_value", "proven_winner"}
<1>1. PICK rule : rule = Verdicts!FirstRule(m) OBVIOUS
<1>2. Verdicts!Fires(m, rule) BY <1>1, FirstDecides
<1>3. rule \in {"cpp_over_pause_line", "cpp_over_red", "cpp_over_red_weak_roas"} BY <1>1
<1>4. /\ m.payers \in Nat /\ m.spend \in Nat
      /\ Lines.red \in Nat /\ Lines.pause \in Nat /\ Lines.efficient \in Nat
  BY VerdictsAssumption DEF Metric
<1>5. ASSUME NEW low \in Nat, NEW high \in Nat, low <= high, Verdicts!CostsAtLeast(m, high)
      PROVE  Verdicts!CostsAtLeast(m, low)
  <2>1. m.payers * low <= m.payers * high BY <1>4, <1>5, MoreCostsMore
  <2>2. low * m.payers <= high * m.payers BY <1>4, <2>1
  <2>3. low * m.payers \in Nat /\ high * m.payers \in Nat BY <1>4
  <2> QED BY <1>4, <1>5, <2>2, <2>3 DEF Verdicts!CostsAtLeast
<1>6. /\ Verdicts!Red(m) \in Nat /\ Verdicts!Pause(m) \in Nat
      /\ Verdicts!Red(m) <= Verdicts!Pause(m) /\ Lines.efficient <= Verdicts!Red(m)
  BY <1>4 DEF LinesInOrder, Verdicts!Red, Verdicts!Pause, Verdicts!Doubled
<1>7. Verdicts!CostsAtLeast(m, Verdicts!Red(m))
  BY <1>2, <1>3, <1>5, <1>6 DEF Verdicts!Fires
<1>8. Verdicts!CostsAtLeast(m, Lines.efficient) BY <1>4, <1>5, <1>6, <1>7
<1>9. Verdicts!ActionOf(rule) # "KEEP" BY <1>3, ActionsAreThese
<1>10. Verdicts!Label(m, rule) \notin {"saturated", "low_click_high_value", "proven_winner"}
  BY <1>7, <1>8, <1>9 DEF Verdicts!Label, Verdicts!Cheap
<1> QED BY <1>1, <1>10

(* What is known of the two creatives and, once there are any, verdicts.     *)
VerdictsInv ==
    /\ \E n \in Judged : \E m \in Verdicts!NoBetter(n) : v1 = <<n, m>>
    /\ v2 # <<>> => /\ Verdicts!LessIsNotKinder /\ Verdicts!OverpaidIsStopped
                    /\ LinesInOrder => Verdicts!BlamedIsNotCheap

LEMMA VerdictsStart == Verdicts!Init => VerdictsInv
BY DEF Verdicts!Init, VerdictsInv

LEMMA RecommendationsKeep == VerdictsInv /\ Verdicts!Recommend => VerdictsInv'
<1> SUFFICES ASSUME VerdictsInv, Verdicts!Recommend PROVE VerdictsInv'
  OBVIOUS
<1>1. Worse(v1[1], v1[2]) BY SecondIsWorse DEF VerdictsInv
<1>2. v1' = v1 /\ v2' = <<Verdicts!Verdict(v1[1]), Verdicts!Verdict(v1[2])>>
  BY DEF Verdicts!Recommend
<1>3. \A i \in {1, 2} : /\ v2'[i].rule = Verdicts!FirstRule(v1[i])
                        /\ v2'[i].action = Verdicts!ActionOf(Verdicts!FirstRule(v1[i]))
                        /\ v2'[i].label = Verdicts!Label(v1[i], Verdicts!FirstRule(v1[i]))
  BY <1>2 DEF Verdicts!Verdict
<1>4. \A i \in {1, 2} : v1[i] \in Metric BY <1>1 DEF Worse
<1>5. Verdicts!LessIsNotKinder' BY <1>1, <1>3, WorseIsAsHard DEF HardnessOf, Verdicts!LessIsNotKinder
<1>6. Verdicts!OverpaidIsStopped'
  BY <1>2, <1>3, <1>4, OverpaidStops
     DEF HardnessOf, Verdicts!OverpaidIsStopped, Verdicts!Overpaid, Verdicts!EnoughSeen,
         Verdicts!Allowance
<1>7. LinesInOrder => Verdicts!BlamedIsNotCheap'
  BY <1>3, <1>4, BlamedIsDear DEF Verdicts!BlamedIsNotCheap
<1> QED BY <1>2, <1>5, <1>6, <1>7 DEF VerdictsInv

LEMMA VerdictsStay ==
    MCSpec => [](part = "verdicts" => VerdictsInv)
<1> DEFINE J == part = "verdicts" => VerdictsInv
<1>1. MCInit => J BY VerdictsStart DEF MCInit
<1>2. ASSUME J, [MCNext]_MCvars PROVE J'
  <2> SUFFICES ASSUME part = "verdicts", VerdictsInv PROVE VerdictsInv'
    BY <1>2 DEF MCNext, MCvars
  <2>1. CASE Verdicts!Recommend BY <2>1, RecommendationsKeep
  <2>2. CASE UNCHANGED others
    <3>1. v1' = v1 /\ v2' = v2 BY <2>2 DEF others
    <3>2. (\E n \in Judged : \E m \in Verdicts!NoBetter(n) : v1 = <<n, m>>)' BY <3>1 DEF VerdictsInv
    <3>3. /\ Verdicts!LessIsNotKinder' <=> Verdicts!LessIsNotKinder
          /\ Verdicts!BlamedIsNotCheap' <=> Verdicts!BlamedIsNotCheap
      BY <3>1 DEF Verdicts!LessIsNotKinder, Verdicts!BlamedIsNotCheap
    <3>4. Verdicts!OverpaidIsStopped' <=> Verdicts!OverpaidIsStopped
      BY <3>1 DEF Verdicts!OverpaidIsStopped
    <3> QED BY <3>1, <3>2, <3>3, <3>4 DEF VerdictsInv
  <2> QED BY <1>2, <2>1, <2>2 DEF MCNext, MCvars, Other
<1> HIDE DEF J
<1>3. MCSpec => []J BY <1>1, <1>2, PTL DEF MCSpec
<1> QED BY <1>3 DEF J

(* services/recommendation_rules.py: of two creatives with the same spend    *)
(* the one that earns less, on enough data, is stopped at least as hard, and *)
(* an overpaid one is stopped, whatever the thresholds and their order are.  *)
THEOREM LessIsStoppedAsHard ==
    MCSpec => [](part = "verdicts" /\ v2 # <<>> =>
                     Verdicts!LessIsNotKinder /\ Verdicts!OverpaidIsStopped)
<1> DEFINE J == part = "verdicts" => VerdictsInv
           P == part = "verdicts" /\ v2 # <<>> =>
                    Verdicts!LessIsNotKinder /\ Verdicts!OverpaidIsStopped
<1>1. J => P BY DEF VerdictsInv
<1>2. MCSpec => []J BY VerdictsStay
<1> HIDE DEF J, P
<1>3. MCSpec => []P BY <1>1, <1>2, PTL
<1> QED BY <1>3 DEF P

(* services/recommendation_rules.py: with the lines in the order of the      *)
(* defaults, what is blamed for its cost is not labelled cheap either.       *)
THEOREM DearerIsNeverKinder == ASSUME LinesInOrder PROVE MCSpec => []DearerIsNotKinder
<1> DEFINE J == part = "verdicts" => VerdictsInv
<1>1. J => DearerIsNotKinder
  BY DEF VerdictsInv, DearerIsNotKinder, Verdicts!DearerIsNotKinder
<1>2. MCSpec => []J BY VerdictsStay
<1> HIDE DEF J
<1> QED BY <1>1, <1>2, PTL

(***************************************************************************)
(* The threshold that people's rulings suggest.                            *)
(***************************************************************************)
(* Scores and rulings are about pairs; thresholds are numbers.              *)
RulingsInv ==
    /\ v1 \in [Compared -> Nat] /\ v2 \in Seq(Compared) /\ v3 \in Seq(Compared)
    /\ v4 \in Thresholds \cup {Calibration!NoSuggestion}

(* The labels by what any order of reading gives: a split stays.            *)
Ruling == [pair : Compared, label : {"merge", "split"}]
Label == {"none", "merge", "split"}
IsLabelling(g, R) ==
    g = [s \in SUBSET (DOMAIN R) |->
            IF s = {} THEN [p \in Compared |-> "none"]
            ELSE Calibration!Read(g[s \ {Calibration!Max(s)}], R[Calibration!Max(s)])]

LEMMA LastOfAll ==
    ASSUME NEW n \in Nat, NEW s \in SUBSET (1..n), s # {}
    PROVE  Calibration!Max(s) \in s
<1> DEFINE T == {n - x : x \in s}
<1>1. T \subseteq Nat /\ T # {}
  <2>1. \A x \in s : n - x \in Nat OBVIOUS
  <2>2. T \subseteq Nat BY <2>1
  <2>3. PICK x \in s : TRUE OBVIOUS
  <2>4. n - x \in T BY <2>3
  <2> QED BY <2>2, <2>4
<1>2. PICK y \in T : \A z \in T : y <= z BY <1>1, LeastNumber
<1>3. PICK x \in s : y = n - x BY <1>2
<1>4. \A z \in s : x >= z
  <2> SUFFICES ASSUME NEW z \in s PROVE x >= z OBVIOUS
  <2>1. n - z \in T OBVIOUS
  <2>2. n - x <= n - z BY <1>2, <1>3, <2>1
  <2> QED BY <2>2
<1> HIDE DEF T
<1>5. \E z \in s : \A u \in s : z >= u BY <1>4
<1>6. Calibration!Max(s) = CHOOSE z \in s : \A u \in s : z >= u BY DEF Calibration!Max
<1> QED BY <1>5, <1>6

LEMMA LabellingExists ==
    ASSUME NEW R \in Seq(Ruling)
    PROVE  \E g \in [SUBSET (DOMAIN R) -> [Compared -> Label]] : IsLabelling(g, R)
<1> DEFINE D == DOMAIN R
           T == [Compared -> Label]
           none == [p \in Compared |-> "none"]
           f == [q \in D \X T |-> Calibration!Read(q[2], R[q[1]])]
           first == [s \in SUBSET D |-> IF s = {} THEN 0 ELSE Calibration!Max(s)]
<1>1. D = 1..Len(R) /\ Len(R) \in Nat /\ \A i \in D : R[i] \in Ruling BY LenProperties
<1>2. IsFiniteSet(D) BY <1>1, FS_Interval
<1>3. none \in T BY DEF Label
<1>4. ASSUME NEW i \in D, NEW l \in T PROVE Calibration!Read(l, R[i]) \in T
  <2>1. R[i].label \in Label /\ R[i].pair \in Compared BY <1>1 DEF Ruling, Label
  <2> QED BY <2>1 DEF Calibration!Read
<1>5. f \in [D \X T -> T] BY <1>4
<1>6. \A s \in SUBSET D : s # {} => first[s] \in s /\ first[s] = Calibration!Max(s)
  BY <1>1, LastOfAll
<1>7. PICK g \in [SUBSET D -> T] : IsFold(g, D, none, f, first)
  <2> HIDE DEF f, first, none, T, D
  <2> QED BY <1>2, <1>3, <1>5, <1>6, FoldExists
<1>8. ASSUME NEW s \in SUBSET D
      PROVE  g[s] = IF s = {} THEN none
                    ELSE Calibration!Read(g[s \ {Calibration!Max(s)}], R[Calibration!Max(s)])
  <2>1. g[s] = IF s = {} THEN none ELSE f[<<first[s], g[s \ {first[s]}]>>] BY <1>7 DEF IsFold
  <2> SUFFICES ASSUME s # {}
               PROVE  f[<<first[s], g[s \ {first[s]}]>>]
                      = Calibration!Read(g[s \ {first[s]}], R[first[s]])
    BY <1>6, <2>1
  <2>2. first[s] \in D /\ g[s \ {first[s]}] \in T BY <1>6, <1>7
  <2> QED BY <2>2
<1>9. IsLabelling(g, R)
  <2>1. g = [s \in SUBSET D |-> g[s]] BY <1>7
  <2> QED BY <1>8, <2>1 DEF IsLabelling
<1> QED BY <1>7, <1>9

LEMMA LabellingTells ==
    ASSUME NEW R \in Seq(Ruling), NEW g, IsLabelling(g, R)
    PROVE  \A s \in SUBSET (DOMAIN R) : \A p \in Compared :
             /\ g[s] \in [Compared -> Label]
             /\ g[s][p] = "split" <=> \E i \in s : R[i].pair = p /\ R[i].label = "split"
             /\ g[s][p] # "none" <=> \E i \in s : R[i].pair = p
<1> DEFINE D == DOMAIN R
           Tells(s) == /\ g[s] \in [Compared -> Label]
                       /\ \A p \in Compared :
                            /\ g[s][p] = "split" <=> \E i \in s : R[i].pair = p /\ R[i].label = "split"
                            /\ g[s][p] # "none" <=> \E i \in s : R[i].pair = p
           Bad == {s \in SUBSET D : ~Tells(s)}
<1>1. D = 1..Len(R) /\ Len(R) \in Nat /\ \A i \in D : R[i] \in Ruling BY LenProperties
<1>2. \A s \in Bad : IsFiniteSet(s)
  <2>1. IsFiniteSet(D) BY <1>1, FS_Interval
  <2> HIDE DEF D
  <2> QED BY <2>1, FS_Subset
<1>3. SUFFICES ASSUME Bad # {} PROVE FALSE
  <2>1. \A s \in SUBSET D : Tells(s) BY <1>3
  <2> HIDE DEF D
  <2> QED BY <2>1 DEF D
<1>4. PICK s \in Bad : \A t \in Bad : t \subseteq s => t = s
  <2> HIDE DEF Bad
  <2> QED BY <1>2, <1>3, SmallestSet
<1> DEFINE m == Calibration!Max(s)
           r == s \ {m}
<1>5. g[s] = IF s = {} THEN [p \in Compared |-> "none"] ELSE Calibration!Read(g[r], R[m])
  BY <1>4 DEF IsLabelling
<1>6. CASE s = {}
  <2>1. g[s] = [p \in Compared |-> "none"] BY <1>5, <1>6
  <2>2. Tells(s) BY <1>6, <2>1 DEF Label
  <2> QED BY <1>4, <2>2
<1>7. CASE s # {}
  <2>1. m \in s BY <1>1, <1>4, <1>7, LastOfAll
  <2>2. Tells(r)
    <3>1. r \in SUBSET D /\ r \subseteq s /\ r # s BY <1>4, <2>1
    <3>2. r \notin Bad BY <1>4, <3>1
    <3> QED BY <3>1, <3>2
  <2>3. R[m] \in Ruling BY <1>1, <1>4, <2>1
  <2> HIDE DEF m
  <2>4. s = r \cup {m} BY <2>1
  <2> DEFINE q == R[m].pair
             l == R[m].label
  <2>5. q \in Compared /\ l \in {"merge", "split"} BY <2>3 DEF Ruling
  <2>6. g[r] \in [Compared -> Label] BY <2>2
  <2>7. g[s] = IF g[r][q] = "split" THEN g[r] ELSE [g[r] EXCEPT ![q] = l]
    BY <1>5, <1>7 DEF Calibration!Read
  <2>8. g[s] \in [Compared -> Label] BY <2>5, <2>6, <2>7 DEF Label
  <2>9. ASSUME NEW p \in Compared
        PROVE  /\ g[s][p] = "split" <=> \E i \in s : R[i].pair = p /\ R[i].label = "split"
               /\ g[s][p] # "none" <=> \E i \in s : R[i].pair = p
    <3>1. /\ g[r][p] = "split" <=> \E i \in r : R[i].pair = p /\ R[i].label = "split"
          /\ g[r][p] # "none" <=> \E i \in r : R[i].pair = p
      BY <2>2
    <3>2. /\ (\E i \in s : R[i].pair = p /\ R[i].label = "split")
               <=> (\E i \in r : R[i].pair = p /\ R[i].label = "split") \/ (q = p /\ l = "split")
          /\ (\E i \in s : R[i].pair = p) <=> (\E i \in r : R[i].pair = p) \/ q = p
      BY <2>4
    <3>3. CASE p = q /\ g[r][q] # "split"
      <4>1. g[s][p] = l BY <2>6, <2>7, <3>3
      <4> QED BY <2>5, <3>1, <3>2, <3>3, <4>1
    <3>4. CASE p # q \/ g[r][q] = "split"
      <4>1. g[s][p] = g[r][p] BY <2>6, <2>7, <3>4
      <4> QED BY <3>1, <3>2, <3>4, <4>1
    <3> QED BY <3>3, <3>4
  <2> QED BY <1>4, <2>8, <2>9
<1> QED BY <1>6, <1>7

(* The records are the merges, then the splits.                             *)
LEMMA RecordsAreThese ==
    ASSUME RulingsInv
    PROVE  /\ Calibration!Records \in Seq(Ruling)
           /\ \A p \in Compared :
                /\ (\E i \in DOMAIN Calibration!Records :
                       Calibration!Records[i].pair = p /\ Calibration!Records[i].label = "split")
                   <=> Calibration!Kept(p)
                /\ (\E i \in DOMAIN Calibration!Records : Calibration!Records[i].pair = p)
                   <=> Calibration!Kept(p) \/ Calibration!Joined(p)
<1> DEFINE joins == [i \in DOMAIN v2 |-> [pair |-> v2[i], label |-> "merge"]]
           keeps == [i \in DOMAIN v3 |-> [pair |-> v3[i], label |-> "split"]]
           R == joins \o keeps
<1>1. /\ DOMAIN v2 = 1..Len(v2) /\ Len(v2) \in Nat /\ \A i \in DOMAIN v2 : v2[i] \in Compared
      /\ DOMAIN v3 = 1..Len(v3) /\ Len(v3) \in Nat /\ \A i \in DOMAIN v3 : v3[i] \in Compared
  BY LenProperties DEF RulingsInv
<1>2. joins \in Seq(Ruling) /\ keeps \in Seq(Ruling) /\ Len(joins) = Len(v2) /\ Len(keeps) = Len(v3)
  <2>1. \A i \in DOMAIN v2 : joins[i] \in Ruling BY <1>1 DEF Ruling
  <2>2. \A i \in DOMAIN v3 : keeps[i] \in Ruling BY <1>1 DEF Ruling
  <2>3. joins \in [1..Len(v2) -> Ruling] /\ keeps \in [1..Len(v3) -> Ruling] BY <1>1, <2>1, <2>2
  <2> HIDE DEF joins, keeps
  <2>4. joins \in Seq(Ruling) /\ keeps \in Seq(Ruling) BY <1>1, <2>3, SeqDef
  <2> QED BY <1>1, <2>3, <2>4, LenProperties
<1>3. /\ \A i \in DOMAIN v2 : joins[i].pair = v2[i] /\ joins[i].label = "merge"
      /\ \A i \in DOMAIN v3 : keeps[i].pair = v3[i] /\ keeps[i].label = "split"
  OBVIOUS
<1> HIDE DEF joins, keeps
<1>4. /\ R \in Seq(Ruling) /\ Len(R) = Len(v2) + Len(v3)
      /\ \A i \in 1..Len(v2) : R[i] = joins[i]
      /\ \A i \in 1..Len(v3) : R[Len(v2) + i] = keeps[i]
  <2>2. /\ joins \o keeps \in Seq(Ruling) /\ Len(joins \o keeps) = Len(joins) + Len(keeps)
        /\ \A i \in 1..Len(joins) : (joins \o keeps)[i] = joins[i]
        /\ \A i \in 1..Len(keeps) : (joins \o keeps)[Len(joins) + i] = keeps[i]
    <3>1. joins \in Seq(Ruling) /\ keeps \in Seq(Ruling) BY <1>2
    <3>2. joins \o keeps \in Seq(Ruling) BY <3>1, Joined
    <3>3. Len(joins \o keeps) = Len(joins) + Len(keeps) BY <3>1, Joined
    <3>4. \A i \in 1..Len(joins) : (joins \o keeps)[i] = joins[i] BY <3>1, Joined
    <3>5. \A i \in 1..Len(keeps) : (joins \o keeps)[Len(joins) + i] = keeps[i] BY <3>1, Joined
    <3> QED BY <3>2, <3>3, <3>4, <3>5
  <2> QED BY <1>2, <2>2
<1>5. R = Calibration!Records BY DEF Calibration!Records, joins, keeps
<1>6. DOMAIN R = 1..(Len(v2) + Len(v3)) BY <1>4, LenProperties
<1> HIDE DEF R
<1>7. ASSUME NEW i \in DOMAIN R
      PROVE  \/ i \in DOMAIN v2 /\ R[i].pair = v2[i] /\ R[i].label = "merge"
             \/ \E j \in DOMAIN v3 : i = Len(v2) + j /\ R[i].pair = v3[j] /\ R[i].label = "split"
  <2>1. CASE i <= Len(v2) BY <1>1, <1>3, <1>4, <1>6, <1>7, <2>1
  <2>2. CASE ~(i <= Len(v2))
    <3>1. i - Len(v2) \in 1..Len(v3) /\ i = Len(v2) + (i - Len(v2)) BY <1>1, <1>6, <1>7, <2>2
    <3>2. R[Len(v2) + (i - Len(v2))] = keeps[i - Len(v2)] BY <1>4, <3>1
    <3> QED BY <1>1, <1>3, <3>1, <3>2
  <2> QED BY <2>1, <2>2
<1>8. ASSUME NEW i \in DOMAIN v2 PROVE i \in DOMAIN R /\ R[i].pair = v2[i]
  BY <1>1, <1>3, <1>4, <1>6
<1>9. ASSUME NEW j \in DOMAIN v3
      PROVE  /\ Len(v2) + j \in DOMAIN R
             /\ R[Len(v2) + j].pair = v3[j] /\ R[Len(v2) + j].label = "split"
  BY <1>1, <1>3, <1>4, <1>6
<1>10. ASSUME NEW p \in Compared
       PROVE  /\ (\E i \in DOMAIN R : R[i].pair = p /\ R[i].label = "split") <=> Calibration!Kept(p)
              /\ (\E i \in DOMAIN R : R[i].pair = p) <=> Calibration!Kept(p) \/ Calibration!Joined(p)
  <2>1. Calibration!Kept(p) <=> \E j \in DOMAIN v3 : v3[j] = p BY DEF Calibration!Kept
  <2>2. Calibration!Kept(p) \/ Calibration!Joined(p)
          <=> (\E j \in DOMAIN v3 : v3[j] = p) \/ (\E i \in DOMAIN v2 : v2[i] = p)
    BY <2>1 DEF Calibration!Joined
  <2> QED BY <1>7, <1>8, <1>9, <2>1, <2>2
<1> QED BY <1>4, <1>5, <1>10

(* So a pair is labelled by the rulings, a split over any merge.             *)
LEMMA LabelsAreRulings ==
    ASSUME RulingsInv, NEW p \in Compared
    PROVE  /\ Calibration!Labels[p] = "split" <=> Calibration!Kept(p)
           /\ Calibration!Labels[p] = "merge" <=> Calibration!Joined(p)
           /\ Calibration!Labels[p] \in Label
<1> DEFINE R == Calibration!Records
           D == DOMAIN R
           Is(g) == IsLabelling(g, R)
           g == CHOOSE h : Is(h)
<1>1. R \in Seq(Ruling) BY RecordsAreThese
<1>2. Calibration!Labels = g[D]
  <2> DEFINE Reads(h) == h = [s \in SUBSET D |->
                 IF s = {} THEN [q \in Compared |-> "none"]
                 ELSE Calibration!Read(h[s \ {Calibration!Max(s)}], R[Calibration!Max(s)])]
  <2>1. \A h : Is(h) <=> Reads(h) BY DEF IsLabelling
  <2>2. Calibration!Labels = (CHOOSE h : Reads(h))[D]
    BY DEF Calibration!Labels, Calibration!FoldLeft, Calibration!MapThenFoldSet
  <2> HIDE DEF Reads, Is
  <2>3. (CHOOSE h : Reads(h)) = CHOOSE h : Is(h) BY <2>1
  <2> QED BY <2>2, <2>3
<1> HIDE DEF R
<1>3. Is(g) BY <1>1, LabellingExists
<1> HIDE DEF g
<1>4. /\ g[D] \in [Compared -> Label]
      /\ g[D][p] = "split" <=> \E i \in D : R[i].pair = p /\ R[i].label = "split"
      /\ g[D][p] # "none" <=> \E i \in D : R[i].pair = p
  BY <1>1, <1>3, LabellingTells
<1>5. /\ g[D][p] = "split" <=> Calibration!Kept(p)
      /\ g[D][p] # "none" <=> Calibration!Kept(p) \/ Calibration!Joined(p)
  BY <1>4, RecordsAreThese DEF R
<1>6. g[D][p] \in Label BY <1>4
<1>7. Calibration!Joined(p) => ~Calibration!Kept(p) BY DEF Calibration!Joined
<1> QED BY <1>2, <1>5, <1>6, <1>7 DEF Label

LEMMA SamePairCount == \A S : Calibration!Cardinality(S) = Cardinality(S)
BY DEF Calibration!Cardinality, Cardinality

(* F1 is what the rulings say it is.                                        *)
LEMMA FractionsAreThese ==
    ASSUME RulingsInv, NEW t \in Nat
    PROVE  /\ Calibration!Right(t) \in Nat /\ Calibration!All(t) \in Nat
           /\ Calibration!Top(t) = 2 * Calibration!Right(t)
           /\ Calibration!Bottom(t) = Calibration!All(t)
           /\ Calibration!Enough <=> Calibration!Known
           /\ Calibration!Enough => Calibration!All(t) > 0
<1> DEFINE J == {p \in Compared : Calibration!Joined(p)}
           K == {p \in Compared : Calibration!Kept(p)}
           right == {p \in Compared : Calibration!Joined(p) /\ v1[p] >= t}
           missed == {p \in Compared : Calibration!Joined(p) /\ v1[p] < t}
           wrong == {p \in Compared : Calibration!Kept(p) /\ v1[p] >= t}
<1>1. /\ Calibration!Labelled("merge") = J /\ Calibration!Labelled("split") = K
      /\ Calibration!Recalled(t) = right \cup wrong
      /\ \A p \in Compared : ~(Calibration!Joined(p) /\ Calibration!Kept(p))
      /\ \A p \in Compared : v1[p] \in Nat
  <2>1. \A p \in Compared : /\ Calibration!Labels[p] = "split" <=> Calibration!Kept(p)
                            /\ Calibration!Labels[p] = "merge" <=> Calibration!Joined(p)
                            /\ Calibration!Labels[p] \in {"none", "merge", "split"}
    BY LabelsAreRulings DEF Label
  <2>2. Calibration!Labelled("merge") = J /\ Calibration!Labelled("split") = K
    BY <2>1 DEF Calibration!Labelled
  <2>3. Calibration!Recalled(t) = right \cup wrong BY <2>1 DEF Calibration!Recalled
  <2>4. \A p \in Compared : ~(Calibration!Joined(p) /\ Calibration!Kept(p))
    BY DEF Calibration!Joined
  <2> QED BY <2>2, <2>3, <2>4 DEF RulingsInv
<1>2. /\ J \cap K = {} /\ right \cap missed = {} /\ right \cup missed = J /\ right \cap wrong = {}
      /\ (right \cup wrong) \cap J = right
      /\ J \cup K = {p \in Compared : Calibration!Joined(p) \/ Calibration!Kept(p)}
  BY <1>1
<1>3. /\ IsFiniteSet(J) /\ IsFiniteSet(K) /\ IsFiniteSet(right) /\ IsFiniteSet(missed)
      /\ IsFiniteSet(wrong)
  BY CalibrationAssumption, FS_Subset
<1>4. /\ Calibration!Right(t) = Cardinality(right) /\ Calibration!Missed(t) = Cardinality(missed)
      /\ Calibration!Wrong(t) = Cardinality(wrong)
  BY SamePairCount DEF Calibration!Right, Calibration!Missed, Calibration!Wrong
<1>5. Calibration!Enough <=> Calibration!Known
  BY <1>1, <1>2, SamePairCount DEF Calibration!Enough, Calibration!Known
<1>6. Calibration!Enough => J # {} BY <1>1 DEF Calibration!Enough
<1>7. /\ Calibration!Top(t) = 2 * Cardinality((right \cup wrong) \cap J)
      /\ Calibration!Bottom(t) = Cardinality(right \cup wrong) + Cardinality(J)
  BY <1>1, SamePairCount DEF Calibration!Top, Calibration!Bottom
<1> HIDE DEF J, K, right, missed, wrong
<1>8. /\ Cardinality(J) \in Nat /\ Cardinality(right) \in Nat /\ Cardinality(missed) \in Nat
      /\ Cardinality(wrong) \in Nat
  BY <1>3, FS_CardinalityType
<1>9. Cardinality(right \cup wrong) = Cardinality(right) + Cardinality(wrong)
  <2>1. IsFiniteSet(right) /\ IsFiniteSet(wrong) BY <1>3
  <2>2. Cardinality(right \cup wrong)
          = Cardinality(right) + Cardinality(wrong) - Cardinality(right \cap wrong)
    BY <2>1, FS_Union
  <2>3. Cardinality(right \cap wrong) = 0 BY <1>2, FS_EmptySet
  <2> QED BY <1>8, <2>2, <2>3
<1>10. Cardinality(J) = Cardinality(right) + Cardinality(missed)
  <2>1. IsFiniteSet(right) /\ IsFiniteSet(missed) BY <1>3
  <2>2. Cardinality(right \cup missed)
          = Cardinality(right) + Cardinality(missed) - Cardinality(right \cap missed)
    BY <2>1, FS_Union
  <2>3. Cardinality(right \cap missed) = 0 /\ right \cup missed = J BY <1>2, FS_EmptySet
  <2> QED BY <1>8, <2>2, <2>3
<1>11. J # {} => Cardinality(J) > 0 BY <1>3, <1>8, FS_EmptySet
<1> DEFINE r == Cardinality(right)
           m == Cardinality(missed)
           w == Cardinality(wrong)
<1>12. r \in Nat /\ m \in Nat /\ w \in Nat BY <1>8
<1>13. Calibration!All(t) = 2 * r + m + w BY <1>4 DEF Calibration!All
<1>14. Calibration!Top(t) = 2 * r /\ Calibration!Bottom(t) = (r + w) + (r + m)
  BY <1>2, <1>7, <1>9, <1>10
<1>15. J # {} => r + m > 0 BY <1>10, <1>11
<1>16. Calibration!Right(t) = r BY <1>4
<1> HIDE DEF r, m, w
<1>17. (r + w) + (r + m) = 2 * r + m + w /\ 2 * r + m + w \in Nat BY <1>12
<1>18. J # {} => 2 * r + m + w > 0 BY <1>12, <1>15
<1> QED BY <1>5, <1>6, <1>12, <1>13, <1>14, <1>16, <1>17, <1>18

(* Beating, in terms of the rulings.                                        *)
LEMMA BeatsIsThis ==
    ASSUME RulingsInv, NEW s \in Nat, NEW t \in Nat
    PROVE  Calibration!Beats(s, t)
           <=> Calibration!Right(s) * Calibration!All(t) > Calibration!Right(t) * Calibration!All(s)
<1> DEFINE x == Calibration!Right(s)
           y == Calibration!Right(t)
           a == Calibration!All(s)
           b == Calibration!All(t)
<1>1. /\ x \in Nat /\ y \in Nat /\ a \in Nat /\ b \in Nat
      /\ Calibration!Top(s) = 2 * x /\ Calibration!Top(t) = 2 * y
      /\ Calibration!Bottom(s) = a /\ Calibration!Bottom(t) = b
  BY FractionsAreThese
<1>2. Calibration!Beats(s, t) <=> (2 * x) * b > (2 * y) * a BY <1>1 DEF Calibration!Beats
<1> HIDE DEF x, y, a, b
<1>3. (2 * x) * b = 2 * (x * b) /\ (2 * y) * a = 2 * (y * a) BY <1>1
<1>4. x * b \in Nat /\ y * a \in Nat BY <1>1
<1> QED BY <1>2, <1>3, <1>4 DEF x, y, a, b

(* What gains no more over the best gains no more over any.                 *)
LEMMA GainsAreOrdered ==
    ASSUME NEW x \in Nat, NEW y \in Nat, NEW z \in Nat,
           NEW a \in Nat, NEW b \in Nat, NEW c \in Nat, b > 0, NEW m \in Nat,
           x * b <= y * a,
           200 * (y * c - z * b) <= m * (b * c)
    PROVE  200 * (x * c - z * a) <= m * (a * c)
<1> DEFINE xc == x * c
           za == z * a
           ac == a * c
<1>1. xc \in Nat /\ za \in Nat /\ ac \in Nat OBVIOUS
<1>2. (x * b) * c <= (y * a) * c OBVIOUS
<1>3. (x * b) * c = b * xc /\ (y * a) * c = a * (y * c) OBVIOUS
<1>4. a * (200 * (y * c - z * b)) <= a * (m * (b * c))
  <2> DEFINE l == 200 * (y * c - z * b)
             r == m * (b * c)
  <2>1. l \in Int /\ r \in Int /\ l <= r OBVIOUS
  <2> HIDE DEF l, r
  <2>2. a * l <= a * r BY <2>1
  <2> QED BY <2>2 DEF l, r
<1>5. /\ a * (200 * (y * c - z * b)) = 200 * (a * (y * c)) - 200 * (b * za)
      /\ a * (m * (b * c)) = b * (m * ac)
  OBVIOUS
<1>6. 200 * (b * xc) - 200 * (b * za) <= b * (m * ac)
  <2> DEFINE u == b * xc
             v == b * za
             w == a * (y * c)
             r == b * (m * ac)
  <2>1. u \in Nat /\ v \in Nat /\ w \in Nat /\ r \in Nat BY <1>1
  <2>2. u <= w BY <1>2, <1>3
  <2>3. 200 * w - 200 * v <= r BY <1>4, <1>5
  <2> HIDE DEF u, v, w, r
  <2>4. 200 * u - 200 * v <= r BY <2>1, <2>2, <2>3
  <2> QED BY <2>4 DEF u, v, r
<1> DEFINE p == 200 * (xc - za)
           q == m * ac
<1>7. p \in Int /\ q \in Int BY <1>1
<1>8. b * p = 200 * (b * xc) - 200 * (b * za) BY <1>1
<1>9. b * p <= b * q BY <1>6, <1>8
<1> HIDE DEF p, q
<1>10. SUFFICES ASSUME p > q PROVE FALSE BY <1>7 DEF p, q, xc, za, ac
<1>11. p >= q + 1 BY <1>7, <1>10
<1>12. b * p >= b * (q + 1) BY <1>7, <1>11
<1>13. b * (q + 1) = b * q + b BY <1>7
<1>14. b * p \in Int /\ b * q \in Int BY <1>7
<1> QED BY <1>9, <1>12, <1>13, <1>14

LEMMA SuggestionsSettle ==
    ASSUME RulingsInv
    PROVE  Calibration!SuggestStep
<1> DEFINE none == Calibration!NoSuggestion
           now == Value(Current)
<1> SUFFICES ASSUME Calibration!SuggestThreshold
             PROVE  IF v4' # none
                    THEN \A t \in Thresholds : Calibration!Lead(Float(t), Float(v4')) <= 0
                    ELSE Calibration!Known => \A t \in Thresholds :
                         Calibration!Lead(Float(t), now)
                         <= MinGain * (Calibration!All(Float(t)) * Calibration!All(now))
  BY DEF Calibration!SuggestStep
<1>1. /\ now \in Nat /\ \A t \in Thresholds : t \in Nat /\ Float(t) \in Nat
      /\ Float(Current) = now /\ MinGain \in Nat
  BY CalibrationAssumption
<1>2. /\ Calibration!Best \subseteq Thresholds
      /\ \A t \in Calibration!Best : \A s \in Thresholds : ~Calibration!Beats(Float(s), Float(t))
  BY DEF Calibration!Best
<1>3. \A u, v \in Nat : Calibration!Lead(u, v)
          = 200 * (Calibration!Right(u) * Calibration!All(v) - Calibration!Right(v) * Calibration!All(u))
  BY DEF Calibration!Lead
<1>4. ASSUME NEW u \in Nat
      PROVE  /\ Calibration!Right(u) \in Nat /\ Calibration!All(u) \in Nat
             /\ Calibration!Enough => Calibration!All(u) > 0
             /\ Calibration!Top(u) = 2 * Calibration!Right(u)
             /\ Calibration!Bottom(u) = Calibration!All(u)
  BY FractionsAreThese
<1>5. ASSUME NEW u \in Nat, NEW v \in Nat, ~Calibration!Beats(u, v)
      PROVE  /\ Calibration!Right(u) * Calibration!All(v) <= Calibration!Right(v) * Calibration!All(u)
             /\ Calibration!Lead(u, v) <= 0
  <2> DEFINE x == Calibration!Right(u) * Calibration!All(v)
             y == Calibration!Right(v) * Calibration!All(u)
  <2>1. x \in Nat /\ y \in Nat BY <1>4
  <2>2. ~(x > y) BY <1>5, BeatsIsThis
  <2>3. Calibration!Lead(u, v) = 200 * (x - y) BY <1>3
  <2> HIDE DEF x, y
  <2>4. x <= y /\ 200 * (x - y) <= 0 BY <2>1, <2>2
  <2> QED BY <2>3, <2>4 DEF x, y
<1>6. CASE v4' # none
  <2>1. v4' \in Calibration!Best BY <1>6 DEF Calibration!SuggestThreshold
  <2> QED BY <1>1, <1>2, <1>5, <1>6, <2>1
<1>7. CASE v4' = none /\ Calibration!Known
  <2>1. Calibration!Enough BY <1>1, <1>7, FractionsAreThese
  <2>2. \A t \in Calibration!Best : t # none BY <1>1, <1>2 DEF Calibration!NoSuggestion
  <2>3. PICK best \in Calibration!Best :
            best = Current \/ Calibration!Ahead(Float(best), now) <= Calibration!Noise(Float(best), now)
    BY <1>7, <2>1, <2>2 DEF Calibration!SuggestThreshold
  <2>4. best \in Thresholds /\ Float(best) \in Nat BY <1>1, <1>2
  <2> SUFFICES ASSUME NEW t \in Thresholds
               PROVE  Calibration!Lead(Float(t), now)
                      <= MinGain * (Calibration!All(Float(t)) * Calibration!All(now))
    BY <1>7
  <2> DEFINE x == Calibration!Right(Float(t))
             y == Calibration!Right(Float(best))
             z == Calibration!Right(now)
             a == Calibration!All(Float(t))
             b == Calibration!All(Float(best))
             c == Calibration!All(now)
  <2>5. /\ x \in Nat /\ y \in Nat /\ z \in Nat /\ a \in Nat /\ b \in Nat /\ c \in Nat
        /\ b > 0 /\ c > 0 /\ MinGain \in Nat /\ Float(t) \in Nat
    BY <1>1, <1>4, <2>1, <2>4
  <2>6. x * b <= y * a /\ Calibration!Lead(Float(t), Float(best)) <= 0
    BY <1>2, <1>5, <2>4, <2>5
  <2>7. CASE best = Current
    <3>1. a * c \in Nat /\ MinGain * (a * c) \in Nat
      <4> HIDE DEF a, c
      <4> QED BY <2>5
    <3>2. MinGain * (a * c) >= 0
      <4> HIDE DEF a, c
      <4> QED BY <3>1
    <3>3. Calibration!Lead(Float(t), now) <= 0 BY <1>1, <2>6, <2>7
    <3>4. Calibration!Lead(Float(t), now) \in Int
      <4>1. Calibration!Lead(Float(t), now) = 200 * (x * c - z * a) BY <1>1, <1>3, <2>5
      <4> HIDE DEF x, z, a, c
      <4> QED BY <2>5, <4>1
    <3>5. MinGain * (a * c) \in Int BY <3>1
    <3> DEFINE lead == Calibration!Lead(Float(t), now)
               gain == MinGain * (a * c)
    <3>6. lead \in Int /\ gain \in Int /\ lead <= 0 /\ gain >= 0 BY <3>2, <3>3, <3>4, <3>5
    <3> HIDE DEF lead, gain
    <3>7. lead <= gain BY <3>6
    <3> QED BY <3>7 DEF lead, gain
  <2>8. CASE Calibration!Ahead(Float(best), now) <= Calibration!Noise(Float(best), now)
    <3>1. 100 * (Calibration!Top(Float(best)) * Calibration!Bottom(now)
                 - Calibration!Top(now) * Calibration!Bottom(Float(best)))
            <= MinGain * (Calibration!Bottom(Float(best)) * Calibration!Bottom(now))
      BY <2>8 DEF Calibration!Ahead, Calibration!Noise
    <3>2. 100 * ((2 * y) * c - (2 * z) * b) <= MinGain * (b * c) BY <1>1, <1>4, <2>4, <3>1
    <3>3. Calibration!Lead(Float(t), now) = 200 * (x * c - z * a) BY <1>1, <1>3, <2>5
    <3> HIDE DEF x, y, z, a, b, c
    <3>4. 100 * ((2 * y) * c - (2 * z) * b) = 200 * (y * c - z * b)
      <4>1. (2 * y) * c = 2 * (y * c) /\ (2 * z) * b = 2 * (z * b) BY <2>5
      <4>2. y * c \in Int /\ z * b \in Int BY <2>5
      <4> QED BY <4>1, <4>2
    <3>5. 200 * (y * c - z * b) <= MinGain * (b * c) BY <3>2, <3>4
    <3>6. 200 * (x * c - z * a) <= MinGain * (a * c) BY <2>5, <2>6, <3>5, GainsAreOrdered
    <3> QED BY <3>3, <3>6 DEF a, c
  <2> QED BY <2>3, <2>7, <2>8
<1> QED BY <1>6, <1>7

LEMMA RulingsKeep ==
    ASSUME RulingsInv, Calibration!Next
    PROVE  RulingsInv'
<1>1. CASE \E p \in Compared : Calibration!Merge(p)
  <2>1. PICK p \in Compared : Calibration!Merge(p) BY <1>1
  <2>2. v2' = Append(v2, p) /\ UNCHANGED <<v1, v3, v4>> BY <2>1 DEF Calibration!Merge
  <2>3. Append(v2, p) \in Seq(Compared) BY AppendProperties DEF RulingsInv
  <2> QED BY <2>2, <2>3 DEF RulingsInv
<1>2. CASE \E p \in Compared : Calibration!Split(p)
  <2>1. PICK p \in Compared : Calibration!Split(p) BY <1>2
  <2>2. v3' = Append(v3, p) /\ UNCHANGED <<v1, v2, v4>> BY <2>1 DEF Calibration!Split
  <2>3. Append(v3, p) \in Seq(Compared) BY AppendProperties DEF RulingsInv
  <2> QED BY <2>2, <2>3 DEF RulingsInv
<1>3. CASE Calibration!SuggestThreshold
  <2>1. v4' \in Thresholds \cup {Calibration!NoSuggestion}
    BY <1>3 DEF Calibration!SuggestThreshold, Calibration!Best
  <2> QED BY <1>3, <2>1 DEF RulingsInv, Calibration!SuggestThreshold, Calibration!NoSuggestion
<1> QED BY <1>1, <1>2, <1>3 DEF Calibration!Next

(* services/threshold_calibration.py: no float of the grid does better than   *)
(* the one that was tried for a suggestion, and where nothing is suggested   *)
(* none leads the threshold in force by more than the gain asked for.  For   *)
(* any pairs, scores, thresholds, floats near them, sample size and gain.   *)
THEOREM SuggestionsAreBest == MCSpec => CalibrationSettles
<1> DEFINE J == part = "calibration" => RulingsInv
           S == part = "calibration" => Calibration!SuggestStep
<1>1. MCInit => J
  <2> SUFFICES ASSUME MCInit, part = "calibration" PROVE RulingsInv OBVIOUS
  <2>1. Calibration!Init BY DEF MCInit
  <2>2. v1 \in [Compared -> Nat]
    <3>1. v1 \in [Compared -> Scores] BY <2>1 DEF Calibration!Init
    <3> QED BY <3>1, CalibrationAssumption
  <2>3. v2 = <<>> /\ v3 = <<>> /\ v4 = Calibration!NoSuggestion
    BY <2>1 DEF Calibration!Init
  <2>4. <<>> \in Seq(Compared) OBVIOUS
  <2> QED BY <2>2, <2>3, <2>4 DEF RulingsInv
<1>2. ASSUME J, [MCNext]_MCvars PROVE J' /\ S
  <2> SUFFICES ASSUME part = "calibration", RulingsInv
               PROVE  RulingsInv' /\ Calibration!SuggestStep
    BY <1>2 DEF MCNext, MCvars
  <2>1. Calibration!SuggestStep BY SuggestionsSettle
  <2>2. CASE Calibration!Next BY <2>1, <2>2, RulingsKeep
  <2>3. CASE UNCHANGED others
    <3>1. UNCHANGED <<v1, v2, v3, v4>> BY <2>3 DEF others, from3, from4
    <3> QED BY <2>1, <3>1 DEF RulingsInv
  <2> QED BY <1>2, <2>2, <2>3 DEF MCNext, MCvars, Other
<1>3. CalibrationSettles <=> [][S]_MCvars BY DEF CalibrationSettles
<1> HIDE DEF J, S
<1> QED BY <1>1, <1>2, <1>3, PTL DEF MCSpec

(***************************************************************************)
(* The words that are learnt from corrections.                             *)
(***************************************************************************)
(* Assignments and words are well formed.                                   *)
NoFamily == Words!None
Log == [creative : Analysed, auto : BOOLEAN, label : Themed \cup {NoFamily}]
Word == [target : Words!Targets, word : STRING]
WordsInv ==
    /\ v1 \in [Analysed -> Themed \cup {NoFamily}] /\ v2 \in Seq(Log)
    /\ v3 \subseteq Word /\ v4 \in [Words!Targets -> Seq(STRING)]
    /\ v6 \in [Confirmers -> [pc : {"idle", "write"}, on : SUBSET Word, words : Seq(STRING)]]

(* The walk over the logs, as a function of the logs that were read.         *)
Walk == [pending : [Analysed -> Themed \cup {NoFamily}], found : Seq(Analysed)]
Unwalked == [pending |-> [c \in Analysed |-> NoFamily], found |-> <<>>]
IsWalk(g, logs) ==
    g = [s \in SUBSET (DOMAIN logs) |->
            IF s = {} THEN Unwalked
            ELSE Words!After(g[s \ {Words!Max(s)}], logs[Words!Max(s)])]

LEMMA LastLog ==
    ASSUME NEW n \in Nat, NEW s \in SUBSET (1..n), s # {}
    PROVE  Words!Max(s) \in s /\ \A x \in s : x <= Words!Max(s)
<1> DEFINE T == {n - x : x \in s}
<1>1. T \subseteq Nat /\ T # {}
  <2>1. \A x \in s : n - x \in Nat OBVIOUS
  <2>2. T \subseteq Nat BY <2>1
  <2>3. PICK x \in s : TRUE OBVIOUS
  <2>4. n - x \in T BY <2>3
  <2> QED BY <2>2, <2>4
<1>2. PICK y \in T : \A z \in T : y <= z BY <1>1, LeastNumber
<1>3. PICK x \in s : y = n - x BY <1>2
<1>4. \A z \in s : x >= z
  <2> SUFFICES ASSUME NEW z \in s PROVE x >= z OBVIOUS
  <2>1. n - z \in T OBVIOUS
  <2>2. n - x <= n - z BY <1>2, <1>3, <2>1
  <2> QED BY <2>2
<1> HIDE DEF T
<1>5. \E z \in s : \A u \in s : z >= u BY <1>4
<1>6. Words!Max(s) = CHOOSE z \in s : \A u \in s : z >= u BY DEF Words!Max
<1>7. Words!Max(s) \in s /\ \A u \in s : Words!Max(s) >= u BY <1>5, <1>6
<1> QED BY <1>7

LEMMA ReadingOne ==
    ASSUME NEW acc \in Walk, NEW log \in Log
    PROVE  Words!After(acc, log) \in Walk
<1>1. /\ acc.pending \in [Analysed -> Themed \cup {NoFamily}] /\ acc.found \in Seq(Analysed)
      /\ acc = [pending |-> acc.pending, found |-> acc.found]
      /\ log.creative \in Analysed /\ log.label \in Themed \cup {NoFamily}
  BY DEF Walk, Log
<1>2. CASE log.label = NoFamily BY <1>2 DEF Words!After, NoFamily
<1>3. CASE log.label # NoFamily /\ log.auto
  <2>1. Words!After(acc, log) = [acc EXCEPT !.pending[log.creative] = log.label]
    BY <1>3 DEF Words!After, NoFamily
  <2>2. [acc EXCEPT !.pending[log.creative] = log.label]
          = [pending |-> [acc.pending EXCEPT ![log.creative] = log.label], found |-> acc.found]
    BY <1>1
  <2> QED BY <1>1, <2>1, <2>2 DEF Walk
<1>4. CASE log.label # NoFamily /\ ~log.auto
  <2> DEFINE rest == [acc.pending EXCEPT ![log.creative] = NoFamily]
             found == IF acc.pending[log.creative] \in {NoFamily, log.label} THEN acc.found
                      ELSE Append(acc.found, log.creative)
  <2>1. Words!After(acc, log) = [pending |-> rest, found |-> found]
    BY <1>4 DEF Words!After, Words!Answered, NoFamily
  <2>2. rest \in [Analysed -> Themed \cup {NoFamily}] BY <1>1
  <2>3. found \in Seq(Analysed) BY <1>1, AppendProperties
  <2> QED BY <2>1, <2>2, <2>3 DEF Walk
<1> QED BY <1>2, <1>3, <1>4

LEMMA WalkExists ==
    ASSUME NEW logs \in Seq(Log)
    PROVE  \E g \in [SUBSET (DOMAIN logs) -> Walk] : IsWalk(g, logs)
<1> DEFINE D == DOMAIN logs
           f == [q \in D \X Walk |-> Words!After(q[2], logs[q[1]])]
           first == [s \in SUBSET D |-> IF s = {} THEN 0 ELSE Words!Max(s)]
<1>1. D = 1..Len(logs) /\ Len(logs) \in Nat /\ \A i \in D : logs[i] \in Log BY LenProperties
<1>2. IsFiniteSet(D) BY <1>1, FS_Interval
<1>3. Unwalked \in Walk BY DEF Unwalked, Walk
<1>4. f \in [D \X Walk -> Walk] BY <1>1, ReadingOne
<1>5. \A s \in SUBSET D : s # {} => first[s] \in s /\ first[s] = Words!Max(s)
  BY <1>1, LastLog
<1>6. PICK g \in [SUBSET D -> Walk] : IsFold(g, D, Unwalked, f, first)
  <2> HIDE DEF f, first, D
  <2> QED BY <1>2, <1>3, <1>4, <1>5, FoldExists
<1>7. ASSUME NEW s \in SUBSET D
      PROVE  g[s] = IF s = {} THEN Unwalked
                    ELSE Words!After(g[s \ {Words!Max(s)}], logs[Words!Max(s)])
  <2>1. g[s] = IF s = {} THEN Unwalked ELSE f[<<first[s], g[s \ {first[s]}]>>] BY <1>6 DEF IsFold
  <2> SUFFICES ASSUME s # {}
               PROVE  f[<<first[s], g[s \ {first[s]}]>>]
                      = Words!After(g[s \ {first[s]}], logs[first[s]])
    BY <1>5, <2>1
  <2>2. first[s] \in D /\ g[s \ {first[s]}] \in Walk BY <1>5, <1>6
  <2> QED BY <2>2
<1>8. IsWalk(g, logs)
  <2>1. g = [s \in SUBSET D |-> g[s]] BY <1>6
  <2> QED BY <1>7, <2>1 DEF IsWalk
<1> QED BY <1>6, <1>8

(* The walk reads one log after the other.                                  *)
LEMMA WalkGoesOn ==
    ASSUME NEW logs \in Seq(Log), NEW g, IsWalk(g, logs)
    PROVE  /\ g[1..0] = Unwalked
           /\ \A n \in Nat : n + 1 \in DOMAIN logs =>
                  g[1..n + 1] = Words!After(g[1..n], logs[n + 1])
<1>1. DOMAIN logs = 1..Len(logs) /\ Len(logs) \in Nat BY LenProperties
<1>2. g[1..0] = Unwalked
  <2>1. 1..0 = {} OBVIOUS
  <2> QED BY <2>1 DEF IsWalk
<1>3. ASSUME NEW n \in Nat, n + 1 \in DOMAIN logs
      PROVE  g[1..n + 1] = Words!After(g[1..n], logs[n + 1])
  <2> DEFINE s == 1..n + 1
             m == Words!Max(s)
  <2>1. s \in SUBSET (DOMAIN logs) /\ s # {} /\ n + 1 \in Nat BY <1>1, <1>3
  <2>2. m \in s /\ \A x \in s : x <= m BY <2>1, LastLog
  <2>3. m = n + 1
    <3>1. n + 1 \in s OBVIOUS
    <3>2. n + 1 <= m BY <2>2, <3>1
    <3>3. m <= n + 1 /\ m \in Nat BY <2>2
    <3> QED BY <3>2, <3>3
  <2>4. s \ {n + 1} = 1..n OBVIOUS
  <2>5. g[s] = Words!After(g[s \ {m}], logs[m]) BY <2>1 DEF IsWalk
  <2> QED BY <2>3, <2>4, <2>5
<1> QED BY <1>2, <1>3

(* Of the first n logs: the automatic one that nobody answered yet, and the  *)
(* human ones that correct one.                                            *)
Unanswered(i, c, n) ==
    /\ v2[i].auto /\ Words!Labelled(i) /\ v2[i].creative = c
    /\ \A k \in (i + 1)..n : Words!Labelled(k) => v2[k].creative # c
CorrectedBy(n) == {j \in 1..n : \E i \in 1..n : Words!Corrects(i, j)}
WalkTells(acc, n) ==
    /\ acc \in Walk
    /\ \A c \in Analysed :
          /\ acc.pending[c] # NoFamily => \E i \in 1..n : Unanswered(i, c, n)
          /\ \A i \in 1..n : Unanswered(i, c, n) => acc.pending[c] = v2[i].label
    /\ IsFiniteSet(CorrectedBy(n)) /\ Len(acc.found) = Cardinality(CorrectedBy(n))
    /\ \A x \in DOMAIN acc.found : \E j \in CorrectedBy(n) : acc.found[x] = v2[j].creative

LEMMA ReadingTells ==
    ASSUME WordsInv, NEW n \in Nat, n + 1 \in DOMAIN v2, NEW acc, WalkTells(acc, n)
    PROVE  WalkTells(Words!After(acc, v2[n + 1]), n + 1)
<1> DEFINE m == n + 1
           log == v2[m]
           next == Words!After(acc, log)
           c == log.creative
<1>1. /\ DOMAIN v2 = 1..Len(v2) /\ Len(v2) \in Nat /\ \A i \in DOMAIN v2 : v2[i] \in Log
      /\ m \in Nat /\ m \in 1..m /\ 1..m = 1..n \cup {m} /\ m \notin 1..n
      /\ \A i \in 1..m : i \in DOMAIN v2
  BY LenProperties DEF WordsInv
<1>2. log \in Log /\ c \in Analysed /\ log.label \in Themed \cup {NoFamily} /\ log.auto \in BOOLEAN
  BY <1>1 DEF Log
<1>3. /\ acc \in Walk /\ acc.pending \in [Analysed -> Themed \cup {NoFamily}]
      /\ acc.found \in Seq(Analysed) /\ acc = [pending |-> acc.pending, found |-> acc.found]
  BY DEF WalkTells, Walk
<1>4. next \in Walk BY <1>2, <1>3, ReadingOne
<1>5. \A i \in 1..m : Words!Labelled(i) <=> v2[i].label # NoFamily
  BY DEF Words!Labelled, NoFamily
<1>6. ASSUME NEW i \in 1..n, NEW d \in Analysed
      PROVE  Unanswered(i, d, m) <=> Unanswered(i, d, n) /\ ~(log.label # NoFamily /\ c = d)
  <2>1. (i + 1)..m = (i + 1)..n \cup {m} BY <1>1
  <2>2. (\A k \in (i + 1)..m : Words!Labelled(k) => v2[k].creative # d)
          <=> /\ \A k \in (i + 1)..n : Words!Labelled(k) => v2[k].creative # d
              /\ Words!Labelled(m) => c # d
    BY <2>1
  <2> QED BY <1>1, <1>5, <2>2 DEF Unanswered
<1>7. ASSUME NEW d \in Analysed
      PROVE  Unanswered(m, d, m) <=> log.auto /\ log.label # NoFamily /\ c = d
  <2>1. (m + 1)..m = {} BY <1>1
  <2> QED BY <1>1, <1>5, <2>1 DEF Unanswered
<1>8. ASSUME NEW i \in 1..m
      PROVE  Words!Corrects(i, m)
             <=> /\ i \in 1..n /\ Unanswered(i, c, n)
                 /\ ~log.auto /\ log.label # NoFamily /\ v2[i].label # log.label
  <2>1. Words!Corrects(i, m)
          <=> /\ i < m /\ v2[i].auto /\ ~log.auto /\ Words!Labelled(i) /\ log.label # NoFamily
              /\ v2[i].creative = c /\ v2[i].label # log.label
              /\ \A k \in (i + 1)..(m - 1) : Words!Labelled(k) => v2[k].creative # v2[i].creative
    BY <1>1, <1>5 DEF Words!Corrects
  <2>2. m - 1 = n /\ (i < m <=> i \in 1..n) BY <1>1
  <2> QED BY <2>1, <2>2 DEF Unanswered
<1> DEFINE new == ~log.auto /\ log.label # NoFamily /\ acc.pending[c] \notin {NoFamily, log.label}
<1>9. (\E i \in 1..m : Words!Corrects(i, m)) <=> new
  <2>1. \A i \in 1..n : Unanswered(i, c, n) => acc.pending[c] = v2[i].label /\ v2[i].label # NoFamily
    BY <1>1, <1>2, <1>5 DEF WalkTells, Unanswered
  <2>2. acc.pending[c] # NoFamily => \E i \in 1..n : Unanswered(i, c, n) BY <1>2 DEF WalkTells
  <2> QED BY <1>1, <1>8, <2>1, <2>2
<1>10. CorrectedBy(m) = IF new THEN CorrectedBy(n) \cup {m} ELSE CorrectedBy(n)
  <2>1. ASSUME NEW j \in 1..n
        PROVE  (\E i \in 1..m : Words!Corrects(i, j)) <=> \E i \in 1..n : Words!Corrects(i, j)
    <3>1. ~Words!Corrects(m, j) BY <1>1 DEF Words!Corrects
    <3> QED BY <1>1, <3>1
  <2> HIDE DEF new, m
  <2> QED BY <1>1, <1>9, <2>1 DEF CorrectedBy
<1>11. /\ IsFiniteSet(CorrectedBy(n)) /\ Cardinality(CorrectedBy(n)) = Len(acc.found)
       /\ m \notin CorrectedBy(n) /\ Len(acc.found) \in Nat
  BY <1>1, <1>3, LenProperties DEF WalkTells, CorrectedBy
<1>12. ASSUME ~new, next.found = acc.found
       PROVE  /\ IsFiniteSet(CorrectedBy(m)) /\ Len(next.found) = Cardinality(CorrectedBy(m))
              /\ \A x \in DOMAIN next.found : \E j \in CorrectedBy(m) : next.found[x] = v2[j].creative
  BY <1>10, <1>12 DEF WalkTells
<1>13. CASE log.label = NoFamily
  <2>1. next = acc BY <1>13 DEF Words!After, NoFamily
  <2>2. ASSUME NEW d \in Analysed, NEW i \in 1..m
        PROVE  Unanswered(i, d, m) <=> i \in 1..n /\ Unanswered(i, d, n)
    BY <1>1, <1>6, <1>7, <1>13
  <2>3. ASSUME NEW d \in Analysed
        PROVE  /\ next.pending[d] # NoFamily => \E i \in 1..m : Unanswered(i, d, m)
               /\ \A i \in 1..m : Unanswered(i, d, m) => next.pending[d] = v2[i].label
    BY <1>1, <2>1, <2>2 DEF WalkTells
  <2> QED BY <1>4, <1>12, <1>13, <2>1, <2>3 DEF WalkTells
<1>14. CASE log.label # NoFamily /\ log.auto
  <2>1. next = [pending |-> [acc.pending EXCEPT ![c] = log.label], found |-> acc.found]
    <3>1. next = [acc EXCEPT !.pending[c] = log.label] BY <1>14 DEF Words!After, NoFamily
    <3> QED BY <1>3, <3>1
  <2>2. ASSUME NEW d \in Analysed
        PROVE  /\ next.pending[d] # NoFamily => \E i \in 1..m : Unanswered(i, d, m)
               /\ \A i \in 1..m : Unanswered(i, d, m) => next.pending[d] = v2[i].label
    <3>1. CASE d = c
      <4>1. next.pending[d] = log.label BY <1>2, <1>3, <2>1, <3>1
      <4>2. \A i \in 1..m : Unanswered(i, d, m) <=> i = m BY <1>1, <1>6, <1>7, <1>14, <3>1
      <4> QED BY <1>1, <4>1, <4>2
    <3>2. CASE d # c
      <4>1. next.pending[d] = acc.pending[d] BY <1>3, <2>1, <3>2
      <4>2. \A i \in 1..m : Unanswered(i, d, m) <=> i \in 1..n /\ Unanswered(i, d, n)
        BY <1>1, <1>6, <1>7, <3>2
      <4> QED BY <1>1, <4>1, <4>2 DEF WalkTells
    <3> QED BY <3>1, <3>2
  <2> QED BY <1>4, <1>12, <1>14, <2>1, <2>2 DEF WalkTells
<1>15. CASE log.label # NoFamily /\ ~log.auto
  <2>1. next = [pending |-> [acc.pending EXCEPT ![c] = NoFamily],
                found |-> IF new THEN Append(acc.found, c) ELSE acc.found]
    BY <1>15 DEF Words!After, Words!Answered, NoFamily
  <2>2. ASSUME NEW d \in Analysed
        PROVE  /\ next.pending[d] # NoFamily => \E i \in 1..m : Unanswered(i, d, m)
               /\ \A i \in 1..m : Unanswered(i, d, m) => next.pending[d] = v2[i].label
    <3>1. CASE d = c
      <4>1. next.pending[d] = NoFamily BY <1>2, <1>3, <2>1, <3>1
      <4>2. \A i \in 1..m : ~Unanswered(i, d, m) BY <1>1, <1>6, <1>7, <1>15, <3>1
      <4> QED BY <4>1, <4>2
    <3>2. CASE d # c
      <4>1. next.pending[d] = acc.pending[d] BY <1>3, <2>1, <3>2
      <4>2. \A i \in 1..m : Unanswered(i, d, m) <=> i \in 1..n /\ Unanswered(i, d, n)
        BY <1>1, <1>6, <1>7, <3>2
      <4> QED BY <1>1, <4>1, <4>2 DEF WalkTells
    <3> QED BY <3>1, <3>2
  <2>3. CASE ~new BY <1>4, <1>12, <2>1, <2>2, <2>3 DEF WalkTells
  <2>4. CASE new
    <3> DEFINE old == CorrectedBy(n)
               all == old \cup {m}
    <3>1. CorrectedBy(m) = all /\ next.found = Append(acc.found, c) BY <1>10, <2>1, <2>4
    <3>2. /\ IsFiniteSet(old) /\ m \notin old /\ Cardinality(old) = Len(acc.found)
          /\ \A x \in DOMAIN acc.found : \E j \in old : acc.found[x] = v2[j].creative
      BY <1>11 DEF WalkTells
    <3> HIDE DEF old, new, next
    <3>3. IsFiniteSet(all) /\ Cardinality(all) = Len(acc.found) + 1
      <4> HIDE DEF m
      <4> QED BY <3>2, FS_AddElement
    <3>4. /\ Len(next.found) = Len(acc.found) + 1 /\ DOMAIN next.found = 1..(Len(acc.found) + 1)
          /\ \A x \in 1..Len(acc.found) : next.found[x] = acc.found[x]
          /\ next.found[Len(acc.found) + 1] = c /\ DOMAIN acc.found = 1..Len(acc.found)
          /\ Len(acc.found) \in Nat
      BY <1>2, <1>3, <3>1, AppendProperties, LenProperties
    <3>5. ASSUME NEW x \in DOMAIN next.found
          PROVE  \E j \in all : next.found[x] = v2[j].creative
      <4>1. CASE x = Len(acc.found) + 1 BY <3>4, <4>1
      <4>2. CASE x # Len(acc.found) + 1
        <5>1. x \in 1..Len(acc.found) BY <3>4, <3>5, <4>2
        <5> QED BY <3>2, <3>4, <5>1
      <4> QED BY <4>1, <4>2
    <3> QED BY <1>4, <2>2, <3>1, <3>3, <3>4, <3>5 DEF WalkTells, next
  <2> QED BY <2>3, <2>4
<1> QED BY <1>2, <1>13, <1>14, <1>15

(* So there are as many corrections as corrected assignments, each of a      *)
(* creative that one is of.                                                *)
LEMMA CorrectionsAreThese ==
    ASSUME WordsInv
    PROVE  /\ Len(Words!Corrections) = Cardinality(Words!Corrected)
           /\ \A x \in DOMAIN Words!Corrections :
                  \E j \in Words!Corrected : Words!Corrections[x] = v2[j].creative
<1> DEFINE D == DOMAIN v2
           Is(g) == IsWalk(g, v2)
           g == CHOOSE h : Is(h)
<1>1. v2 \in Seq(Log) /\ D = 1..Len(v2) /\ Len(v2) \in Nat BY LenProperties DEF WordsInv
<1>2. Words!Corrections = g[D].found
  <2> DEFINE Reads(h) == h = [s \in SUBSET D |->
                 IF s = {} THEN [pending |-> [c \in Analysed |-> Words!None], found |-> <<>>]
                 ELSE Words!After(h[s \ {Words!Max(s)}], v2[Words!Max(s)])]
  <2>1. \A h : Is(h) <=> Reads(h) BY DEF IsWalk, Unwalked, NoFamily
  <2>2. Words!Corrections = (CHOOSE h : Reads(h))[D].found
    BY DEF Words!Corrections, Words!FoldLeft, Words!MapThenFoldSet
  <2> HIDE DEF Reads, Is
  <2>3. (CHOOSE h : Reads(h)) = CHOOSE h : Is(h) BY <2>1
  <2> QED BY <2>2, <2>3
<1>3. Is(g)
  <2>1. \E h : Is(h) BY <1>1, WalkExists
  <2> QED BY <2>1
<1> HIDE DEF g
<1> DEFINE Bad == {n \in 0..Len(v2) : ~WalkTells(g[1..n], n)}
<1>4. Bad = {}
  <2> SUFFICES ASSUME Bad # {} PROVE FALSE OBVIOUS
  <2>1. PICK n \in Bad : \A m \in Bad : n <= m
    <3>1. Bad \subseteq Nat BY <1>1
    <3> HIDE DEF Bad
    <3> QED BY <3>1, LeastNumber
  <2>2. n \in Nat /\ n <= Len(v2) /\ ~WalkTells(g[1..n], n) BY <1>1, <2>1
  <2>3. CASE n = 0
    <3>1. g[1..0] = Unwalked BY <1>1, <1>3, WalkGoesOn
    <3>2. 1..0 = {} OBVIOUS
    <3>3. CorrectedBy(0) = {} BY <3>2 DEF CorrectedBy
    <3>4. Unwalked \in Walk /\ Unwalked.found = <<>> /\ Len(<<>>) = 0 /\ DOMAIN <<>> = {}
          /\ \A c \in Analysed : Unwalked.pending[c] = NoFamily
      BY DEF Unwalked, Walk
    <3>5. WalkTells(Unwalked, 0) BY <3>2, <3>3, <3>4, FS_EmptySet DEF WalkTells
    <3> QED BY <2>2, <2>3, <3>1, <3>5
  <2>4. CASE n # 0
    <3> DEFINE m == n - 1
    <3>1. m \in Nat /\ m + 1 = n /\ m \in 0..Len(v2) /\ ~(n <= m) /\ m + 1 \in D
      BY <1>1, <2>2, <2>4
    <3> HIDE DEF m
    <3>2. WalkTells(g[1..m], m) BY <2>1, <3>1
    <3>3. g[1..m + 1] = Words!After(g[1..m], v2[m + 1]) BY <1>1, <1>3, <3>1, WalkGoesOn
    <3>4. WalkTells(g[1..m + 1], m + 1) BY <3>1, <3>2, <3>3, ReadingTells
    <3> QED BY <2>2, <3>1, <3>4
  <2> QED BY <2>3, <2>4
<1>5. WalkTells(g[D], Len(v2))
  <2>1. Len(v2) \in 0..Len(v2) BY <1>1
  <2> QED BY <1>1, <1>4, <2>1
<1>6. CorrectedBy(Len(v2)) = Words!Corrected BY <1>1 DEF CorrectedBy, Words!Corrected
<1> QED BY <1>2, <1>5, <1>6 DEF WalkTells

-----------------------------------------------------------------------------
LEMMA SameWordCount == \A S : Words!Cardinality(S) = Cardinality(S)
BY DEF Words!Cardinality, Cardinality

Members(f, among) == {c \in Words!In(f) : c \in among}
Halves(among) ==
    [f \in Themed |-> (Cardinality(Members(f, among)) * (Cardinality(Members(f, among)) - 1)) \div 2]

(* The couples of one family, and those of two.                             *)
CouplesAlikeIn(among) == {p \in Couples({c \in Words!Placed : c \in among}) :
                              \A c, d \in p : c # d => v1[c] = v1[d]}
CouplesApartIn(among) == {p \in Couples({c \in Words!Placed : c \in among}) :
                              \A c, d \in p : c # d => v1[c] # v1[d]}

LEMMA CouplesSplit ==
    ASSUME WordsInv, NEW among
    PROVE  LET n == Cardinality({c \in Words!Placed : c \in among})
           IN  /\ n \in Nat /\ Cardinality(CouplesAlikeIn(among)) \in Nat
               /\ Cardinality(CouplesApartIn(among)) \in Nat
               /\ Cardinality(CouplesAlikeIn(among)) = Total(Themed, Halves(among))
               /\ Cardinality(CouplesApartIn(among)) = ((n * (n - 1)) \div 2) - Total(Themed, Halves(among))
<1> DEFINE all == {c \in Words!Placed : c \in among}
           kin == [f \in Themed |-> Couples(Members(f, among))]
           n == Cardinality(all)
<1>1. /\ all \subseteq Analysed /\ IsFiniteSet(all) /\ n \in Nat
      /\ \A f \in Themed : /\ Members(f, among) \subseteq Analysed
                            /\ IsFiniteSet(Members(f, among))
                            /\ Cardinality(Members(f, among)) \in Nat
  <2>1. all \subseteq Analysed BY DEF Words!Placed
  <2>2. \A f \in Themed : Members(f, among) \subseteq Analysed BY DEF Members, Words!In
  <2>3. \A s : s \subseteq Analysed => IsFiniteSet(s) /\ Cardinality(s) \in Nat
    BY WordsAssumption, FS_Subset, FS_CardinalityType
  <2> HIDE DEF all
  <2> QED BY <2>1, <2>2, <2>3
<1>2. \A f \in Themed : /\ IsFiniteSet(kin[f])
                        /\ Halves(among)[f] = Cardinality(kin[f])
  BY <1>1, CouplesCounted DEF Halves
<1>3. \A f \in Themed : \A c : c \in Members(f, among) <=> c \in all /\ v1[c] = f
  BY WordsAssumption DEF Members, Words!In, Words!Placed, WordsInv, NoFamily
<1>4. \A c \in all : v1[c] \in Themed BY DEF Words!Placed, WordsInv, NoFamily
<1> HIDE DEF all
<1>5. ASSUME NEW p \in Couples(all)
      PROVE  \E x, y \in all : x # y /\ p = {x, y}
  <2>1. p \subseteq all /\ Cardinality(p) = 2 BY DEF Couples
  <2>2. IsFiniteSet(p) BY <1>1, <2>1, FS_Subset
  <2>3. PICK x, y : x # y /\ p = {x, y} BY <2>1, <2>2, CoupleIsTwo
  <2> QED BY <2>1, <2>3
<1>6. \A f, h \in Themed : f # h => kin[f] \cap kin[h] = {}
  <2> SUFFICES ASSUME NEW f \in Themed, NEW h \in Themed, f # h,
                      NEW p, p \in kin[f], p \in kin[h]
               PROVE  FALSE
    OBVIOUS
  <2>1. p \in Couples(all) BY <1>3 DEF Couples
  <2>2. PICK x \in all : x \in p BY <1>5, <2>1
  <2>3. v1[x] = f /\ v1[x] = h BY <1>3, <2>2 DEF Couples
  <2> QED BY <2>3
<1>7. CouplesAlikeIn(among) = UNION {kin[f] : f \in Themed}
  <2>1. ASSUME NEW p \in CouplesAlikeIn(among) PROVE \E f \in Themed : p \in kin[f]
    <3>1. p \in Couples(all) /\ \A c, d \in p : c # d => v1[c] = v1[d] BY DEF CouplesAlikeIn, all
    <3>2. PICK x, y \in all : x # y /\ p = {x, y} BY <1>5, <3>1
    <3>3. v1[x] \in Themed /\ v1[y] = v1[x] BY <1>4, <3>1, <3>2
    <3>4. p \subseteq Members(v1[x], among) BY <1>3, <3>2, <3>3
    <3>5. p \in kin[v1[x]] BY <3>1, <3>3, <3>4 DEF Couples
    <3> QED BY <3>3, <3>5
  <2>2. ASSUME NEW f \in Themed, NEW p \in kin[f] PROVE p \in CouplesAlikeIn(among)
    <3>1. p \subseteq all /\ Cardinality(p) = 2 /\ \A c \in p : v1[c] = f BY <1>3 DEF Couples
    <3> QED BY <3>1 DEF CouplesAlikeIn, Couples, all
  <2> HIDE DEF kin
  <2> QED BY <2>1, <2>2
<1>8. /\ IsFiniteSet(CouplesAlikeIn(among))
      /\ Cardinality(CouplesAlikeIn(among)) = Total(Themed, Halves(among))
  <2>1. /\ \A f \in Themed : IsFiniteSet(kin[f]) /\ Halves(among)[f] = Cardinality(kin[f])
        /\ IsFiniteSet(Themed)
    BY <1>2, WordsAssumption
  <2>2. \A x, y \in Themed : x # y => kin[x] \cap kin[y] = {} BY <1>6
  <2> DEFINE size == Halves(among)
  <2> HIDE DEF kin, size
  <2>3. /\ \A x \in Themed : IsFiniteSet(kin[x])
        /\ \A x \in Themed : size[x] = Cardinality(kin[x])
    BY <2>1 DEF size
  <2>4. /\ IsFiniteSet(UNION {kin[x] : x \in Themed})
        /\ Cardinality(UNION {kin[x] : x \in Themed}) = Total(Themed, size)
    BY <2>1, <2>2, <2>3, TotalOfParts
  <2> QED BY <1>7, <2>4 DEF size
<1>9. CouplesAlikeIn(among) \cup CouplesApartIn(among) = Couples(all) /\ CouplesAlikeIn(among) \cap CouplesApartIn(among) = {}
  <2>1. ASSUME NEW p \in Couples(all) PROVE p \in CouplesAlikeIn(among) <=> p \notin CouplesApartIn(among)
    <3>1. PICK x, y \in all : x # y /\ p = {x, y} BY <1>5
    <3>2. p \in CouplesAlikeIn(among) <=> v1[x] = v1[y] BY <3>1 DEF CouplesAlikeIn, all
    <3>3. p \in CouplesApartIn(among) <=> v1[x] # v1[y] BY <3>1 DEF CouplesApartIn, all
    <3> QED BY <3>2, <3>3
  <2>2. CouplesAlikeIn(among) \subseteq Couples(all) /\ CouplesApartIn(among) \subseteq Couples(all)
    BY DEF CouplesAlikeIn, CouplesApartIn, all
  <2> QED BY <2>1, <2>2
<1> DEFINE same == CouplesAlikeIn(among)
           other == CouplesApartIn(among)
<1>10. IsFiniteSet(Couples(all)) /\ Cardinality(Couples(all)) = (n * (n - 1)) \div 2
  BY <1>1, CouplesCounted
<1>11. IsFiniteSet(same) /\ IsFiniteSet(other) BY <1>8, <1>9, <1>10, FS_Subset
<1> HIDE DEF same, other
<1>12. Cardinality(same) \in Nat /\ Cardinality(other) \in Nat BY <1>11, FS_CardinalityType
<1>13. Cardinality(same \cup other)
         = Cardinality(same) + Cardinality(other) - Cardinality(same \cap other)
  BY <1>11, FS_Union
<1>14. Cardinality(same \cap other) = 0 BY <1>9, FS_EmptySet DEF same, other
<1>15. Cardinality(same \cup other) = Cardinality(Couples(all)) BY <1>9 DEF same, other
<1>16. Cardinality(other) = Cardinality(Couples(all)) - Cardinality(same)
  BY <1>12, <1>13, <1>14, <1>15
<1> QED BY <1>1, <1>8, <1>10, <1>12, <1>16 DEF same, other, all

(* What is counted family by family are these couples.                      *)
LEMMA PairsAreCouples ==
    ASSUME WordsInv
    PROVE  /\ Words!SamePairs = Cardinality(CouplesAlikeIn(Analysed))
           /\ Words!CrossPairs = Cardinality(CouplesApartIn(Analysed))
<1> DEFINE IsHalves(h) == h = [s \in SUBSET Themed |->
               IF s = {} THEN 0
               ELSE Words!Pairs(Words!Cardinality(Words!In(CHOOSE f \in s : TRUE)))
                    + h[s \ {CHOOSE f \in s : TRUE}]]
           weight == Halves(Analysed)
           Is(h) == ChoosingSum(h, Themed, weight)
<1>1. \A f \in Themed : Members(f, Analysed) = Words!In(f) BY DEF Members, Words!In
<1>2. \A f \in Themed : weight[f] = Words!Pairs(Words!Cardinality(Words!In(f)))
  BY <1>1, SameWordCount DEF Halves, Words!Pairs
<1>3. \A h : IsHalves(h) <=> Is(h) BY <1>2 DEF ChoosingSum
<1>4. Words!SamePairs = (CHOOSE h : IsHalves(h))[Themed]
  BY DEF Words!SamePairs, Words!MapThenSumSet, Words!MapThenFoldSet
<1> HIDE DEF IsHalves, Is
<1>5. (CHOOSE h : IsHalves(h)) = CHOOSE h : Is(h) BY <1>3
<1>6. \A f \in Themed : weight[f] \in Nat
  <2>1. \A f \in Themed : /\ Members(f, Analysed) \subseteq Analysed
                          /\ IsFiniteSet(Members(f, Analysed))
    BY WordsAssumption, FS_Subset DEF Members
  <2>2. \A f \in Themed : weight[f] = Cardinality(Couples(Members(f, Analysed)))
    BY <2>1, CouplesCounted DEF Halves
  <2> QED BY <2>1, <2>2, CouplesCounted, FS_CardinalityType
<1> HIDE DEF weight
<1>7. /\ \E h : Is(h)
      /\ \A h : Is(h) => h[Themed] = Total(Themed, weight)
  BY <1>6, WordsAssumption, SumChosen DEF Is
<1>8. Words!SamePairs = Total(Themed, weight) BY <1>4, <1>5, <1>7
<1>9. {c \in Words!Placed : c \in Analysed} = Words!Placed BY DEF Words!Placed
<1>10. LET n == Cardinality(Words!Placed)
       IN  /\ Cardinality(CouplesAlikeIn(Analysed)) = Total(Themed, weight)
           /\ Cardinality(CouplesApartIn(Analysed)) = ((n * (n - 1)) \div 2) - Total(Themed, weight)
  BY <1>9, CouplesSplit DEF weight
<1>11. Words!CrossPairs = ((Cardinality(Words!Placed) * (Cardinality(Words!Placed) - 1)) \div 2)
                          - Words!SamePairs
  BY SameWordCount DEF Words!CrossPairs, Words!Pairs
<1> QED BY <1>8, <1>10, <1>11

Reading(w) == {c \in Analysed : w \in Text(c)}

LEMMA HitsAreCouples ==
    ASSUME WordsInv, NEW w
    PROVE  /\ Words!SameHits(w) = Cardinality(CouplesAlikeIn(Reading(w)))
           /\ Words!CrossHits(w) = Cardinality(CouplesApartIn(Reading(w)))
<1> DEFINE IsHalves(h) == h = [s \in SUBSET Themed |->
               IF s = {} THEN 0
               ELSE Words!Pairs(Words!Cardinality(Words!Having(w, CHOOSE f \in s : TRUE)))
                    + h[s \ {CHOOSE f \in s : TRUE}]]
           weight == Halves(Reading(w))
           Is(h) == ChoosingSum(h, Themed, weight)
<1>1. \A f \in Themed : Members(f, Reading(w)) = Words!Having(w, f)
  BY DEF Members, Words!In, Words!Having, Reading
<1>2. \A f \in Themed : weight[f] = Words!Pairs(Words!Cardinality(Words!Having(w, f)))
  BY <1>1, SameWordCount DEF Halves, Words!Pairs
<1>3. \A h : IsHalves(h) <=> Is(h) BY <1>2 DEF ChoosingSum
<1>4. Words!SameHits(w) = (CHOOSE h : IsHalves(h))[Themed]
  BY DEF Words!SameHits, Words!MapThenSumSet, Words!MapThenFoldSet
<1> HIDE DEF IsHalves, Is
<1>5. (CHOOSE h : IsHalves(h)) = CHOOSE h : Is(h) BY <1>3
<1>6. \A f \in Themed : weight[f] \in Nat
  <2>1. \A f \in Themed : /\ Members(f, Reading(w)) \subseteq Analysed
                          /\ IsFiniteSet(Members(f, Reading(w)))
    BY WordsAssumption, FS_Subset DEF Members, Reading
  <2>2. \A f \in Themed : weight[f] = Cardinality(Couples(Members(f, Reading(w))))
    BY <2>1, CouplesCounted DEF Halves
  <2> QED BY <2>1, <2>2, CouplesCounted, FS_CardinalityType
<1> HIDE DEF weight
<1>7. /\ \E h : Is(h)
      /\ \A h : Is(h) => h[Themed] = Total(Themed, weight)
  BY <1>6, WordsAssumption, SumChosen DEF Is
<1>8. Words!SameHits(w) = Total(Themed, weight) BY <1>4, <1>5, <1>7
<1>9. {c \in Words!Placed : c \in Reading(w)} = {c \in Words!Placed : w \in Text(c)}
  BY DEF Words!Placed, Reading
<1>10. LET n == Cardinality({c \in Words!Placed : w \in Text(c)})
       IN  /\ Cardinality(CouplesAlikeIn(Reading(w))) = Total(Themed, weight)
           /\ Cardinality(CouplesApartIn(Reading(w))) = ((n * (n - 1)) \div 2) - Total(Themed, weight)
  BY <1>9, CouplesSplit DEF weight
<1>11. Words!CrossHits(w)
         = ((Cardinality({c \in Words!Placed : w \in Text(c)})
             * (Cardinality({c \in Words!Placed : w \in Text(c)}) - 1)) \div 2) - Words!SameHits(w)
  BY SameWordCount DEF Words!CrossHits, Words!Pairs, Words!Support
<1> QED BY <1>8, <1>10, <1>11

(* So a word's score is the difference of the shares, over one unit.         *)
LEMMA ScoresAreShares ==
    ASSUME WordsInv, NEW w
    PROVE  /\ Words!SamePairs \in Nat /\ Words!CrossPairs \in Nat
           /\ Words!SameHits(w) \in Nat /\ Words!CrossHits(w) \in Nat
           /\ Words!Unit = Words!SamePairs * Words!CrossPairs
           /\ Words!Difference(w) = 100 * (Words!SameHits(w) * Words!CrossPairs)
           /\ Words!Against(w) = 100 * (Words!CrossHits(w) * Words!SamePairs)
<1> DEFINE two == {p \in SUBSET Words!Placed : Words!Cardinality(p) = 2}
           alike == {p \in two : \A c, d \in p : c # d => v1[c] = v1[d]}
           apart == {p \in two : \A c, d \in p : c # d => v1[c] # v1[d]}
           Of(pairs) == {p \in pairs : \A c \in p : w \in Text(c)}
<1>1. /\ Words!Unit = Words!Cardinality(alike) * Words!Cardinality(apart)
      /\ Words!Difference(w) = 100 * (Words!Cardinality(Of(alike)) * Words!Cardinality(apart))
      /\ Words!Against(w) = 100 * (Words!Cardinality(Of(apart)) * Words!Cardinality(alike))
  BY DEF Words!Unit, Words!Difference, Words!Against, Words!Share, Words!Couples, Words!Alike,
         Words!Apart, Words!kSubset
<1>2. two = Couples(Words!Placed) BY SameWordCount DEF Couples
<1>3. alike = CouplesAlikeIn(Analysed) /\ apart = CouplesApartIn(Analysed)
  <2>1. {c \in Words!Placed : c \in Analysed} = Words!Placed BY DEF Words!Placed
  <2> HIDE DEF two
  <2> QED BY <1>2, <2>1 DEF CouplesAlikeIn, CouplesApartIn
<1>4. Of(alike) = CouplesAlikeIn(Reading(w)) /\ Of(apart) = CouplesApartIn(Reading(w))
  <2> DEFINE some == {c \in Words!Placed : c \in Reading(w)}
  <2>1. \A p : p \in Couples(some) <=> p \in two /\ \A c \in p : w \in Text(c)
    BY <1>2 DEF Couples, Words!Placed, Reading
  <2> HIDE DEF two, some
  <2> QED BY <2>1 DEF CouplesAlikeIn, CouplesApartIn, some
<1> HIDE DEF alike, apart, Of
<1>5. /\ Words!Cardinality(alike) = Words!SamePairs /\ Words!Cardinality(apart) = Words!CrossPairs
      /\ Words!Cardinality(Of(alike)) = Words!SameHits(w)
      /\ Words!Cardinality(Of(apart)) = Words!CrossHits(w)
  BY <1>3, <1>4, SameWordCount, PairsAreCouples, HitsAreCouples
<1>6. /\ Cardinality(CouplesAlikeIn(Analysed)) \in Nat /\ Cardinality(CouplesApartIn(Analysed)) \in Nat
      /\ Cardinality(CouplesAlikeIn(Reading(w))) \in Nat /\ Cardinality(CouplesApartIn(Reading(w))) \in Nat
  BY CouplesSplit
<1> QED BY <1>1, <1>5, <1>6, PairsAreCouples, HitsAreCouples

(* The target a word is mined for is the one its shares rank it for.         *)
LEMMA TargetsAreRight ==
    ASSUME WordsInv, NEW w
    PROVE  Words!RankedRight([target |-> Words!TargetOf(w), word |-> w])
<1> DEFINE sh == Words!SameHits(w)
           ch == Words!CrossHits(w)
           sp == Words!SamePairs
           cp == Words!CrossPairs
           target == Words!TargetOf(w)
<1>1. /\ sh \in Nat /\ ch \in Nat /\ sp \in Nat /\ cp \in Nat
      /\ MechanicMin \in Nat /\ GenericMax \in Nat
  BY ScoresAreShares, WordsAssumption
<1>2. /\ Words!Unit = sp * cp /\ Words!Difference(w) = 100 * (sh * cp)
      /\ Words!Against(w) = 100 * (ch * sp)
  BY ScoresAreShares
<1>3. \A m : /\ Words!ScoreAtLeast(w, m) <=> 100 * sh * cp >= m * sp * cp + 100 * ch * sp
             /\ Words!ScoreAtMost(w, m) <=> 100 * sh * cp <= m * sp * cp + 100 * ch * sp
  BY DEF Words!ScoreAtLeast, Words!ScoreAtMost
<1>4. target = IF Words!ScoreAtLeast(w, MechanicMin) THEN "mechanic"
               ELSE IF Words!ScoreAtMost(w, GenericMax) THEN "generic" ELSE "hook"
  BY DEF Words!TargetOf
<1> HIDE DEF sh, ch, sp, cp, target
<1>5. ASSUME NEW m \in Nat
      PROVE  /\ Words!ScoreAtLeast(w, m) <=> 100 * (sh * cp) >= m * (sp * cp) + 100 * (ch * sp)
             /\ Words!ScoreAtMost(w, m) <=> 100 * (sh * cp) <= m * (sp * cp) + 100 * (ch * sp)
  <2>1. /\ 100 * sh * cp = 100 * (sh * cp) /\ m * sp * cp = m * (sp * cp)
        /\ 100 * ch * sp = 100 * (ch * sp)
    BY <1>1
  <2> QED BY <1>3, <2>1
<1>6. /\ target = "mechanic" <=> Words!Difference(w) >= MechanicMin * Words!Unit + Words!Against(w)
      /\ target = "hook" => Words!Difference(w) > GenericMax * Words!Unit + Words!Against(w)
  <2>1. /\ Words!ScoreAtLeast(w, MechanicMin)
             <=> Words!Difference(w) >= MechanicMin * Words!Unit + Words!Against(w)
        /\ Words!ScoreAtMost(w, GenericMax)
             <=> Words!Difference(w) <= GenericMax * Words!Unit + Words!Against(w)
    BY <1>1, <1>2, <1>5
  <2>2. /\ Words!Difference(w) \in Int /\ GenericMax * Words!Unit + Words!Against(w) \in Int
    <3>1. /\ sh * cp \in Nat /\ ch * sp \in Nat /\ sp * cp \in Nat BY <1>1
    <3>2. GenericMax * (sp * cp) \in Nat BY <1>1, <3>1
    <3> QED BY <1>2, <3>1, <3>2
  <2> QED BY <1>4, <2>1, <2>2
<1> QED BY <1>6 DEF Words!RankedRight, target

LEMMA MinesFairly ==
    ASSUME WordsInv
    PROVE  Words!MineStep
<1> SUFFICES ASSUME Words!Mine
             PROVE  /\ Len(Words!Corrections) = Words!Cardinality(Words!Corrected)
                    /\ \A s \in v3' \ v3 :
                         /\ \A t \in Words!Targets : s.word \notin Words!ToSet(Shipped(t) \o v4[t])
                         /\ Words!RankedRight(s)
                         /\ \E j \in Words!Corrected : s.word \in Text(v2[j].creative)
  BY DEF Words!MineStep
<1>1. Len(Words!Corrections) = Words!Cardinality(Words!Corrected)
  BY CorrectionsAreThese, SameWordCount
<1>2. ASSUME NEW s \in v3', s \notin v3
      PROVE  /\ \A t \in Words!Targets : s.word \notin Words!ToSet(Shipped(t) \o v4[t])
             /\ Words!RankedRight(s)
             /\ \E j \in Words!Corrected : s.word \in Text(v2[j].creative)
  <2>1. s \in Words!Candidates BY <1>2 DEF Words!Mine, Words!Most
  <2>2. PICK w \in Words!Pool : s = [target |-> Words!TargetOf(w), word |-> w]
    BY <2>1 DEF Words!Candidates
  <2>3. Words!RankedRight(s) BY <2>2, TargetsAreRight
  <2>4. PICK c \in Words!Range(Words!Corrections) : w \in Text(c) BY <2>2 DEF Words!Pool
  <2>5. PICK x \in DOMAIN Words!Corrections : c = Words!Corrections[x] BY <2>4 DEF Words!Range
  <2>6. \E j \in Words!Corrected : s.word \in Text(v2[j].creative)
    BY <2>2, <2>4, <2>5, CorrectionsAreThese
  <2>8. w \notin Words!Known BY <2>2 DEF Words!Pool
  <2>9. Words!Known
          = UNION {Words!ToSet(Shipped(u)) \cup Words!ToSet(v4[u]) : u \in Words!Targets}
    BY DEF Words!Known
  <2>7. ASSUME NEW t \in Words!Targets PROVE w \notin Words!ToSet(Shipped(t) \o v4[t])
    <3>1. Shipped(t) \in Seq(STRING) /\ v4[t] \in Seq(STRING) BY WordsAssumption DEF WordsInv
    <3> DEFINE old == Shipped(t)
               new == v4[t]
    <3>2. w \notin Words!ToSet(old) /\ w \notin Words!ToSet(new)
      <4>1. w \notin UNION {Words!ToSet(Shipped(u)) \cup Words!ToSet(v4[u]) : u \in Words!Targets}
        BY <2>8, <2>9
      <4>2. Words!ToSet(Shipped(t)) \cup Words!ToSet(v4[t])
              \in {Words!ToSet(Shipped(u)) \cup Words!ToSet(v4[u]) : u \in Words!Targets}
        OBVIOUS
      <4>3. w \notin Words!ToSet(Shipped(t)) \cup Words!ToSet(v4[t]) BY <4>1, <4>2
      <4> QED BY <4>3
    <3>3. old \in Seq(STRING) /\ new \in Seq(STRING) BY <3>1
    <3> HIDE DEF old, new
    <3>4. DOMAIN (old \o new) = 1..(Len(old) + Len(new)) /\ Len(old) \in Nat /\ Len(new) \in Nat
          /\ DOMAIN old = 1..Len(old) /\ DOMAIN new = 1..Len(new)
      BY <3>3, LenProperties, ConcatProperties
    <3>5. \A i \in 1..(Len(old) + Len(new)) :
              (old \o new)[i] = IF i <= Len(old) THEN old[i] ELSE new[i - Len(old)]
      BY <3>3, ConcatProperties
    <3>6. ASSUME NEW i \in DOMAIN (old \o new), (old \o new)[i] = w PROVE FALSE
      <4>1. CASE i <= Len(old)
        <5>1. i \in DOMAIN old /\ old[i] = w BY <3>4, <3>5, <3>6, <4>1
        <5> QED BY <3>2, <5>1 DEF Words!ToSet
      <4>2. CASE ~(i <= Len(old))
        <5>1. i - Len(old) \in DOMAIN new /\ new[i - Len(old)] = w BY <3>4, <3>5, <3>6, <4>2
        <5> QED BY <3>2, <5>1 DEF Words!ToSet
      <4> QED BY <4>1, <4>2
    <3> QED BY <3>6 DEF Words!ToSet, old, new
  <2> QED BY <2>2, <2>3, <2>6, <2>7
<1> QED BY <1>1, <1>2

LEMMA WordsKeep ==
    ASSUME WordsInv, Words!Next
    PROVE  WordsInv'
<1> USE DEF WordsInv
<1>1. ASSUME NEW c \in Analysed, NEW f \in Themed \cup {NoFamily}, NEW auto \in BOOLEAN,
             Words!Assigned(c, f, auto)
      PROVE  WordsInv'
  <2>1. /\ v1' = [v1 EXCEPT ![c] = f] /\ UNCHANGED <<v3, v4, v6>>
        /\ v2' = Append(v2, [creative |-> c, auto |-> auto, label |-> f])
    BY <1>1 DEF Words!Assigned
  <2>2. [creative |-> c, auto |-> auto, label |-> f] \in Log BY DEF Log
  <2>3. v2' \in Seq(Log) BY <2>1, <2>2, AppendProperties
  <2> QED BY <2>1, <2>3
<1>2. CASE \E c \in Analysed : Words!Assign(c) \/ Words!Rule(c)
  BY <1>1, <1>2 DEF Words!Assign, Words!Rule, NoFamily
<1>3. CASE Words!Mine
  <2>1. Words!Candidates \subseteq Word
    <3>1. ASSUME NEW s \in Words!Candidates PROVE s \in Word
      <4>1. PICK w \in Words!Pool : s = [target |-> Words!TargetOf(w), word |-> w]
        BY DEF Words!Candidates
      <4>2. PICK x \in DOMAIN Words!Corrections : w \in Text(Words!Corrections[x])
        BY <4>1 DEF Words!Pool, Words!Range
      <4>3. PICK j \in Words!Corrected : Words!Corrections[x] = v2[j].creative
        BY <4>2, CorrectionsAreThese
      <4>4. v2[j] \in Log BY <4>3, LenProperties DEF Words!Corrected
      <4>5. w \in STRING BY <4>2, <4>3, <4>4, WordsAssumption DEF Log
      <4>6. Words!TargetOf(w) \in Words!Targets BY DEF Words!TargetOf, Words!Targets
      <4> QED BY <4>1, <4>5, <4>6 DEF Word
    <3> QED BY <3>1
  <2>2. (\E taken \in SUBSET Words!Candidates : v3' = v3 \cup taken) /\ UNCHANGED <<v1, v2, v4, v6>>
    BY <1>3 DEF Words!Mine, Words!Most
  <2> QED BY <2>1, <2>2
<1>4. CASE Words!Dismiss
  <2>1. PICK s \in v3 : v3' = v3 \ {s} BY <1>4 DEF Words!Dismiss
  <2>2. UNCHANGED <<v1, v2, v4, v6>> BY <1>4 DEF Words!Dismiss
  <2> QED BY <2>1, <2>2
<1>5. ASSUME NEW h \in Confirmers, Words!ReadList(h) PROVE WordsInv'
  <2>1. PICK s \in v3 : v6' = [v6 EXCEPT ![h] = [pc |-> "write", on |-> {s}, words |-> v4[s.target]]]
    BY <1>5 DEF Words!ReadList
  <2>2. s \in Word /\ v4[s.target] \in Seq(STRING) BY <2>1 DEF Word
  <2>3. UNCHANGED <<v1, v2, v3, v4>> BY <1>5 DEF Words!ReadList
  <2> QED BY <2>1, <2>2, <2>3
<1>6. ASSUME NEW h \in Confirmers, Words!WriteList(h) PROVE WordsInv'
  <2>1. PICK s \in v6[h].on :
            /\ v4' = IF s.word \notin Words!ToSet(v6[h].words)
                     THEN [v4 EXCEPT ![s.target] = Append(v6[h].words, s.word)]
                     ELSE IF s.target = "generic"
                     THEN [v4 EXCEPT ![s.target] = v6[h].words] ELSE v4
            /\ v3' = v3 \ {s}
    BY <1>6 DEF Words!WriteList
  <2>2. s \in Word /\ v6[h].words \in Seq(STRING) OBVIOUS
  <2>3. s.target \in Words!Targets /\ s.word \in STRING BY <2>2 DEF Word
  <2>4. Append(v6[h].words, s.word) \in Seq(STRING) BY <2>2, <2>3, AppendProperties
  <2>5. v4' \in [Words!Targets -> Seq(STRING)] BY <2>1, <2>2, <2>3, <2>4
  <2>6. v6' = [v6 EXCEPT ![h] = Words!Idle] /\ UNCHANGED <<v1, v2>> BY <1>6 DEF Words!WriteList
  <2>7. Words!Idle \in [pc : {"idle", "write"}, on : SUBSET Word, words : Seq(STRING)]
    BY DEF Words!Idle
  <2> QED BY <2>1, <2>5, <2>6, <2>7
<1> QED BY <1>2, <1>3, <1>4, <1>5, <1>6 DEF Words!Next

(* services/rule_feedback.py: every correction is one automatic assignment    *)
(* and the first human one after it; a word that is mined is new, comes from *)
(* a creative somebody corrected, and is ranked by its pairs, counted one by *)
(* one.  For any creatives, families, words, thresholds and logs.           *)
THEOREM WordsAreMinedFairly == MCSpec => MinedFairly
<1> DEFINE J == part = "words" => WordsInv
           S == part = "words" => Words!MineStep
<1>1. MCInit => J
  <2> SUFFICES ASSUME MCInit, part = "words" PROVE WordsInv OBVIOUS
  <2>1. Words!Init BY DEF MCInit
  <2>2. /\ v1 \in [Analysed -> Themed \cup {NoFamily}] /\ v2 = <<>> /\ v3 = {}
        /\ v4 = [t \in Words!Targets |-> <<>>] /\ v6 = [h \in Confirmers |-> Words!Idle]
    BY <2>1 DEF Words!Init, NoFamily
  <2>3. Words!Idle \in [pc : {"idle", "write"}, on : SUBSET Word, words : Seq(STRING)]
    BY DEF Words!Idle
  <2>4. v2 \in Seq(Log) /\ v4 \in [Words!Targets -> Seq(STRING)] BY <2>2
  <2> QED BY <2>2, <2>3, <2>4 DEF WordsInv
<1>2. ASSUME J, [MCNext]_MCvars PROVE J' /\ S
  <2> SUFFICES ASSUME part = "words", WordsInv PROVE WordsInv' /\ Words!MineStep
    BY <1>2 DEF MCNext, MCvars
  <2>1. Words!MineStep BY MinesFairly
  <2>2. CASE Words!Next BY <2>1, <2>2, WordsKeep
  <2>3. CASE UNCHANGED others
    <3>1. UNCHANGED <<v1, v2, v3, v4, v6>> BY <2>3 DEF others, from3, from4, from6
    <3> QED BY <2>1, <3>1 DEF WordsInv
  <2> QED BY <1>2, <2>2, <2>3 DEF MCNext, MCvars, Other
<1>3. MinedFairly <=> [][S]_MCvars BY DEF MinedFairly
<1> HIDE DEF J, S
<1> QED BY <1>1, <1>2, <1>3, PTL DEF MCSpec
=============================================================================
