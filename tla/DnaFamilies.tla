----------------------------- MODULE DnaFamilies -----------------------------
(***************************************************************************)
(* The families of creatives (creative_dnas, creatives.dna_id): creation   *)
(* with numbered codes, deactivation and reactivation, the proposals of    *)
(* the model and their confirmation, single and batch assignments with     *)
(* idempotency keys, and the worker's automatic assignment.                *)
(*                                                                         *)
(* Every request is one transaction on READ COMMITTED: it reads committed  *)
(* rows and its own writes, and the rows it wrote stay locked until it     *)
(* ends.  Family n has the code D n; names, keywords, logs and the copies   *)
(* of the graph are left out.                                              *)
(*                                                                         *)
(* UnguardedFamily (no check for an empty family) and KeyOverwritten (the  *)
(* key is no primary key) are the bugs the properties are known to catch:  *)
(* nothing below uses them.                                                *)
(***************************************************************************)
EXTENDS Naturals, FiniteSets

CONSTANTS Creatives, Proposals, Keys, Handlers,
          MaxFamilies,   \* bound on the codes
          MaxRequests    \* bound on the requests

ASSUME FamiliesAssumption == MaxFamilies \in Nat \ {0} /\ MaxRequests \in Nat

VARIABLES fam,           \* status of the family of each code
          dna,           \* dna_id of each creative, None for scattered
          proposals,     \* judge_suggestions of kind family_bootstrap
          keys,          \* Idempotency-Keys stored in the last 24 hours
          ran,           \* history: batches committed under a stored key
          req,           \* open requests
          sent           \* requests so far

data == <<fam, dna, proposals, keys, ran>>
vars == <<data, req, sent>>

None == 0
NoKey == "none"
NoProposal == "none"
Families == 1..MaxFamilies
Existing == {f \in Families : fam[f] # "none"}
Active == {f \in Families : fam[f] = "active"}
Open == {p \in Proposals : proposals[p].state = "open"}
Unread == {p \in Proposals : proposals[p].state = "unread"}

Idle == [pc |-> "idle", op |-> "none", key |-> NoKey, fam |-> None, fams |-> {},
         todo |-> {}, item |-> NoProposal, seen |-> {}, staged |-> {}, drop |-> {},
         made |-> {}, code |-> None, tries |-> 0, base |-> 0,
         disturbed |-> FALSE, sure |-> {}]   \* history: who else committed meanwhile

At(h, pc) == req[h].pc = pc
Become(h, r) == req' = [req EXCEPT ![h] = r]
Finish(h) == req' = [g \in Handlers |-> IF g = h THEN Idle
                                        ELSE [req[g] EXCEPT !.disturbed = ~At(g, "idle")]]
Begin(h, r) == At(h, "idle") /\ sent < MaxRequests /\ sent' = sent + 1 /\ Become(h, r)
Batch(h) == req[h].key # NoKey

(* What h reads of a creative; rows that another transaction has written   *)
(* or inserted make it wait.                                               *)
View(h, c) == IF \E f \in Families \cup {None} : <<c, f>> \in req[h].staged
              THEN CHOOSE f \in Families \cup {None} : <<c, f>> \in req[h].staged
              ELSE dna[c]
Free(h, cs) == \A g \in Handlers \ {h} : \A w \in req[g].staged : w[1] \notin cs
Deletable(h, ps) == \A g \in Handlers \ {h} : req[g].drop \cap ps = {}

(* A proposal of suggest_families: a new family of two or more scattered     *)
(* creatives, or some that join a family.  No two of them share one.       *)
Unwritten == [state |-> "unread", into |-> None, members |-> {}]
Proposable(p) ==
    /\ proposals[p].state = "open"
    /\ IF proposals[p].into = None THEN Cardinality(proposals[p].members) >= 2
       ELSE proposals[p].members # {} /\ proposals[p].into \in Active
Init ==
    /\ fam \in [Families -> {"none", "active"}]
    /\ \A f \in Families : f > 1 => fam[f] = "none"
    /\ dna = [c \in Creatives |-> None]
    /\ proposals \in [Proposals -> [state : {"open", "unread"}, into : {None, 1},
                                    members : SUBSET Creatives]]
    /\ Open # {} /\ \A p \in Proposals : Proposable(p) \/ proposals[p] = Unwritten
    /\ \A p, q \in Open : p # q => proposals[p].members \cap proposals[q].members = {}
    /\ keys = {} /\ ran = [k \in Keys |-> 0]
    /\ req = [h \in Handlers |-> Idle] /\ sent = 0

-----------------------------------------------------------------------------
(* The requests and what each reads first.                                 *)

(* POST /dnas                                                              *)
Create(h) ==
    /\ Begin(h, [Idle EXCEPT !.pc = "number", !.op = "create"])
    /\ UNCHANGED data

(* A key that is stored is answered from the store (409 for another         *)
(* endpoint): nothing runs.  Without a key: POST /dnas/confirm-family and   *)
(* PUT /creatives/{id}/dna, for one item.                                  *)
Admitted(k, items) == IF k = NoKey THEN Cardinality(items) = 1 ELSE k \notin keys

Confirm(h) ==
    /\ \E k \in Keys \cup {NoKey}, ps \in SUBSET (Proposals \ Unread) :
         /\ ps # {} /\ Admitted(k, ps)
         /\ Begin(h, [Idle EXCEPT !.pc = "item", !.op = "confirm", !.key = k, !.todo = ps])
    /\ UNCHANGED data

(* Assign to an active family; the status is checked once.                 *)
Assign(h) ==
    /\ \E k \in Keys \cup {NoKey}, cs \in SUBSET Creatives, f \in Active :
         /\ cs # {} /\ Admitted(k, cs)
         /\ Begin(h, [Idle EXCEPT !.pc = "item", !.op = "assign", !.key = k,
                                  !.todo = cs, !.fam = f])
    /\ UNCHANGED data

Unassign(h) ==
    /\ \E k \in Keys \cup {NoKey}, cs \in SUBSET Creatives :
         /\ cs # {} /\ Admitted(k, cs)
         /\ Begin(h, [Idle EXCEPT !.pc = "item", !.op = "unassign", !.key = k, !.todo = cs])
    /\ UNCHANGED data

(* deactivate_family lists the members it will release.                    *)
Deactivate(h) ==
    /\ \E f \in Active :
         Begin(h, [Idle EXCEPT !.pc = "release", !.op = "archive", !.fam = f,
                               !.seen = {c \in Creatives : dna[c] = f}])
    /\ UNCHANGED data

(* run_dna_assignments: a scattered creative and the family the model       *)
(* names with three votes; fewer votes, or a closed gate, change nothing.  *)
AutoAssign(h) ==
    /\ \E c \in Creatives, f \in Active :
         /\ dna[c] = None
         /\ Begin(h, [Idle EXCEPT !.pc = "auto", !.op = "auto", !.fam = f, !.seen = {c}])
    /\ UNCHANGED data

(* suggest_families: scattered creatives and active families for the model. *)
Suggest(h) ==
    /\ Begin(h, [Idle EXCEPT !.pc = "suggest", !.op = "suggest", !.fams = Active,
                             !.seen = {c \in Creatives : dna[c] = None}])
    /\ UNCHANGED data

-----------------------------------------------------------------------------
(* Confirming one proposal.                                                *)

Done(h, r) == [r EXCEPT !.item = NoProposal, !.code = None, !.tries = 0, !.seen = {},
                        !.todo = @ \ {req[h].item}, !.pc = IF Batch(h) THEN "item" ELSE "commit"]

(* An error inside an item rolls its savepoint back; outside a batch it    *)
(* ends the request.                                                       *)
ItemError(h) ==
    IF Batch(h)
    THEN Become(h, [Done(h, req[h]) EXCEPT !.made = @ \ {req[h].code}])
    ELSE Become(h, Idle)

(* A proposal that is gone is an error.  The batch looks for members first *)
(* and drops a proposal that has none left.                                *)
UnguardedFamily(h, look) == FALSE
EmptyFamily(h, look) == Batch(h) /\ look = {}
ConfirmItem(h) ==
    /\ At(h, "item") /\ req[h].op = "confirm"
    /\ \E p \in req[h].todo :
         LET look == {c \in proposals[p].members : View(h, c) = None}
             into == proposals[p].into
         IN IF p \notin Open \/ p \in req[h].drop
               \/ (into # None /\ ~EmptyFamily(h, look) /\ into \notin Active)
            THEN Become(h, IF Batch(h) THEN [req[h] EXCEPT !.todo = @ \ {p}] ELSE Idle)
            ELSE IF EmptyFamily(h, look)
            THEN /\ Deletable(h, {p})
                 /\ Become(h, [req[h] EXCEPT !.todo = @ \ {p}, !.drop = @ \cup {p}])
            ELSE Become(h, [req[h] EXCEPT !.item = p, !.fam = into, !.disturbed = FALSE,
                                          !.pc = IF into = None THEN "number" ELSE "look"])
    /\ UNCHANGED <<data, sent>>

(* _next_code: one more than the highest code of any status.               *)
Highest(fs) == CHOOSE n \in fs \cup {0} : \A f \in fs : f <= n
NextCode(h) == Highest(Existing \cup req[h].made) + 1
Number(h) ==
    /\ At(h, "number") /\ NextCode(h) \in Families
    /\ Become(h, [req[h] EXCEPT !.pc = "insert", !.code = NextCode(h),
                  !.base = IF req[h].tries = 0 THEN Cardinality(Existing) ELSE @])
    /\ UNCHANGED <<data, sent>>

(* The insert waits for a transaction that inserted the same code; when     *)
(* the code is taken it is numbered again, once.                           *)
Taken(h) == At(h, "insert") /\ fam[req[h].code] # "none"
Insert(h) ==
    /\ At(h, "insert")
    /\ \A g \in Handlers \ {h} : req[h].code \notin req[g].made
    /\ IF ~Taken(h)
       THEN Become(h, [req[h] EXCEPT !.made = @ \cup {req[h].code},
                              !.pc = IF req[h].op = "create" THEN "commit" ELSE "look"])
       ELSE IF req[h].tries = 0
       THEN Become(h, [req[h] EXCEPT !.tries = 1, !.pc = "number"])
       ELSE ItemError(h)
    /\ UNCHANGED <<data, sent>>

(* assignable_members: those still scattered.                              *)
Look(h) ==
    /\ At(h, "look")
    /\ Become(h, [req[h] EXCEPT !.pc = "take",
                  !.seen = {c \in proposals[req[h].item].members : View(h, c) = None}])
    /\ UNCHANGED <<data, sent>>

(* The members seen scattered are assigned and the proposal is deleted.    *)
Target(h) == IF req[h].fam = None THEN req[h].code ELSE req[h].fam
Take(h) ==
    /\ At(h, "take") /\ Free(h, req[h].seen) /\ Deletable(h, {req[h].item})
    /\ Become(h, [Done(h, req[h]) EXCEPT !.staged = @ \cup (req[h].seen \X {Target(h)}),
                                         !.drop = @ \cup {req[h].item},
                    !.sure = IF req[h].disturbed THEN @ ELSE @ \cup {req[h].code}])
    /\ UNCHANGED <<data, sent>>

-----------------------------------------------------------------------------
(* One creative of an assignment; one that is there already is skipped.    *)
SetDna(h, c) ==
    /\ View(h, c) # req[h].fam => Free(h, {c})
    /\ Become(h, [req[h] EXCEPT !.todo = @ \ {c},
                   !.staged = IF View(h, c) = req[h].fam THEN @
                              ELSE @ \cup {<<c, req[h].fam>>}])
    /\ UNCHANGED <<data, sent>>
AssignItem(h) == At(h, "item") /\ req[h].op = "assign" /\ \E c \in req[h].todo : SetDna(h, c)
UnassignItem(h) == At(h, "item") /\ req[h].op = "unassign" /\ \E c \in req[h].todo : SetDna(h, c)

(* Any item may fail, the victim of a deadlock among them.                 *)
ItemFails(h) ==
    /\ Batch(h)
    /\ \/ At(h, "item") /\ \E i \in req[h].todo : Become(h, [req[h] EXCEPT !.todo = @ \ {i}])
       \/ req[h].pc \in {"number", "insert", "look", "take"} /\ ItemError(h)
    /\ UNCHANGED <<data, sent>>

(* A batch stores its response under its key in the same transaction: a    *)
(* key stored meanwhile fails the request.                                 *)
KeyOverwritten(h) == FALSE
KeyTaken(h) == Batch(h) /\ req[h].key \in keys
Written(h) == [c \in Creatives |-> View(h, c)]
Commit(h) ==
    /\ At(h, "commit") \/ (At(h, "item") /\ req[h].todo = {})
    /\ IF KeyTaken(h) THEN UNCHANGED data /\ Become(h, Idle)
       ELSE /\ Finish(h)
            /\ fam' = [f \in Families |-> IF f \in req[h].made THEN "active" ELSE fam[f]]
            /\ dna' = Written(h)
            /\ proposals' = [p \in Proposals |-> IF p \in req[h].drop
                               THEN [proposals[p] EXCEPT !.state = "gone"] ELSE proposals[p]]
            /\ keys' = IF Batch(h) THEN keys \cup {req[h].key} ELSE keys
            /\ ran' = IF Batch(h) THEN [ran EXCEPT ![req[h].key] = @ + 1] ELSE ran
    /\ UNCHANGED sent

(* Keys older than 24 hours are deleted by the next lookup.                *)
KeyExpires(k) ==
    /\ k \in keys
    /\ keys' = keys \ {k} /\ ran' = [ran EXCEPT ![k] = 0]
    /\ UNCHANGED <<fam, dna, proposals, req, sent>>

-----------------------------------------------------------------------------
(* The members that were listed become scattered, wherever they are now.   *)
Release(h) ==
    /\ At(h, "release") /\ Free(h, req[h].seen)
    /\ dna' = [c \in Creatives |-> IF c \in req[h].seen THEN None ELSE dna[c]]
    /\ fam' = [fam EXCEPT ![req[h].fam] = "archived"]
    /\ Finish(h)
    /\ UNCHANGED <<proposals, keys, ran, sent>>

(* Reactivation brings no members back.                                    *)
Reactivate ==
    /\ sent < MaxRequests /\ sent' = sent + 1
    /\ \E f \in Existing \ Active : fam' = [fam EXCEPT ![f] = "active"]
    /\ UNCHANGED <<dna, proposals, keys, ran, req>>

(* The worker's UPDATE has no condition on what it read before the call.   *)
AutoWrite(h) ==
    /\ At(h, "auto") /\ Free(h, req[h].seen)
    /\ dna' = [c \in Creatives |-> IF c \in req[h].seen THEN req[h].fam ELSE dna[c]]
    /\ Finish(h)
    /\ UNCHANGED <<fam, proposals, keys, ran, sent>>

(* The old proposals are deleted with the new ones.                        *)
SuggestWrite(h) ==
    /\ At(h, "suggest") /\ Deletable(h, Open)
    /\ \E ps \in (SUBSET Unread) \ {{}} :
       \E g \in [ps -> (SUBSET req[h].seen) \ {{}}], into \in [ps -> req[h].fams \cup {None}] :
         /\ \A p \in ps : into[p] = None => Cardinality(g[p]) >= 2
         /\ \A p, q \in ps : p # q => g[p] \cap g[q] = {}
         /\ proposals' = [q \in Proposals |->
              IF q \in ps THEN [state |-> "open", into |-> into[q], members |-> g[q]]
              ELSE IF q \in Open THEN [proposals[q] EXCEPT !.state = "gone"]
              ELSE proposals[q]]
    /\ Become(h, Idle)
    /\ UNCHANGED <<fam, dna, keys, ran, sent>>

Dismiss ==
    /\ \E p \in Open : /\ \A h \in Handlers : p \notin req[h].drop
                       /\ proposals' = [proposals EXCEPT ![p].state = "gone"]
    /\ UNCHANGED <<fam, dna, keys, ran, req, sent>>

(* Any request may fail before its commit; nothing of it stays.            *)
Fails(h) ==
    /\ ~At(h, "idle") /\ Become(h, Idle)
    /\ UNCHANGED <<data, sent>>

-----------------------------------------------------------------------------
Step(h) ==
    \/ Create(h) \/ Confirm(h) \/ Assign(h) \/ Unassign(h) \/ Deactivate(h)
    \/ AutoAssign(h) \/ Suggest(h) \/ ConfirmItem(h) \/ Number(h) \/ Insert(h) \/ Look(h) \/ Take(h)
    \/ AssignItem(h) \/ UnassignItem(h) \/ ItemFails(h) \/ Commit(h) \/ Release(h) \/ AutoWrite(h)
    \/ SuggestWrite(h) \/ Fails(h)

Next == \/ \E h \in Handlers : Step(h)
        \/ \E k \in Keys : KeyExpires(k)
        \/ Reactivate \/ Dismiss

Spec == Init /\ [][Next]_vars

-----------------------------------------------------------------------------
Request ==
    [pc : {"idle", "item", "number", "insert", "look", "take", "commit", "release", "auto",
           "suggest"},
     op : {"none", "create", "confirm", "assign", "unassign", "archive", "auto", "suggest"},
     key : Keys \cup {NoKey}, fam : Families \cup {None}, fams : SUBSET Families,
     todo : SUBSET (Creatives \cup Proposals), item : Proposals \cup {NoProposal},
     seen : SUBSET Creatives, staged : SUBSET (Creatives \X (Families \cup {None})),
     drop : SUBSET Proposals, made : SUBSET Families, code : Families \cup {None},
     tries : 0..1, base : Nat, disturbed : BOOLEAN, sure : SUBSET (Families \cup {None})]

TypeOK ==
    /\ fam \in [Families -> {"none", "active", "archived"}]
    /\ dna \in [Creatives -> Existing \cup {None}]
    /\ proposals \in [Proposals -> [state : {"unread", "open", "gone"},
                                    into : Existing \cup {None}, members : SUBSET Creatives]]
    /\ keys \subseteq Keys /\ ran \in [Keys -> Nat]
    /\ req \in [Handlers -> Request] /\ sent \in 0..MaxRequests

(* A batch repeated with its key, even while the first still runs, takes   *)
(* effect once within 24 hours.                                            *)
OncePerKey == \A k \in Keys : ran[k] <= 1

(* A creation is refused for its number only when two other families were  *)
(* created while it ran: no archived family's code gets in its way.        *)
ConflictNeedsTwo ==
    \A h \in Handlers : Taken(h) /\ req[h].tries = 1 =>
        Cardinality(Existing) >= req[h].base + 2

(* The one guards what a request does, the other what it is refused for.    *)
FamilyRequestsHold == OncePerKey /\ ConflictNeedsTwo

(* A family that a batch creates has a member when the batch commits,      *)
(* unless another request committed while its proposal was confirmed.      *)
MembersStep ==
    \A h \in Handlers : \A f \in req[h].made \cap req[h].sure :
        Batch(h) /\ fam[f] = "none" /\ fam'[f] = "active"
            => \E c \in Creatives : dna'[c] = f
BatchFamilyHasMembers == [][MembersStep]_vars

(* deactivate_family: all members become scattered; an archived family     *)
(* takes no members.  Not kept by an assignment that checked before.        *)
ArchivedIsEmpty == \A c \in Creatives : dna[c] # None => fam[dna[c]] = "active"
=============================================================================
