----------------------------- MODULE SharedCards -----------------------------
(***************************************************************************)
(* get_card with the cache all judging threads share: a batch looks in its *)
(* own cache, then in the shared one, which it locks; the model is asked   *)
(* without the lock, and the lock is taken again to store the card.  The   *)
(* shared cache keeps the last CacheLimit keys used, and no failures.       *)
(*                                                                         *)
(* StoredAnyway (a card built meanwhile is overwritten) is a bug the       *)
(* property is known to catch: nothing below uses it.                      *)
(***************************************************************************)
EXTENDS Naturals, Sequences, SequencesExt

CONSTANTS Keys,            \* evidence texts, with model and versions
          Threads, CacheLimit,
          MaxBuilds        \* bound on the cards the model returns

VARIABLES shared,          \* the keys kept, the latest used last
          kept,            \* their cards
          batch,           \* the card a thread's batch has for a key
          asking,          \* the key a thread asks the model about
          builds,          \* cards returned so far; a card is its number
          era              \* history: how often a key was dropped

vars == <<shared, kept, batch, asking, builds, era>>
NoKey == "nokey"
Unseen == [card |-> 0, era |-> 0, seen |-> FALSE]
Has(k) == \E i \in DOMAIN shared : shared[i] = k
Place(k) == CHOOSE i \in DOMAIN shared : shared[i] = k
UsedNow(k) == IF Has(k) THEN Append(RemoveAt(shared, Place(k)), k) ELSE Append(shared, k)

Init ==
    /\ shared = <<>> /\ kept = [k \in Keys |-> 0]
    /\ batch = [t \in Threads |-> [k \in Keys |-> Unseen]]
    /\ asking = [t \in Threads |-> NoKey] /\ builds = 0 /\ era = [k \in Keys |-> 0]

Holds(t, k, c) == batch' = [batch EXCEPT ![t][k] = [card |-> c, era |-> era[k], seen |-> TRUE]]

GetCard(t, k) ==
    /\ asking[t] = NoKey /\ ~batch[t][k].seen
    /\ \/ Has(k) /\ Holds(t, k, kept[k]) /\ shared' = UsedNow(k) /\ UNCHANGED asking
       \/ ~Has(k) /\ asking' = [asking EXCEPT ![t] = k] /\ UNCHANGED <<shared, batch>>
    /\ UNCHANGED <<kept, builds, era>>

(* The first card stored for a key is the one everybody gets; the oldest   *)
(* key goes when there are too many.                                       *)
StoredAnyway(k) == TRUE
Stored(k) == ~Has(k)
Store(t, k) ==
    IF Stored(k)
    THEN /\ builds' = builds + 1 /\ kept' = [kept EXCEPT ![k] = builds + 1]
         /\ Holds(t, k, builds + 1)
         /\ LET long == Len(UsedNow(k)) > CacheLimit IN
            /\ shared' = IF long THEN Tail(UsedNow(k)) ELSE UsedNow(k)
            /\ era' = IF long THEN [era EXCEPT ![Head(shared)] = @ + 1] ELSE era
    ELSE Holds(t, k, kept[k]) /\ shared' = UsedNow(k) /\ UNCHANGED <<builds, kept, era>>

Answer(t) ==
    /\ asking[t] # NoKey /\ builds < MaxBuilds
    /\ asking' = [asking EXCEPT ![t] = NoKey] /\ Store(t, asking[t])

(* No card could be made: this batch has none, unless another thread has   *)
(* stored one meanwhile.                                                   *)
NoAnswer(t) ==
    LET k == asking[t] IN
    /\ k # NoKey /\ asking' = [asking EXCEPT ![t] = NoKey]
    /\ Holds(t, k, IF Has(k) THEN kept[k] ELSE 0)
    /\ shared' = IF Has(k) THEN UsedNow(k) ELSE shared
    /\ UNCHANGED <<kept, builds, era>>

NewBatch(t) ==
    /\ asking[t] = NoKey /\ batch' = [batch EXCEPT ![t] = [k \in Keys |-> Unseen]]
    /\ UNCHANGED <<shared, kept, asking, builds, era>>

Next == \E t \in Threads : (\E k \in Keys : GetCard(t, k)) \/ Answer(t) \/ NoAnswer(t)
                           \/ NewBatch(t)
Spec == Init /\ [][Next]_vars

-----------------------------------------------------------------------------
TypeOK == /\ Len(shared) <= CacheLimit /\ builds \in 0..MaxBuilds
          /\ \A t \in Threads : asking[t] \in Keys \cup {NoKey}

(* Threads that asked about the same evidence at the same time go on with  *)
(* the same card, whatever the model told each of them, as long as the     *)
(* key was not dropped between them.                                       *)
OneCardPerKey ==
    \A t, u \in Threads : \A k \in Keys :
        LET b == batch[t][k] c == batch[u][k] IN
        b.card # 0 /\ c.card # 0 /\ b.era = c.era => b.card = c.card
=============================================================================
