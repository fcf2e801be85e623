------------------------------ MODULE FoldLemmas ------------------------------
(***************************************************************************)
(* What folds over finite sets compute, and how many elements and couples   *)
(* they have, for the proofs about modules that fold and count. The provers *)
(* cannot instantiate a fact about any operator, so what is folded and the  *)
(* element taken first are functions here; and they cannot do induction, so *)
(* the smallest counterexample is refuted.                                  *)
(***************************************************************************)
EXTENDS Integers, FiniteSetTheorems, WellFoundedInduction, TLAPS

(* Every set of numbers that is not empty has a least one.                  *)
LEMMA LeastNumber ==
    ASSUME NEW T, T \subseteq Nat, T # {}
    PROVE  \E x \in T : \A y \in T : x <= y
<1>1. PICK x \in T : \A y \in T : ~(<<y, x>> \in OpToRel(<, Nat))
  BY NatLessThanWellFounded, WFMin, Zenon
<1>2. \A y \in T : ~(y < x) BY <1>1 DEF OpToRel
<1> QED BY <1>2

(* Of finite sets, one has no other among its subsets.                      *)
LEMMA SmallestSet ==
    ASSUME NEW Bad, Bad # {}, \A s \in Bad : IsFiniteSet(s)
    PROVE  \E s \in Bad : \A t \in Bad : t \subseteq s => t = s
<1> DEFINE sizes == {Cardinality(s) : s \in Bad}
<1>1. sizes \subseteq Nat
  <2> SUFFICES ASSUME NEW s \in Bad PROVE Cardinality(s) \in Nat OBVIOUS
  <2> QED BY FS_CardinalityType
<1>2. sizes # {} OBVIOUS
<1>3. PICK n \in sizes : \A m \in sizes : n <= m BY <1>1, <1>2, LeastNumber
<1>4. PICK s \in Bad : n = Cardinality(s) OBVIOUS
<1>5. ASSUME NEW t \in Bad, t \subseteq s, t # s PROVE FALSE
  <2>1. Cardinality(t) <= Cardinality(s) /\ Cardinality(t) # Cardinality(s)
    BY <1>5, FS_Subset
  <2>2. n <= Cardinality(t) BY <1>3
  <2>3. Cardinality(t) \in Nat /\ Cardinality(s) \in Nat BY FS_CardinalityType
  <2> QED BY <1>4, <2>1, <2>2, <2>3
<1> QED BY <1>5

-----------------------------------------------------------------------------
(* A fold over the subsets of S: what f makes of the element that first      *)
(* takes and of the fold over the others.                                  *)
IsFold(g, S, base, f, first) ==
    g = [s \in SUBSET S |-> IF s = {} THEN base ELSE f[<<first[s], g[s \ {first[s]}]>>]]

(* Two folds agree where both are defined.                                  *)
LEMMA FoldsAgree ==
    ASSUME NEW S, NEW R, NEW base, NEW f, NEW first, NEW g, NEW h,
           IsFold(g, S, base, f, first), IsFold(h, R, base, f, first),
           IsFiniteSet(S), \A s \in SUBSET S : s # {} => first[s] \in s,
           NEW u, u \subseteq S, u \subseteq R
    PROVE  g[u] = h[u]
<1> DEFINE Bad == {s \in SUBSET S : s \subseteq R /\ g[s] # h[s]}
<1>1. SUFFICES ASSUME Bad # {} PROVE FALSE OBVIOUS
<1>2. \A s \in Bad : IsFiniteSet(s) BY FS_Subset
<1>3. PICK s \in Bad : \A t \in Bad : t \subseteq s => t = s
  <2> HIDE DEF Bad
  <2> QED BY <1>1, <1>2, SmallestSet
<1> DEFINE x == first[s]
<1>4. s # {}
  <2> SUFFICES ASSUME s = {} PROVE FALSE OBVIOUS
  <2>1. g[s] = base /\ h[s] = base BY DEF IsFold
  <2> QED BY <2>1
<1>5. x \in s BY <1>4
<1>6. g[s \ {x}] = h[s \ {x}] BY <1>3, <1>5
<1>7. g[s] = f[<<x, g[s \ {x}]>>] BY <1>4 DEF IsFold
<1>8. h[s] = f[<<x, h[s \ {x}]>>] BY <1>4 DEF IsFold
<1> QED BY <1>6, <1>7, <1>8

(* There is a fold over the subsets of a finite set.                        *)
LEMMA FoldExists ==
    ASSUME NEW S, IsFiniteSet(S), NEW T, NEW base \in T, NEW f \in [S \X T -> T],
           NEW first, \A s \in SUBSET S : s # {} => first[s] \in s
    PROVE  \E g \in [SUBSET S -> T] : IsFold(g, S, base, f, first)
<1> DEFINE Folds(s) == {g \in [SUBSET s -> T] : IsFold(g, s, base, f, first)}
           Bad == {s \in SUBSET S : Folds(s) = {}}
<1>1. SUFFICES ASSUME Bad # {} PROVE FALSE OBVIOUS
<1>2. \A s \in Bad : IsFiniteSet(s) BY FS_Subset
<1>3. PICK s \in Bad : \A t \in Bad : t \subseteq s => t = s
  <2> HIDE DEF Bad
  <2> QED BY <1>1, <1>2, SmallestSet
<1> DEFINE Of(u) == CHOOSE g : g \in Folds(u)
           rest(u) == u \ {first[u]}
           g == [u \in SUBSET s |->
                    IF u = {} THEN base ELSE f[<<first[u], Of(rest(u))[rest(u)]>>]]
<1>4. ASSUME NEW u \in SUBSET s, u # {}
      PROVE  /\ first[u] \in u /\ first[u] \in S /\ rest(u) \in SUBSET s /\ rest(u) # s
             /\ Of(rest(u)) \in Folds(rest(u))
  <2>1. first[u] \in u BY <1>4
  <2>2. rest(u) \in SUBSET S /\ rest(u) \subseteq s /\ rest(u) # s BY <2>1
  <2>3. rest(u) \notin Bad BY <1>3, <2>2
  <2>4. Folds(rest(u)) # {} BY <2>2, <2>3
  <2> HIDE DEF Folds
  <2> QED BY <2>1, <2>2, <2>4
<1>5. ASSUME NEW u \in SUBSET s, u # {}
      PROVE  Of(rest(u))[rest(u)] \in T
  <2> DEFINE r == rest(u) h == Of(r)
  <2>1. h \in Folds(r) BY <1>4, <1>5
  <2> HIDE DEF h, r
  <2>2. h \in [SUBSET r -> T] BY <2>1
  <2>3. h[r] \in T BY <2>2
  <2> QED BY <2>3 DEF h, r
<1>6. g \in [SUBSET s -> T]
  <2> SUFFICES ASSUME NEW u \in SUBSET s PROVE g[u] \in T OBVIOUS
  <2>1. CASE u = {} BY <2>1
  <2>2. CASE u # {}
    <3>1. first[u] \in S /\ Of(rest(u))[rest(u)] \in T BY <1>4, <1>5, <2>2
    <3> HIDE DEF Of
    <3>2. <<first[u], Of(rest(u))[rest(u)]>> \in S \X T BY <3>1
    <3>3. f[<<first[u], Of(rest(u))[rest(u)]>>] \in T BY <3>2
    <3> QED BY <2>2, <3>3
  <2> QED BY <2>1, <2>2
<1>7. ASSUME NEW v \in SUBSET s, v # s PROVE g[v] = Of(v)[v]
  <2>1. Folds(v) # {}
    <3>1. v \in SUBSET S OBVIOUS
    <3>2. v \notin Bad
      <4> HIDE DEF Bad
      <4> QED BY <1>3, <1>7
    <3> HIDE DEF Folds
    <3> QED BY <3>1, <3>2
  <2> DEFINE h == Of(v)
  <2>2. h \in Folds(v)
    <3> HIDE DEF Folds
    <3> QED BY <2>1
  <2> HIDE DEF h
  <2>3. IsFold(h, v, base, f, first) BY <2>2
  <2>4. v \in SUBSET v OBVIOUS
  <2>5. h[v] = IF v = {} THEN base ELSE f[<<first[v], h[rest(v)]>>]
    BY <2>3, <2>4 DEF IsFold
  <2>6. CASE v = {} BY <2>5, <2>6 DEF h
  <2>7. CASE v # {}
    <3> DEFINE w == rest(v) k == Of(w)
    <3>1. k \in Folds(w) /\ w \subseteq v BY <1>4, <2>7
    <3>2. IsFiniteSet(v)
      <4>1. v \in SUBSET S OBVIOUS
      <4> QED BY <4>1, FS_Subset
    <3> HIDE DEF k
    <3>3. IsFold(k, w, base, f, first) BY <3>1
    <3>4. \A t \in SUBSET v : t # {} => first[t] \in t OBVIOUS
    <3> HIDE DEF w, Folds
    <3>5. h[w] = k[w] BY <2>3, <3>1, <3>2, <3>3, <3>4, FoldsAgree, SMTT(30)
    <3>6. g[v] = f[<<first[v], k[w]>>] BY <2>7 DEF k, w
    <3>7. h[v] = f[<<first[v], h[w]>>] BY <2>5, <2>7 DEF w
    <3> QED BY <3>5, <3>6, <3>7 DEF h
  <2> QED BY <2>6, <2>7
<1>8. ASSUME NEW u \in SUBSET s
      PROVE  g[u] = IF u = {} THEN base ELSE f[<<first[u], g[rest(u)]>>]
  <2>1. CASE u = {} BY <2>1
  <2>2. CASE u # {}
    <3>1. g[rest(u)] = Of(rest(u))[rest(u)] BY <1>4, <1>7, <2>2
    <3>2. g[u] = f[<<first[u], Of(rest(u))[rest(u)]>>] BY <2>2
    <3> HIDE DEF g, Of
    <3> QED BY <2>2, <3>1, <3>2
  <2> QED BY <2>1, <2>2
<1>9. g = [u \in SUBSET s |-> IF u = {} THEN base ELSE f[<<first[u], g[rest(u)]>>]]
  <2> HIDE DEF g
  <2> QED BY <1>6, <1>8
<1>10. g \in Folds(s)
  <2> HIDE DEF g
  <2> QED BY <1>6, <1>9 DEF IsFold
<1> QED BY <1>10
-----------------------------------------------------------------------------
(* Sums: of a weight over the elements of a finite set, any one first.      *)
IsSum(g, S, weight) ==
    /\ g \in [SUBSET S -> Nat] /\ g[{}] = 0
    /\ \A s \in SUBSET S : \A x \in s : g[s] = weight[x] + g[s \ {x}]
Total(S, weight) == (CHOOSE g : IsSum(g, S, weight))[S]

Adding(S, weight) == [p \in S \X Nat |-> weight[p[1]] + p[2]]

(* A fold that adds the weight of the element taken first is a sum.         *)
LEMMA AnyFirst ==
    ASSUME NEW S, IsFiniteSet(S), NEW weight, \A x \in S : weight[x] \in Nat,
           NEW first, \A s \in SUBSET S : s # {} => first[s] \in s,
           NEW g \in [SUBSET S -> Nat], IsFold(g, S, 0, Adding(S, weight), first)
    PROVE  IsSum(g, S, weight)
<1>1. ASSUME NEW s \in SUBSET S, s # {}
      PROVE  g[s] = weight[first[s]] + g[s \ {first[s]}]
  <2>1. first[s] \in S /\ s \ {first[s]} \in SUBSET S BY <1>1
  <2>2. g[s \ {first[s]}] \in Nat BY <2>1
  <2>3. g[s] = Adding(S, weight)[<<first[s], g[s \ {first[s]}]>>] BY <1>1 DEF IsFold
  <2> QED BY <2>1, <2>2, <2>3 DEF Adding
<1>2. g[{}] = 0 BY DEF IsFold
<1> DEFINE Bad == {s \in SUBSET S : \E x \in s : g[s] # weight[x] + g[s \ {x}]}
<1>3. SUFFICES ASSUME Bad # {} PROVE FALSE BY <1>2 DEF IsSum
<1>4. \A s \in Bad : IsFiniteSet(s) BY FS_Subset
<1>5. PICK s \in Bad : \A t \in Bad : t \subseteq s => t = s
  <2> HIDE DEF Bad
  <2> QED BY <1>3, <1>4, SmallestSet
<1>6. PICK x \in s : g[s] # weight[x] + g[s \ {x}] OBVIOUS
<1> DEFINE y == first[s]
<1>7. s # {} /\ y \in s /\ x # y BY <1>1, <1>6
<1>8. s \ {x} \notin Bad /\ s \ {y} \notin Bad
  <2> HIDE DEF Bad
  <2> QED BY <1>5, <1>6, <1>7
<1> DEFINE r == (s \ {x}) \ {y}
<1>9. g[s \ {x}] = weight[y] + g[r] BY <1>7, <1>8
<1>10. g[s \ {y}] = weight[x] + g[r]
  <2>1. r = (s \ {y}) \ {x} OBVIOUS
  <2> HIDE DEF r
  <2> QED BY <1>6, <1>7, <1>8, <2>1
<1>11. g[s] = weight[y] + g[s \ {y}] BY <1>1, <1>7
<1>12. weight[x] \in Nat /\ weight[y] \in Nat /\ g[r] \in Nat BY <1>6, <1>7
<1> QED BY <1>6, <1>9, <1>10, <1>11, <1>12

(* There is a sum over every finite set.                                    *)
LEMMA SumExists ==
    ASSUME NEW S, IsFiniteSet(S), NEW weight, \A x \in S : weight[x] \in Nat
    PROVE  \E g : IsSum(g, S, weight)
<1> DEFINE first == [s \in SUBSET S |-> CHOOSE x \in s : TRUE]
<1>1. \A s \in SUBSET S : s # {} => first[s] \in s OBVIOUS
<1>2. Adding(S, weight) \in [S \X Nat -> Nat]
  <2>1. \A p \in S \X Nat : weight[p[1]] + p[2] \in Nat OBVIOUS
  <2> QED BY <2>1 DEF Adding
<1>3. 0 \in Nat OBVIOUS
<1> HIDE DEF first
<1>4. PICK g \in [SUBSET S -> Nat] : IsFold(g, S, 0, Adding(S, weight), first)
  BY <1>1, <1>2, <1>3, FoldExists
<1> QED BY <1>1, <1>4, AnyFirst

(* Sums agree where both are defined.                                       *)
LEMMA SumsAgree ==
    ASSUME NEW S, NEW R, IsFiniteSet(S), NEW weight, NEW g, NEW h,
           IsSum(g, S, weight), IsSum(h, R, weight),
           NEW u, u \subseteq S, u \subseteq R
    PROVE  g[u] = h[u]
<1> DEFINE Bad == {s \in SUBSET S : s \subseteq R /\ g[s] # h[s]}
<1>1. SUFFICES ASSUME Bad # {} PROVE FALSE OBVIOUS
<1>2. \A s \in Bad : IsFiniteSet(s) BY FS_Subset
<1>3. PICK s \in Bad : \A t \in Bad : t \subseteq s => t = s
  <2> HIDE DEF Bad
  <2> QED BY <1>1, <1>2, SmallestSet
<1>4. s # {} BY DEF IsSum
<1>5. PICK x \in s : TRUE BY <1>4
<1>6. g[s \ {x}] = h[s \ {x}] BY <1>3, <1>5
<1>7. g[s] = weight[x] + g[s \ {x}] BY <1>5 DEF IsSum
<1>8. h[s] = weight[x] + h[s \ {x}] BY <1>5 DEF IsSum
<1> QED BY <1>6, <1>7, <1>8

LEMMA TotalIsSum ==
    ASSUME NEW S, IsFiniteSet(S), NEW weight, \A x \in S : weight[x] \in Nat,
           NEW g, IsSum(g, S, weight)
    PROVE  Total(S, weight) = g[S]
<1> DEFINE h == CHOOSE k : IsSum(k, S, weight)
<1>1. IsSum(h, S, weight) BY SumExists
<1> HIDE DEF h
<1>2. S \subseteq S OBVIOUS
<1>3. h[S] = g[S] BY <1>1, <1>2, SumsAgree
<1> QED BY <1>3 DEF Total, h

(* The total of nothing is 0, any element can be taken out.                 *)
LEMMA TotalIsThis ==
    ASSUME NEW S, IsFiniteSet(S), NEW weight, \A x \in S : weight[x] \in Nat
    PROVE  /\ Total(S, weight) \in Nat
           /\ S = {} => Total(S, weight) = 0
           /\ \A x \in S : Total(S, weight) = weight[x] + Total(S \ {x}, weight)
<1>1. PICK g : IsSum(g, S, weight) BY SumExists
<1>2. Total(S, weight) = g[S] BY <1>1, TotalIsSum
<1>3. g[S] \in Nat /\ (S = {} => g[S] = 0) BY <1>1 DEF IsSum
<1>4. ASSUME NEW x \in S PROVE Total(S, weight) = weight[x] + Total(S \ {x}, weight)
  <2> DEFINE R == S \ {x}
  <2>1. IsFiniteSet(R) /\ \A y \in R : weight[y] \in Nat BY FS_RemoveElement
  <2> HIDE DEF R
  <2>2. PICK h : IsSum(h, R, weight) BY <2>1, SumExists
  <2>3. Total(R, weight) = h[R] BY <2>1, <2>2, TotalIsSum
  <2>4. R \subseteq S /\ R \subseteq R BY DEF R
  <2>5. g[R] = h[R] BY <1>1, <2>2, <2>4, SumsAgree
  <2>6. g[S] = weight[x] + g[R] BY <1>1 DEF IsSum, R
  <2> QED BY <1>2, <2>3, <2>5, <2>6 DEF R
<1> QED BY <1>2, <1>3, <1>4

(* Sets whose elements correspond, with equal weights, have equal totals.   *)
LEMMA TotalOfImage ==
    ASSUME NEW S, IsFiniteSet(S), NEW weight, \A x \in S : weight[x] \in Nat,
           NEW R, IsFiniteSet(R), NEW other, NEW b \in [S -> R],
           \A x \in S : other[b[x]] = weight[x],
           \A x, y \in S : b[x] = b[y] => x = y,
           \A z \in R : \E x \in S : z = b[x]
    PROVE  Total(R, other) = Total(S, weight)
<1> DEFINE Image(s) == {b[x] : x \in s}
           Bad == {s \in SUBSET S : Total(Image(s), other) # Total(s, weight)}
<1>1. Image(S) = R OBVIOUS
<1>2. SUFFICES ASSUME Bad # {} PROVE FALSE
  <2>1. S \in SUBSET S /\ S \notin Bad BY <1>2
  <2> HIDE DEF Image
  <2> QED BY <1>1, <2>1
<1>3. \A s \in Bad : IsFiniteSet(s) BY FS_Subset
<1>4. PICK s \in Bad : \A t \in Bad : t \subseteq s => t = s
  <2> HIDE DEF Bad
  <2> QED BY <1>2, <1>3, SmallestSet
<1>5. /\ IsFiniteSet(s) /\ \A x \in s : weight[x] \in Nat
      /\ IsFiniteSet(Image(s)) /\ \A z \in Image(s) : other[z] \in Nat
  <2>1. Image(s) \in SUBSET R OBVIOUS
  <2>2. IsFiniteSet(s) /\ s \in SUBSET S BY <1>3
  <2>3. IsFiniteSet(Image(s)) BY <2>1, FS_Subset
  <2> QED BY <2>2, <2>3
<1>6. s # {}
  <2> SUFFICES ASSUME s = {} PROVE FALSE OBVIOUS
  <2>1. Image(s) = {} OBVIOUS
  <2>2. Total(s, weight) = 0 /\ Total(Image(s), other) = 0
    <3> HIDE DEF Image
    <3> QED BY <1>5, <2>1, TotalIsThis
  <2> QED BY <2>2
<1>7. PICK x \in s : TRUE BY <1>6
<1>8. Image(s \ {x}) = Image(s) \ {b[x]} /\ b[x] \in Image(s) OBVIOUS
<1>9. Total(Image(s \ {x}), other) = Total(s \ {x}, weight)
  <2>1. s \ {x} \notin Bad
    <3> HIDE DEF Bad
    <3> QED BY <1>4, <1>7
  <2> HIDE DEF Image
  <2> QED BY <2>1
<1>10. Total(s, weight) = weight[x] + Total(s \ {x}, weight) BY <1>5, <1>7, TotalIsThis
<1>11. Total(Image(s), other) = other[b[x]] + Total(Image(s) \ {b[x]}, other)
  <2> HIDE DEF Image
  <2> QED BY <1>5, <1>8, TotalIsThis
<1>12. Total(Image(s), other) = Total(s, weight)
  <2> HIDE DEF Image
  <2> QED BY <1>7, <1>8, <1>9, <1>10, <1>11
<1> QED BY <1>12

(* The sums of the community modules take the element chosen first.          *)
ChoosingSum(h, S, weight) ==
    h = [s \in SUBSET S |-> IF s = {} THEN 0
                            ELSE weight[CHOOSE x \in s : TRUE] + h[s \ {CHOOSE x \in s : TRUE}]]

LEMMA SumChosen ==
    ASSUME NEW S, IsFiniteSet(S), NEW weight, \A x \in S : weight[x] \in Nat
    PROVE  /\ \E h : ChoosingSum(h, S, weight)
           /\ \A h : ChoosingSum(h, S, weight) => h[S] = Total(S, weight)
<1> DEFINE some(s) == CHOOSE x \in s : TRUE
<1>1. PICK g : IsSum(g, S, weight) BY SumExists
<1>2. \A s \in SUBSET S : s # {} => some(s) \in s OBVIOUS
<1> HIDE DEF some
<1>3. \A s \in SUBSET S : g[s] = IF s = {} THEN 0 ELSE weight[some(s)] + g[s \ {some(s)}]
  BY <1>1, <1>2 DEF IsSum
<1>4. ChoosingSum(g, S, weight)
  <2>1. g = [s \in SUBSET S |-> IF s = {} THEN 0 ELSE weight[some(s)] + g[s \ {some(s)}]]
    BY <1>1, <1>3 DEF IsSum
  <2> QED BY <2>1 DEF ChoosingSum, some
<1>5. ASSUME NEW h, ChoosingSum(h, S, weight) PROVE h[S] = g[S]
  <2> DEFINE Bad == {s \in SUBSET S : h[s] # g[s]}
  <2>1. \A s \in SUBSET S : h[s] = IF s = {} THEN 0 ELSE weight[some(s)] + h[s \ {some(s)}]
    BY <1>5 DEF ChoosingSum, some
  <2>2. Bad = {}
    <3> SUFFICES ASSUME Bad # {} PROVE FALSE OBVIOUS
    <3>1. \A s \in Bad : IsFiniteSet(s) BY FS_Subset
    <3>2. PICK s \in Bad : \A t \in Bad : t \subseteq s => t = s
      <4> HIDE DEF Bad
      <4> QED BY <3>1, SmallestSet
    <3>3. s # {} BY <1>3, <2>1
    <3>4. s \ {some(s)} \in SUBSET S /\ s \ {some(s)} # s BY <1>2, <3>3
    <3>5. s \ {some(s)} \notin Bad
      <4> HIDE DEF Bad
      <4> QED BY <3>2, <3>4
    <3>6. h[s \ {some(s)}] = g[s \ {some(s)}] BY <3>4, <3>5
    <3> QED BY <1>3, <2>1, <3>3, <3>6
  <2> QED BY <2>2
<1>6. Total(S, weight) = g[S] BY <1>1, TotalIsSum
<1> QED BY <1>4, <1>5, <1>6

-----------------------------------------------------------------------------
(* Recursion over the numbers: there is one function for a start and a step. *)
Steps(g, n, base, step) ==
    g[0] = base /\ \A i \in 1..n : g[i] = step[<<i - 1, g[i - 1]>>]

Follows(g, base, step) == g[0] = base /\ \A n \in Nat : g[n + 1] = step[<<n, g[n]>>]

LEMMA StepsAgree ==
    ASSUME NEW base, NEW step, NEW n \in Nat, NEW g, NEW h,
           Steps(g, n, base, step), Steps(h, n, base, step)
    PROVE  \A i \in 0..n : g[i] = h[i]
<1> DEFINE Bad == {i \in 0..n : g[i] # h[i]}
<1> SUFFICES ASSUME Bad # {} PROVE FALSE OBVIOUS
<1>1. PICK i \in Bad : \A j \in Bad : i <= j
  <2> Bad \subseteq Nat OBVIOUS
  <2> HIDE DEF Bad
  <2> QED BY LeastNumber
<1>2. i # 0 /\ i \in 1..n BY DEF Steps
<1>3. i - 1 \notin Bad /\ i - 1 \in 0..n
  <2> HIDE DEF Bad
  <2> QED BY <1>1, <1>2
<1> QED BY <1>2, <1>3 DEF Steps

LEMMA RecursionExists ==
    ASSUME NEW T, NEW base \in T, NEW step \in [Nat \X T -> T]
    PROVE  \E g \in [Nat -> T] : Follows(g, base, step)
<1> DEFINE Parts(n) == {g \in [0..n -> T] : Steps(g, n, base, step)}
           Bad == {n \in Nat : Parts(n) = {}}
<1>1. Bad = {}
  <2> SUFFICES ASSUME Bad # {} PROVE FALSE OBVIOUS
  <2>1. PICK n \in Bad : \A m \in Bad : n <= m
    <3> Bad \subseteq Nat OBVIOUS
    <3> HIDE DEF Bad
    <3> QED BY LeastNumber
  <2>2. n # 0
    <3>1. [i \in 0..0 |-> base] \in Parts(0) BY DEF Steps
    <3> QED BY <3>1
  <2>3. n - 1 \in Nat /\ n - 1 \notin Bad
    <3> n \in Nat OBVIOUS
    <3> HIDE DEF Bad
    <3> QED BY <2>1, <2>2
  <2>4. PICK g \in [0..(n - 1) -> T] : Steps(g, n - 1, base, step) BY <2>3
  <2> DEFINE h == [i \in 0..n |-> IF i = n THEN step[<<n - 1, g[n - 1]>>] ELSE g[i]]
  <2>5. g[n - 1] \in T /\ <<n - 1, g[n - 1]>> \in Nat \X T BY <2>3, <2>4
  <2>6. step[<<n - 1, g[n - 1]>>] \in T BY <2>5
  <2>7. n \in Nat OBVIOUS
  <2> HIDE DEF Bad, Parts
  <2>8. h \in [0..n -> T] BY <2>4, <2>6, <2>7
  <2>9. Steps(h, n, base, step)
    <3>1. h[0] = base BY <2>2, <2>4, <2>7 DEF Steps
    <3>2. ASSUME NEW i \in 1..n PROVE h[i] = step[<<i - 1, h[i - 1]>>]
      <4>1. h[i - 1] = g[i - 1] BY <2>7
      <4>2. i # n => i \in 1..(n - 1) /\ h[i] = g[i] BY <2>7
      <4>3. i # n => g[i] = step[<<i - 1, g[i - 1]>>] BY <2>4, <4>2 DEF Steps
      <4>4. h[n] = step[<<n - 1, g[n - 1]>>] BY <2>7
      <4>5. CASE i = n BY <4>1, <4>4, <4>5
      <4> QED BY <4>1, <4>2, <4>3, <4>5
    <3> QED BY <3>1, <3>2 DEF Steps
  <2> QED BY <2>8, <2>9 DEF Bad, Parts
<1> DEFINE part(n) == CHOOSE g : g \in Parts(n)
           g == [n \in Nat |-> part(n)[n]]
<1>2. \A n \in Nat : part(n) \in [0..n -> T] /\ Steps(part(n), n, base, step)
  <2> SUFFICES ASSUME NEW n \in Nat PROVE part(n) \in Parts(n) OBVIOUS
  <2>1. Parts(n) # {} BY <1>1
  <2> HIDE DEF Parts
  <2> QED BY <2>1
<1> HIDE DEF part
<1>3. g \in [Nat -> T]
  <2> SUFFICES ASSUME NEW n \in Nat PROVE part(n)[n] \in T OBVIOUS
  <2>1. n \in 0..n /\ part(n) \in [0..n -> T] BY <1>2
  <2> QED BY <2>1
<1>4. g[0] = base BY <1>2 DEF Steps
<1>5. ASSUME NEW n \in Nat PROVE g[n + 1] = step[<<n, g[n]>>]
  <2>1. Steps(part(n + 1), n + 1, base, step) BY <1>2
  <2>2. Steps(part(n), n, base, step) BY <1>2
  <2>3. Steps(part(n + 1), n, base, step) BY <2>1 DEF Steps
  <2>4. part(n + 1)[n] = part(n)[n] BY <2>2, <2>3, StepsAgree
  <2>5. part(n + 1)[n + 1] = step[<<n, part(n + 1)[n]>>] BY <2>1 DEF Steps
  <2> QED BY <2>4, <2>5
<1> HIDE DEF g
<1>6. Follows(g, base, step) BY <1>4, <1>5 DEF Follows
<1> QED BY <1>3, <1>6

-----------------------------------------------------------------------------
(* Counting: a set that is in disjoint parts has as many elements as the     *)
(* parts have in total.                                                    *)
LEMMA TotalOfParts ==
    ASSUME NEW S, IsFiniteSet(S), NEW part, \A x \in S : IsFiniteSet(part[x]),
           \A x, y \in S : x # y => part[x] \cap part[y] = {},
           NEW size, \A x \in S : size[x] = Cardinality(part[x])
    PROVE  /\ IsFiniteSet(UNION {part[x] : x \in S})
           /\ Cardinality(UNION {part[x] : x \in S}) = Total(S, size)
<1> DEFINE Whole(s) == UNION {part[x] : x \in s}
           Counts(s) == IsFiniteSet(Whole(s)) /\ Cardinality(Whole(s)) = Total(s, size)
           Bad == {s \in SUBSET S : ~Counts(s)}
<1>1. \A x \in S : size[x] \in Nat BY FS_CardinalityType
<1>2. SUFFICES ASSUME Bad # {} PROVE FALSE
  <2>1. Counts(S) BY <1>2
  <2> QED BY <2>1
<1>3. \A s \in Bad : IsFiniteSet(s) BY FS_Subset
<1>4. PICK s \in Bad : \A t \in Bad : t \subseteq s => t = s
  <2> HIDE DEF Bad
  <2> QED BY <1>2, <1>3, SmallestSet
<1>5. IsFiniteSet(s) /\ s \subseteq S /\ \A x \in s : size[x] \in Nat BY <1>1, <1>3, <1>4
<1>6. CASE s = {}
  <2>1. Whole(s) = {} BY <1>6
  <2>2. Total(s, size) = 0 BY <1>5, <1>6, TotalIsThis
  <2> QED BY <1>4, <2>1, <2>2, FS_EmptySet
<1>7. CASE s # {}
  <2>1. PICK x \in s : TRUE BY <1>7
  <2> DEFINE r == s \ {x}
  <2>2. r \in SUBSET S /\ r \subseteq s /\ r # s BY <1>5, <2>1
  <2>3. Counts(r) BY <1>4, <2>2
  <2>4. Whole(s) = Whole(r) \cup part[x] BY <2>1
  <2>5. Whole(r) \cap part[x] = {} BY <1>5, <2>1
  <2>6. Total(s, size) = size[x] + Total(r, size) BY <1>5, <2>1, TotalIsThis
  <2> DEFINE w == Whole(r)
             p == part[x]
  <2>7. IsFiniteSet(w) /\ IsFiniteSet(p) /\ w \cap p = {} BY <1>5, <2>1, <2>3, <2>5
  <2>8. Cardinality(w) \in Nat /\ Cardinality(p) \in Nat /\ size[x] = Cardinality(p)
        /\ Cardinality(w) = Total(r, size)
    BY <1>5, <2>1, <2>3, <2>7, FS_CardinalityType
  <2>9. Whole(s) = w \cup p BY <2>4
  <2> HIDE DEF w, p, r, Whole
  <2>10. /\ IsFiniteSet(w \cup p)
         /\ Cardinality(w \cup p) = Cardinality(w) + Cardinality(p) - Cardinality(w \cap p)
    BY <2>7, FS_Union
  <2>11. Cardinality(w \cap p) = 0 BY <2>7, FS_EmptySet
  <2>12. Cardinality(w \cup p) = size[x] + Total(r, size) BY <2>8, <2>10, <2>11
  <2>13. Counts(s) BY <2>6, <2>9, <2>10, <2>12
  <2> QED BY <1>4, <2>13
<1> QED BY <1>6, <1>7

(* The couples of a set: n * (n - 1) \div 2 of n elements.                   *)
Couples(S) == {p \in SUBSET S : Cardinality(p) = 2}

LEMMA CoupleIsTwo ==
    ASSUME NEW p, IsFiniteSet(p)
    PROVE  Cardinality(p) = 2 <=> \E x, y : x # y /\ p = {x, y}
<1>1. ASSUME Cardinality(p) = 2 PROVE \E x, y : x # y /\ p = {x, y}
  <2>1. p # {} BY <1>1, FS_EmptySet
  <2>2. PICK x \in p : TRUE BY <2>1
  <2> DEFINE r == p \ {x}
  <2>3. IsFiniteSet(r) /\ Cardinality(r) = 1 BY <1>1, <2>2, FS_RemoveElement
  <2>4. PICK y : r = {y} BY <2>3, FS_Singleton
  <2>5. x # y /\ p = {x, y} BY <2>2, <2>4
  <2> QED BY <2>5
<1>2. ASSUME NEW x, NEW y, x # y, p = {x, y} PROVE Cardinality(p) = 2
  <2>1. IsFiniteSet({x}) /\ Cardinality({x}) = 1 BY FS_Singleton
  <2>2. y \notin {x} /\ p = {x} \cup {y} BY <1>2
  <2>3. Cardinality({x} \cup {y}) = Cardinality({x}) + 1
    <3> DEFINE one == {x}
    <3>1. IsFiniteSet(one) /\ y \notin one BY <2>1, <2>2
    <3> HIDE DEF one
    <3>2. Cardinality(one \cup {y}) = Cardinality(one) + 1 BY <3>1, FS_AddElement
    <3> QED BY <3>2 DEF one
  <2> QED BY <2>1, <2>2, <2>3
<1> QED BY <1>1, <1>2

LEMMA CouplesCounted ==
    ASSUME NEW S, IsFiniteSet(S)
    PROVE  /\ IsFiniteSet(Couples(S))
           /\ Cardinality(Couples(S)) = (Cardinality(S) * (Cardinality(S) - 1)) \div 2
<1> DEFINE Half(n) == (n * (n - 1)) \div 2
           Counts(s) == IsFiniteSet(Couples(s)) /\ Cardinality(Couples(s)) = Half(Cardinality(s))
           Bad == {s \in SUBSET S : ~Counts(s)}
<1>1. SUFFICES ASSUME Bad # {} PROVE FALSE
  <2>1. Counts(S) BY <1>1
  <2> QED BY <2>1
<1>2. \A s \in Bad : IsFiniteSet(s) BY FS_Subset
<1>3. PICK s \in Bad : \A t \in Bad : t \subseteq s => t = s
  <2> HIDE DEF Bad
  <2> QED BY <1>1, <1>2, SmallestSet
<1>4. IsFiniteSet(s) /\ s \subseteq S BY <1>2, <1>3
<1>5. \A t : t \subseteq s => IsFiniteSet(t) BY <1>4, FS_Subset
<1>6. CASE s = {}
  <2>1. Couples(s) = {}
    <3>1. ASSUME NEW p \in Couples(s) PROVE FALSE
      <4>1. p = {} /\ Cardinality(p) = 2 BY <1>6 DEF Couples
      <4> QED BY <4>1, FS_EmptySet
    <3> QED BY <3>1
  <2>2. Cardinality(s) = 0 /\ Cardinality(Couples(s)) = 0 /\ IsFiniteSet(Couples(s))
    BY <1>6, <2>1, FS_EmptySet
  <2> QED BY <1>3, <2>2
<1>7. CASE s # {}
  <2>1. PICK x \in s : TRUE BY <1>7
  <2> DEFINE r == s \ {x}
             news == {{x, y} : y \in r}
  <2>2. r \in SUBSET S /\ r \subseteq s /\ r # s BY <1>4, <2>1
  <2>3. IsFiniteSet(Couples(r)) /\ Cardinality(Couples(r)) = Half(Cardinality(r))
    BY <1>3, <2>2
  <2>4. IsFiniteSet(r) /\ Cardinality(r) \in Nat /\ Cardinality(s) = Cardinality(r) + 1
    <3>1. IsFiniteSet(r) /\ Cardinality(r) \in Nat BY <1>5, <2>2, FS_CardinalityType
    <3>2. s = r \cup {x} /\ x \notin r BY <2>1
    <3> HIDE DEF r
    <3> QED BY <3>1, <3>2, FS_AddElement
  <2>5. Couples(s) = Couples(r) \cup news
    <3>1. ASSUME NEW p \in Couples(s) PROVE p \in Couples(r) \cup news
      <4>1. p \subseteq s /\ Cardinality(p) = 2 BY DEF Couples
      <4>2. PICK a, b : a # b /\ p = {a, b} BY <1>5, <4>1, CoupleIsTwo
      <4>3. CASE x \notin p BY <4>1, <4>3 DEF Couples
      <4>4. CASE x \in p
        <5>1. PICK y : y # x /\ p = {x, y} BY <4>2, <4>4
        <5>2. y \in r BY <4>1, <5>1
        <5> QED BY <5>1, <5>2
      <4> QED BY <4>3, <4>4
    <3>2. Couples(r) \subseteq Couples(s) BY <2>2 DEF Couples
    <3>3. ASSUME NEW y \in r PROVE {x, y} \in Couples(s)
      <4>1. x # y /\ {x, y} \subseteq s BY <2>1
      <4>2. Cardinality({x, y}) = 2 BY <1>5, <4>1, CoupleIsTwo
      <4> QED BY <4>1, <4>2 DEF Couples
    <3> QED BY <3>1, <3>2, <3>3
  <2>6. Couples(r) \cap news = {}
    <3>1. \A p \in Couples(r) : x \notin p BY DEF Couples
    <3>2. \A p \in news : x \in p OBVIOUS
    <3> QED BY <3>1, <3>2
  <2>7. IsFiniteSet(news) /\ Cardinality(news) = Cardinality(r)
    <3> DEFINE f == [y \in r |-> {x, y}]
    <3>1. f \in [r -> news] OBVIOUS
    <3>2. \A y, z \in r : f[y] = f[z] => y = z
      <4> SUFFICES ASSUME NEW y \in r, NEW z \in r, {x, y} = {x, z} PROVE y = z OBVIOUS
      <4> QED OBVIOUS
    <3>3. \A p \in news : \E y \in r : f[y] = p OBVIOUS
    <3> HIDE DEF f, news
    <3>4. f \in Bijection(r, news) BY <3>1, <3>2, <3>3 DEF Bijection, Injection, Surjection, IsInjective
    <3>5. ExistsBijection(r, news) BY <3>4 DEF ExistsBijection
    <3> HIDE DEF r
    <3> QED BY <2>4, <3>5, FS_Bijection
  <2> DEFINE old == Couples(r)
             n == Cardinality(r)
  <2>8. Cardinality(old) = Half(n) /\ n \in Nat /\ Cardinality(s) = n + 1 /\ Cardinality(news) = n
        /\ old \cap news = {} /\ Couples(s) = old \cup news /\ IsFiniteSet(old) /\ IsFiniteSet(news)
    BY <2>3, <2>4, <2>5, <2>6, <2>7
  <2> HIDE DEF old, news, n, r
  <2>9. /\ IsFiniteSet(old \cup news)
        /\ Cardinality(old \cup news) = Cardinality(old) + Cardinality(news) - Cardinality(old \cap news)
    BY <2>8, FS_Union
  <2>10. Cardinality(old \cap news) = 0 BY <2>8, FS_EmptySet
  <2>11. Half(n) \in Int /\ Half(n) + n = Half(n + 1)
    <3> DEFINE q == n * (n - 1)
    <3>1. q \in Int /\ (n + 1) * ((n + 1) - 1) = q + 2 * n BY <2>8
    <3> HIDE DEF q
    <3>2. q \div 2 \in Int /\ (q + 2 * n) \div 2 = (q \div 2) + n BY <2>8, <3>1
    <3> QED BY <3>1, <3>2 DEF q
  <2> HIDE DEF Half
  <2>12. Cardinality(old \cup news) = Half(n + 1) BY <2>8, <2>9, <2>10, <2>11
  <2>13. Counts(s) BY <2>8, <2>9, <2>12
  <2> QED BY <1>3, <2>13
<1> QED BY <1>6, <1>7
=============================================================================
