------------------------------ MODULE FoldProofs ------------------------------
(***************************************************************************)
(* Lemmas about the folds that the models add up prices and stocks and go  *)
(* through materials with.  Induction is over sets in place of predicates: *)
(* a nonempty set of numbers has a least one.                              *)
(***************************************************************************)
EXTENDS Integers, FiniteSets, Sequences, SequencesExt, FiniteSetTheorems,
        WellFoundedInduction, TLAPS

\* Induction over numbers, for a set of them in place of a predicate.
LEMMA NumberInduction ==
    ASSUME NEW P, 0 \in P, \A n \in Nat : n \in P => n + 1 \in P
    PROVE  \A n \in Nat : n \in P
<1> DEFINE T == Nat \ P
<1> SUFFICES ASSUME T # {} PROVE FALSE
  OBVIOUS
<1>1. PICK n \in T : \A m \in T : ~ (<<m, n>> \in OpToRel(<, Nat))
  BY NatLessThanWellFounded, WFMin
<1>2. \A m \in Nat : m < n => m \in P
  BY <1>1 DEF OpToRel
<1>3. n # 0 /\ n - 1 \in Nat
  OBVIOUS
<1>4. n - 1 \in P
  BY <1>2, <1>3
<1> QED BY <1>3, <1>4

\* `pick' names an element of every subset of D that has one.
IsPick(pick, D) == \A s \in SUBSET D : s # {} => pick[s] \in s

\* Induction over the subsets of a finite set, an element at a time.
LEMMA SubsetInduction ==
    ASSUME NEW D, IsFiniteSet(D), NEW pick, IsPick(pick, D),
           NEW P, {} \in P, \A s \in SUBSET D : s # {} /\ s \ {pick[s]} \in P => s \in P
    PROVE  \A s \in SUBSET D : s \in P
<1> USE DEF IsPick
<1> DEFINE N == {n \in Nat : \A s \in SUBSET D : Cardinality(s) = n => s \in P}
<1>1. \A s \in SUBSET D : IsFiniteSet(s) /\ Cardinality(s) \in Nat
  BY FS_Subset, FS_CardinalityType
<1>2. 0 \in N
  BY <1>1, FS_EmptySet
<1>3. ASSUME NEW n \in Nat, n \in N PROVE n + 1 \in N
  <2> SUFFICES ASSUME NEW s \in SUBSET D, Cardinality(s) = n + 1 PROVE s \in P
    OBVIOUS
  <2>0. IsFiniteSet(s)
    BY <1>1
  <2>1. s # {} /\ pick[s] \in s
    BY <1>1, FS_EmptySet
  <2>2. Cardinality(s \ {pick[s]}) = Cardinality(s) - 1
    BY <2>0, <2>1, FS_RemoveElement
  <2>3. s \ {pick[s]} \in SUBSET D /\ Cardinality(s \ {pick[s]}) = n
    BY <2>2
  <2> QED BY <1>3, <2>1, <2>3
<1>4. \A n \in Nat : n \in N
  <2> HIDE DEF N
  <2> QED BY <1>2, <1>3, NumberInduction
<1> QED BY <1>1, <1>4

(***************************************************************************)
(* A fold over a finite set D: the function of the subsets that takes away *)
(* the element `pick' and combines it with what the rest gives.            *)
(***************************************************************************)
FoldStep(base, pick, step, g, s) ==
    IF s = {} THEN base ELSE step[<<pick[s], g[s \ {pick[s]}]>>]

IsFold(g, D, base, pick, step) ==
    \A s \in SUBSET D : g[s] = FoldStep(base, pick, step, g, s)

LEMMA FoldExists ==
    ASSUME NEW D, IsFiniteSet(D), NEW V, NEW base \in V, NEW step \in [D \X V -> V],
           NEW pick, IsPick(pick, D)
    PROVE  \E g : g \in [SUBSET D -> V] /\ IsFold(g, D, base, pick, step)
<1> USE DEF IsPick, IsFold
<1> DEFINE Small(n) == {s \in SUBSET D : Cardinality(s) <= n}
           Agrees(g, n) == \A s \in Small(n) : g[s] = FoldStep(base, pick, step, g, s)
           N == {n \in Nat : \E g \in [Small(n) -> V] : Agrees(g, n)}
<1>1. \A s \in SUBSET D : IsFiniteSet(s) /\ Cardinality(s) \in Nat
  BY FS_Subset, FS_CardinalityType
<1>2. 0 \in N
  <2>1. \A s \in Small(0) : s = {}
    BY <1>1, FS_EmptySet
  <2>2. Agrees([s \in Small(0) |-> base], 0)
    BY <2>1 DEF FoldStep
  <2> QED BY <2>2
<1>3. ASSUME NEW n \in Nat, n \in N PROVE n + 1 \in N
  <2> PICK g \in [Small(n) -> V] : Agrees(g, n)
    BY <1>3
  <2> DEFINE h == [s \in Small(n + 1) |-> FoldStep(base, pick, step, g, s)]
  <2>1. ASSUME NEW s \in Small(n + 1), s # {}
        PROVE  s \ {pick[s]} \in Small(n) /\ pick[s] \in D
    <3>1. Cardinality(s \ {pick[s]}) = Cardinality(s) - 1
      BY <1>1, <2>1, FS_RemoveElement
    <3> QED BY <1>1, <2>1, <3>1
  <2>2. \A s \in Small(n) : s \in Small(n + 1) /\ h[s] = g[s]
    <3> SUFFICES ASSUME NEW s \in Small(n) PROVE s \in Small(n + 1) /\ h[s] = g[s]
      OBVIOUS
    <3>1. s \in Small(n + 1)
      BY <1>1
    <3> QED BY <3>1
  <2>3. h \in [Small(n + 1) -> V]
    BY <2>1 DEF FoldStep
  <2>4. Agrees(h, n + 1)
    BY <2>1, <2>2 DEF FoldStep
  <2> HIDE DEF h, Agrees, Small
  <2>5. \E k \in [Small(n + 1) -> V] : Agrees(k, n + 1)
    BY <2>3, <2>4
  <2> QED BY <2>5
<1>4. Cardinality(D) \in N
  <2> HIDE DEF N
  <2>1. \A n \in Nat : n \in N
    BY <1>2, <1>3, NumberInduction
  <2> QED BY <2>1, FS_CardinalityType
<1>5. Small(Cardinality(D)) = SUBSET D
  BY FS_Subset
<1> QED BY <1>4, <1>5

\* Two functions that agree on the empty set, and on a set if they do on what
\* is left of it, agree.
LEMMA FoldIsUnique ==
    ASSUME NEW D, IsFiniteSet(D), NEW pick, IsPick(pick, D), NEW g, NEW h, g[{}] = h[{}],
           \A s \in SUBSET D :
               s # {} /\ g[s \ {pick[s]}] = h[s \ {pick[s]}] => g[s] = h[s]
    PROVE  \A s \in SUBSET D : g[s] = h[s]
<1> DEFINE P == {s \in SUBSET D : g[s] = h[s]}
<1>1. {} \in P
  OBVIOUS
<1>2. ASSUME NEW s \in SUBSET D, s # {}, s \ {pick[s]} \in P PROVE s \in P
  BY <1>2
<1>3. \A s \in SUBSET D : s \in P
  <2> HIDE DEF P
  <2> QED BY <1>1, <1>2, SubsetInduction
<1> QED BY <1>3
-----------------------------------------------------------------------------
(***************************************************************************)
(* The sum of a function over a finite set.  The library's sum over each   *)
(* subset of D is what one fold over D gives for it.                       *)
(***************************************************************************)
AnyOf(D) == [s \in SUBSET D |-> CHOOSE x \in s : TRUE]

Adding(f, D) == [p \in D \X Nat |-> f[p[1]] + p[2]]

AreNumbers(f, D) == \A x \in D : f[x] \in Nat

AddsUp(g, f, D) ==
    /\ g[{}] = 0
    /\ \A s \in SUBSET D : s # {} =>
        g[s] = f[CHOOSE x \in s : TRUE] + g[s \ {CHOOSE x \in s : TRUE}]

IsSum(g, f, D) == g \in [SUBSET D -> Nat] /\ AddsUp(g, f, D)

LEMMA AnyIsPick == ASSUME NEW D PROVE IsPick(AnyOf(D), D)
  BY DEF IsPick, AnyOf

LEMMA SumExists ==
    ASSUME NEW D, IsFiniteSet(D), NEW f, AreNumbers(f, D)
    PROVE  \E g : IsSum(g, f, D)
<1> DEFINE V == Nat
           zero == 0
<1>1. zero \in V /\ Adding(f, D) \in [D \X V -> V]
  BY DEF Adding, AreNumbers
<1>2. PICK g : g \in [SUBSET D -> V] /\ IsFold(g, D, zero, AnyOf(D), Adding(f, D))
  <2> HIDE DEF V, zero
  <2> QED BY <1>1, AnyIsPick, FoldExists
<1>3. g[{}] = 0
  BY <1>2 DEF IsFold, FoldStep
<1>4. ASSUME NEW s \in SUBSET D, s # {}
      PROVE  g[s] = f[CHOOSE x \in s : TRUE] + g[s \ {CHOOSE x \in s : TRUE}]
  <2> DEFINE x == CHOOSE x \in s : TRUE
  <2>1. AnyOf(D)[s] = x /\ x \in D /\ g[s \ {x}] \in Nat
    BY <1>2, <1>4 DEF AnyOf
  <2> HIDE DEF x
  <2>2. g[s] = Adding(f, D)[<<x, g[s \ {x}]>>]
    BY <1>2, <1>4, <2>1 DEF IsFold, FoldStep
  <2>3. g[s] = f[x] + g[s \ {x}]
    BY <2>1, <2>2 DEF Adding
  <2> QED BY <2>3 DEF x
<1> QED BY <1>2, <1>3, <1>4 DEF IsSum, AddsUp

LEMMA SumIsUnique ==
    ASSUME NEW D, IsFiniteSet(D), NEW f, AreNumbers(f, D), NEW g, IsSum(g, f, D),
           NEW h, AddsUp(h, f, D)
    PROVE  \A s \in SUBSET D : g[s] = h[s]
<1>1. g[{}] = h[{}]
  BY DEF IsSum, AddsUp
<1>2. ASSUME NEW s \in SUBSET D, s # {}, g[s \ {AnyOf(D)[s]}] = h[s \ {AnyOf(D)[s]}]
      PROVE  g[s] = h[s]
  <2> DEFINE x == CHOOSE x \in s : TRUE
  <2>1. AnyOf(D)[s] = x
    BY DEF AnyOf
  <2>2. g[s] = f[x] + g[s \ {x}] /\ h[s] = f[x] + h[s \ {x}]
    BY <1>2 DEF IsSum, AddsUp
  <2> QED BY <1>2, <2>1, <2>2
<1> QED BY <1>1, <1>2, AnyIsPick, FoldIsUnique

LEMMA SumsAgree ==
    ASSUME NEW D, IsFiniteSet(D), NEW f, AreNumbers(f, D), NEW g, IsSum(g, f, D),
           NEW s \in SUBSET D
    PROVE  SumFunctionOnSet(f, s) = g[s]
<1> DEFINE Step(h) == [t \in SUBSET s |-> IF t = {} THEN 0
                         ELSE f[CHOOSE x \in t : TRUE] + h[t \ {CHOOSE x \in t : TRUE}]]
           sum == CHOOSE h : h = Step(h)
           k == [t \in SUBSET s |-> g[t]]
<1>1. SumFunctionOnSet(f, s) = sum[s]
  BY DEF SumFunctionOnSet, FoldFunctionOnSet, MapThenFoldSet
<1>2. IsFiniteSet(s) /\ AreNumbers(f, s)
  BY FS_Subset DEF AreNumbers
<1>3. IsSum(k, f, s)
  <2>1. ASSUME NEW t \in SUBSET s, t # {}
        PROVE  k[t] = f[CHOOSE x \in t : TRUE] + k[t \ {CHOOSE x \in t : TRUE}]
    <3>1. t \in SUBSET D /\ t \ {CHOOSE x \in t : TRUE} \in SUBSET s
      OBVIOUS
    <3> QED BY <2>1, <3>1 DEF IsSum, AddsUp
  <2>2. k \in [SUBSET s -> Nat] /\ k[{}] = 0
    BY DEF IsSum, AddsUp
  <2> QED BY <2>1, <2>2 DEF IsSum, AddsUp
<1>4. k = Step(k)
  BY <1>3 DEF IsSum, AddsUp
<1>5. sum = Step(sum)
  <2> HIDE DEF Step, k
  <2> QED BY <1>4
<1>6. AddsUp(sum, f, s)
  <2> HIDE DEF sum
  <2> QED BY <1>5 DEF AddsUp
<1>7. k[s] = sum[s]
  <2> HIDE DEF sum, k
  <2>1. \A t \in SUBSET s : k[t] = sum[t]
    BY <1>2, <1>3, <1>6, SumIsUnique
  <2> QED BY <2>1
<1> QED BY <1>1, <1>7

\* The sum of natural numbers is one.
LEMMA SumType ==
    ASSUME NEW D, IsFiniteSet(D), NEW f, AreNumbers(f, D)
    PROVE  SumFunctionOnSet(f, D) \in Nat
<1>1. PICK g : IsSum(g, f, D)
  BY SumExists
<1>2. SumFunctionOnSet(f, D) = g[D]
  BY <1>1, SumsAgree
<1> QED BY <1>1, <1>2 DEF IsSum, AddsUp

LEMMA SumEmpty == ASSUME NEW f PROVE SumFunctionOnSet(f, {}) = 0
<1>1. IsFiniteSet({}) /\ AreNumbers(f, {})
  BY FS_EmptySet DEF AreNumbers
<1>2. PICK g : IsSum(g, f, {})
  BY <1>1, SumExists
<1>3. SumFunctionOnSet(f, {}) = g[{}]
  BY <1>1, <1>2, SumsAgree
<1> QED BY <1>2, <1>3 DEF IsSum, AddsUp

\* Whichever element is taken away, the order of adding does not matter.
LEMMA SumAnyOrder ==
    ASSUME NEW D, IsFiniteSet(D), NEW f, AreNumbers(f, D), NEW g, IsSum(g, f, D)
    PROVE  \A s \in SUBSET D : \A x \in s : g[s] = f[x] + g[s \ {x}]
<1> DEFINE N == {n \in Nat : \A s \in SUBSET D : \A x \in s :
                     Cardinality(s) <= n => g[s] = f[x] + g[s \ {x}]}
<1>1. \A s \in SUBSET D : IsFiniteSet(s) /\ Cardinality(s) \in Nat
  BY FS_Subset, FS_CardinalityType
<1>2. 0 \in N
  <2>1. ASSUME NEW s \in SUBSET D, Cardinality(s) <= 0 PROVE s = {}
    BY <1>1, <2>1, FS_EmptySet
  <2> QED BY <2>1
<1>3. ASSUME NEW n \in Nat, n \in N PROVE n + 1 \in N
  <2> SUFFICES ASSUME NEW s \in SUBSET D, NEW x \in s, Cardinality(s) <= n + 1
               PROVE  g[s] = f[x] + g[s \ {x}]
    OBVIOUS
  <2> DEFINE y == CHOOSE y \in s : TRUE
  <2>1. y \in s /\ g[s] = f[y] + g[s \ {y}]
    BY DEF IsSum, AddsUp
  <2> HIDE DEF y
  <2>2. CASE x = y
    BY <2>1, <2>2
  <2>3. CASE x # y
    <3>1. /\ Cardinality(s \ {x}) = Cardinality(s) - 1
          /\ Cardinality(s \ {y}) = Cardinality(s) - 1
      BY <1>1, <2>1, FS_RemoveElement
    <3>2. Cardinality(s \ {x}) <= n /\ Cardinality(s \ {y}) <= n
      BY <1>1, <3>1
    <3>3. g[s \ {x}] = f[y] + g[(s \ {x}) \ {y}]
      BY <1>3, <2>1, <2>3, <3>2
    <3>4. g[s \ {y}] = f[x] + g[(s \ {y}) \ {x}]
      BY <1>3, <2>1, <2>3, <3>2
    <3>5. (s \ {y}) \ {x} = (s \ {x}) \ {y}
      OBVIOUS
    <3>6. g[(s \ {x}) \ {y}] \in Nat /\ f[x] \in Nat /\ f[y] \in Nat
      BY <2>1 DEF IsSum, AddsUp, AreNumbers
    <3>7. g[s] = f[y] + (f[x] + g[(s \ {x}) \ {y}])
      BY <2>1, <3>4, <3>5
    <3>8. g[s] = f[x] + (f[y] + g[(s \ {x}) \ {y}])
      BY <3>6, <3>7
    <3> QED BY <3>3, <3>8
  <2> QED BY <2>2, <2>3
<1>4. \A n \in Nat : n \in N
  <2> HIDE DEF N
  <2> QED BY <1>2, <1>3, NumberInduction
<1>5. ASSUME NEW s \in SUBSET D, NEW x \in s PROVE g[s] = f[x] + g[s \ {x}]
  <2>1. Cardinality(s) \in N /\ Cardinality(s) <= Cardinality(s)
    BY <1>1, <1>4
  <2> QED BY <2>1
<1> QED BY <1>5

\* One more number.
LEMMA SumAdd ==
    ASSUME NEW D, IsFiniteSet(D), NEW f, AreNumbers(f, D), NEW x \in D
    PROVE  SumFunctionOnSet(f, D) = f[x] + SumFunctionOnSet(f, D \ {x})
<1>1. PICK g : IsSum(g, f, D)
  BY SumExists
<1>2. D \in SUBSET D /\ D \ {x} \in SUBSET D
  OBVIOUS
<1>3. SumFunctionOnSet(f, D) = g[D] /\ SumFunctionOnSet(f, D \ {x}) = g[D \ {x}]
  BY <1>1, <1>2, SumsAgree
<1>4. g[D] = f[x] + g[D \ {x}]
  BY <1>1, <1>2, SumAnyOrder
<1> QED BY <1>3, <1>4

\* The sum depends on the numbers only.
LEMMA SumEqual ==
    ASSUME NEW D, IsFiniteSet(D), NEW f, NEW h, AreNumbers(f, D), \A x \in D : f[x] = h[x]
    PROVE  SumFunctionOnSet(f, D) = SumFunctionOnSet(h, D)
<1>1. AreNumbers(h, D)
  BY DEF AreNumbers
<1>2. PICK g : IsSum(g, f, D)
  BY SumExists
<1>3. IsSum(g, h, D)
  BY <1>2 DEF IsSum, AddsUp
<1>4. SumFunctionOnSet(f, D) = g[D] /\ SumFunctionOnSet(h, D) = g[D]
  BY <1>1, <1>2, <1>3, SumsAgree
<1> QED BY <1>4
-----------------------------------------------------------------------------
(***************************************************************************)
(* A fold of a sequence from the left, as the library defines it: the      *)
(* greatest index is taken away, and what the rest gives is combined with  *)
(* its element.                                                            *)
(***************************************************************************)
GreatestOf(n) == [s \in SUBSET (1..n) |-> CHOOSE x \in s : \A y \in s : x >= y]

\* `g' folds the first n elements, `step' being given the index and the value.
FoldsLeft(g, n, base, step) ==
    /\ g[{}] = base
    /\ \A s \in SUBSET (1..n) : s # {} => g[s] = step[<<GreatestOf(n)[s], g[s \ {GreatestOf(n)[s]}]>>]

LEMMA GreatestIsPick == ASSUME NEW n \in Nat PROVE IsPick(GreatestOf(n), 1..n)
<1> DEFINE N == {k \in Nat : \A s \in SUBSET (1..k) : s # {} =>
                     \E x \in s : \A y \in s : x >= y}
<1>1. 0 \in N
  <2>1. 1..0 = {}
    OBVIOUS
  <2> QED BY <2>1
<1>2. ASSUME NEW k \in Nat, k \in N PROVE k + 1 \in N
  <2> SUFFICES ASSUME NEW s \in SUBSET (1..(k + 1)), s # {}
               PROVE  \E x \in s : \A y \in s : x >= y
    OBVIOUS
  <2>1. CASE k + 1 \in s
    BY <2>1
  <2>2. CASE k + 1 \notin s
    <3>1. s \in SUBSET (1..k)
      BY <2>2
    <3> QED BY <1>2, <3>1
  <2> QED BY <2>1, <2>2
<1>3. \A k \in Nat : k \in N
  <2> HIDE DEF N
  <2> QED BY <1>1, <1>2, NumberInduction
<1>4. \A s \in SUBSET (1..n) : s # {} => \E x \in s : \A y \in s : x >= y
  BY <1>3
<1> QED BY <1>4 DEF IsPick, GreatestOf

\* It is what the library's folds of sequences take away.
LEMMA GreatestIsMax ==
    ASSUME NEW n \in Nat
    PROVE  \A s \in SUBSET (1..n) : s # {} => GreatestOf(n)[s] = Max(s) /\ Max(s) \in 1..n
<1> SUFFICES ASSUME NEW s \in SUBSET (1..n), s # {}
             PROVE  GreatestOf(n)[s] = Max(s) /\ Max(s) \in 1..n
  OBVIOUS
<1>1. GreatestOf(n)[s] = Max(s)
  BY DEF GreatestOf, Max
<1>2. GreatestOf(n)[s] \in s
  BY GreatestIsPick DEF IsPick
<1> QED BY <1>1, <1>2

LEMMA GreatestOfPrefix ==
    ASSUME NEW n \in Nat, NEW k \in 1..n
    PROVE  GreatestOf(n)[1..k] = k /\ (1..k) \ {k} = 1..(k - 1) /\ 1..k \in SUBSET (1..n)
  BY DEF GreatestOf

LEMMA FoldsLeftExists ==
    ASSUME NEW n \in Nat, NEW V, NEW base \in V, NEW step \in [(1..n) \X V -> V]
    PROVE  \E g : g \in [SUBSET (1..n) -> V] /\ FoldsLeft(g, n, base, step)
<1>1. IsFiniteSet(1..n)
  BY FS_Interval
<1>2. \E g : g \in [SUBSET (1..n) -> V] /\ IsFold(g, 1..n, base, GreatestOf(n), step)
  <2> DEFINE D == 1..n
  <2>1. IsFiniteSet(D) /\ IsPick(GreatestOf(n), D) /\ step \in [D \X V -> V]
    BY <1>1, GreatestIsPick
  <2> HIDE DEF D
  <2>2. \E g : g \in [SUBSET D -> V] /\ IsFold(g, D, base, GreatestOf(n), step)
    BY <2>1, FoldExists
  <2> QED BY <2>2 DEF D
<1> QED BY <1>2 DEF IsFold, FoldStep, FoldsLeft

\* It is the only one: `h' need only do as `g' where the rest is as in `g'.
LEMMA FoldsLeftIsUnique ==
    ASSUME NEW n \in Nat, NEW g, NEW h, g[{}] = h[{}],
           \A s \in SUBSET (1..n) :
               s # {} /\ g[s \ {GreatestOf(n)[s]}] = h[s \ {GreatestOf(n)[s]}] => g[s] = h[s]
    PROVE  g[1..n] = h[1..n]
<1> DEFINE D == 1..n
           pick == GreatestOf(n)
<1>1. IsFiniteSet(D) /\ IsPick(pick, D) /\ g[{}] = h[{}]
  BY FS_Interval, GreatestIsPick
<1>2. \A s \in SUBSET D : s # {} /\ g[s \ {pick[s]}] = h[s \ {pick[s]}] => g[s] = h[s]
  OBVIOUS
<1>3. \A s \in SUBSET D : g[s] = h[s]
  <2> HIDE DEF D, pick
  <2> QED BY <1>1, <1>2, FoldIsUnique
<1> QED BY <1>3

\* The values on the way: each is what the step makes of the one before.
LEMMA FoldsLeftSteps ==
    ASSUME NEW n \in Nat, NEW V, NEW base \in V, NEW step \in [(1..n) \X V -> V],
           NEW g \in [SUBSET (1..n) -> V], FoldsLeft(g, n, base, step)
    PROVE  /\ g[1..0] = base
           /\ \A k \in 1..n : g[1..k] = step[<<k, g[1..(k - 1)]>>]
           /\ \A k \in 0..n : g[1..k] \in V
<1>1. 1..0 = {}
  OBVIOUS
<1>2. ASSUME NEW k \in 1..n PROVE g[1..k] = step[<<k, g[1..(k - 1)]>>]
  <2>1. 1..k \in SUBSET (1..n) /\ 1..k # {}
    BY GreatestOfPrefix
  <2> QED BY <2>1, GreatestOfPrefix DEF FoldsLeft
<1>3. \A k \in 0..n : 1..k \in SUBSET (1..n)
  OBVIOUS
<1> QED BY <1>1, <1>2, <1>3 DEF FoldsLeft

\* What holds of the base and is kept by every step holds of the result.
LEMMA NumbersUpTo ==
    ASSUME NEW n \in Nat, NEW P, 0 \in P, \A k \in 1..n : k - 1 \in P => k \in P
    PROVE  \A k \in 0..n : k \in P
<1> DEFINE N == {k \in Nat : k <= n => k \in P}
<1>1. 0 \in N
  OBVIOUS
<1>2. ASSUME NEW k \in Nat, k \in N PROVE k + 1 \in N
  <2> SUFFICES ASSUME k + 1 <= n PROVE k + 1 \in P
    OBVIOUS
  <2>1. k + 1 \in 1..n /\ (k + 1) - 1 = k /\ k \in P
    BY <1>2
  <2> QED BY <2>1
<1>3. \A k \in Nat : k \in N
  <2> HIDE DEF N
  <2> QED BY <1>1, <1>2, NumberInduction
<1> QED BY <1>3
-----------------------------------------------------------------------------
\* The elements of a sequence are finitely many.
LEMMA ElementsAreFinite ==
    ASSUME NEW s, s \in Seq(ToSet(s))
    PROVE  DOMAIN s = 1..Len(s) /\ Len(s) \in Nat /\ IsFiniteSet(ToSet(s))
<1>1. DOMAIN s = 1..Len(s) /\ Len(s) \in Nat
  OBVIOUS
<1>2. s \in Surjection(1..Len(s), ToSet(s))
  BY <1>1 DEF Surjection, ToSet
<1>3. IsFiniteSet(ToSet(s))
  BY <1>1, <1>2, FS_Interval, FS_Surjection
<1> QED BY <1>1, <1>3
=============================================================================
