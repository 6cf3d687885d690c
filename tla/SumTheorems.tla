----------------------------- MODULE SumTheorems ----------------------------
(* What the sums of the model come to: the points of a diner's orders, the   *)
(* lines of a basket. MapThenSumSet takes the elements of its set in an      *)
(* order of its own; here it is shown to be well-defined and to depend on    *)
(* nothing but the elements.                                                 *)
(*                                                                           *)
(* Induction over finite sets is by a smallest counterexample (WFMin). That  *)
(* the recursion has a solution is shown by exhibiting one: a sum of natural *)
(* numbers counts the pairs <<x, i>> with i in 1..f[x].                      *)
EXTENDS Integers, FiniteSetsExt, FiniteSetTheorems, WellFoundedInduction, TLAPS

Total(f, S) == MapThenSumSet(LAMBDA x : f[x], S)

Units(f, S) == {u \in S \X Nat : 1 <= u[2] /\ u[2] <= f[u[1]]}

(* What holds of the empty set, and of a set as soon as it holds of the set  *)
(* without one of its elements, holds of every subset of a finite set.       *)
LEMMA SubsetInduction ==
  ASSUME NEW S, IsFiniteSet(S), NEW Good, {} \in Good,
         \A T \in SUBSET S : T # {} /\ (\A x \in T : T \ {x} \in Good) => T \in Good
  PROVE  \A T \in SUBSET S : T \in Good
  <1>. DEFINE Bad == (SUBSET S) \ Good
              R == StrictSubsetOrdering(S)
  <1>1. IsWellFoundedOn(R, SUBSET S)
    BY FS_StrictSubsetOrderingWellFounded, FS_FiniteSubsetsOfFinite
  <1>2. SUFFICES ASSUME Bad # {} PROVE FALSE
    OBVIOUS
  <1>3. Bad \subseteq SUBSET S
    OBVIOUS
  <1>4. PICK T \in Bad : \A U \in Bad : <<U, T>> \notin R
    <2>. HIDE DEF Bad, R
    <2>. QED
      BY <1>1, <1>2, <1>3, WFMin
  <1>5. T \in SUBSET S /\ T \notin Good
    BY <1>4
  <1>6. ASSUME NEW x \in T PROVE T \ {x} \in Good
    <2>1. T \ {x} \in SUBSET S /\ T \ {x} \subseteq T /\ T \ {x} # T
      BY <1>5
    <2>2. <<T \ {x}, T>> \in R
      BY <1>5, <2>1 DEF StrictSubsetOrdering
    <2>. QED
      BY <1>4, <2>1, <2>2
  <1>7. T # {}
    BY <1>5
  <1>. QED
    BY <1>5, <1>6, <1>7

LEMMA UnitsOfOneMore ==
  ASSUME NEW f, NEW S, NEW x \in S, f[x] \in Nat, IsFiniteSet(Units(f, S \ {x}))
  PROVE  /\ IsFiniteSet(Units(f, S))
         /\ Cardinality(Units(f, S)) = f[x] + Cardinality(Units(f, S \ {x}))
  <1>. DEFINE rest == Units(f, S \ {x})
              own == {x} \X (1..f[x])
  <1>1. Units(f, S) = rest \union own /\ rest \intersect own = {}
    BY DEF Units
  <1>2. IsFiniteSet(1..f[x]) /\ Cardinality(1..f[x]) = f[x]
    BY FS_Interval
  <1>3. IsFiniteSet({x}) /\ Cardinality({x}) = 1
    BY FS_Singleton
  <1>4. IsFiniteSet(own) /\ Cardinality(own) = f[x]
    <2>1. IsFiniteSet(own) /\ Cardinality(own) = Cardinality({x}) * Cardinality(1..f[x])
      BY <1>2, <1>3, FS_Product
    <2>. QED
      BY <1>2, <1>3, <2>1
  <1>5. Cardinality(rest) \in Nat /\ Cardinality({}) = 0
    BY FS_CardinalityType, FS_EmptySet
  <1>6. IsFiniteSet(rest \union own)
        /\ Cardinality(rest \union own) = Cardinality(rest) + Cardinality(own) - Cardinality(rest \intersect own)
    BY <1>4, FS_Union
  <1>. HIDE DEF rest, own
  <1>7. Cardinality(rest \intersect own) = 0
    BY <1>1, <1>5
  <1>8. f[x] \in Nat
    OBVIOUS
  <1>9. IsFiniteSet(Units(f, S)) /\ Cardinality(Units(f, S)) = f[x] + Cardinality(rest)
    BY <1>1, <1>4, <1>5, <1>6, <1>7, <1>8
  <1>. QED
    BY <1>9 DEF rest

LEMMA UnitsAreFinite ==
  ASSUME NEW f, NEW S, IsFiniteSet(S), \A x \in S : f[x] \in Nat
  PROVE  \A T \in SUBSET S : IsFiniteSet(Units(f, T)) /\ Cardinality(Units(f, T)) \in Nat
  <1>. DEFINE Good == {T \in SUBSET S : IsFiniteSet(Units(f, T))}
  <1>1. Units(f, {}) = {}
    BY DEF Units
  <1>2. {} \in Good
    BY <1>1, FS_EmptySet
  <1>3. ASSUME NEW T \in SUBSET S, T # {}, \A x \in T : T \ {x} \in Good
        PROVE  T \in Good
    <2>1. PICK x \in T : T \ {x} \in Good
      BY <1>3
    <2>. QED
      BY <2>1, UnitsOfOneMore
  <1>. HIDE DEF Good
  <1>4. \A T \in SUBSET S : T \in Good
    BY <1>2, <1>3, SubsetInduction
  <1>. QED
    BY <1>4, FS_CardinalityType DEF Good

(* The recursion behind a sum: an element of its choosing, and the rest.     *)
Step(f, g, s) == IF s = {} THEN 0 ELSE f[CHOOSE x \in s : TRUE] + g[s \ {CHOOSE x \in s : TRUE}]

Sums(f, S, g) == g = [s \in SUBSET S |-> Step(f, g, s)]

LEMMA CountingSums ==
  ASSUME NEW f, NEW S, IsFiniteSet(S), \A x \in S : f[x] \in Nat
  PROVE  Sums(f, S, [s \in SUBSET S |-> Cardinality(Units(f, s))])
  <1>. DEFINE count == [s \in SUBSET S |-> Cardinality(Units(f, s))]
  <1>1. \A s \in SUBSET S : count[s] = Step(f, count, s)
    <2>. SUFFICES ASSUME NEW s \in SUBSET S PROVE count[s] = Step(f, count, s)
      OBVIOUS
    <2>1. CASE s = {}
      BY <2>1, FS_EmptySet DEF Units, Step
    <2>2. CASE s # {}
      <3>1. PICK x \in s : x = CHOOSE y \in s : TRUE
        BY <2>2
      <3>2. f[x] \in Nat /\ IsFiniteSet(Units(f, s \ {x}))
        BY <3>1, UnitsAreFinite
      <3>3. Cardinality(Units(f, s)) = f[x] + Cardinality(Units(f, s \ {x}))
        BY <3>2, UnitsOfOneMore
      <3>. QED
        BY <2>2, <3>1, <3>3 DEF Step
    <2>. QED
      BY <2>1, <2>2
  <1>2. count = [s \in SUBSET S |-> count[s]]
    OBVIOUS
  <1>. HIDE DEF count
  <1>3. Sums(f, S, count)
    BY <1>1, <1>2 DEF Sums
  <1>. QED
    BY <1>3 DEF count

LEMMA SumsCount ==
  ASSUME NEW f, NEW S, IsFiniteSet(S), \A x \in S : f[x] \in Nat, NEW iter, Sums(f, S, iter)
  PROVE  iter[S] = Cardinality(Units(f, S))
  <1>. DEFINE count == [s \in SUBSET S |-> Cardinality(Units(f, s))]
              Good == {T \in SUBSET S : iter[T] = count[T]}
  <1>1. Sums(f, S, count)
    BY CountingSums
  <1>2. \A T \in SUBSET S : iter[T] = Step(f, iter, T) /\ count[T] = Step(f, count, T)
    <2>. HIDE DEF count
    <2>. QED
      BY <1>1 DEF Sums
  <1>3. {} \in Good
    <2>. HIDE DEF count
    <2>. QED
      BY <1>2 DEF Step
  <1>4. ASSUME NEW T \in SUBSET S, T # {}, \A x \in T : T \ {x} \in Good
        PROVE  T \in Good
    <2>1. PICK x \in T : x = CHOOSE y \in T : TRUE
      BY <1>4
    <2>. HIDE DEF count
    <2>2. iter[T] = f[x] + iter[T \ {x}] /\ count[T] = f[x] + count[T \ {x}]
      BY <1>2, <1>4, <2>1 DEF Step
    <2>3. iter[T \ {x}] = count[T \ {x}]
      BY <1>4, <2>1
    <2>. QED
      BY <2>2, <2>3
  <1>5. \A T \in SUBSET S : T \in Good
    <2>. HIDE DEF Good
    <2>. QED
      BY <1>3, <1>4, SubsetInduction
  <1>. QED
    BY <1>5

LEMMA TotalIsRecursive ==
  ASSUME NEW f, NEW S
  PROVE  \E iter : /\ Total(f, S) = iter[S]
                   /\ iter = CHOOSE g : g = [s \in SUBSET S |-> Step(f, g, s)]
  BY DEF Total, MapThenSumSet, MapThenFoldSet, Step

LEMMA TotalCounts ==
  ASSUME NEW f, NEW S, IsFiniteSet(S), \A x \in S : f[x] \in Nat
  PROVE  Total(f, S) = Cardinality(Units(f, S))
  <1>1. PICK iter : /\ Total(f, S) = iter[S]
                    /\ iter = CHOOSE g : g = [s \in SUBSET S |-> Step(f, g, s)]
    BY TotalIsRecursive
  <1>2. PICK count : Sums(f, S, count)
    BY CountingSums
  <1>3. Sums(f, S, iter)
    BY <1>1, <1>2 DEF Sums
  <1>. QED
    BY <1>1, <1>3, SumsCount

(* A sum of naturals is one, nothing adds up to nothing, and each element    *)
(* counts once.                                                              *)
LEMMA SumsAddUp ==
  ASSUME NEW f, NEW S, IsFiniteSet(S), \A x \in S : f[x] \in Nat
  PROVE  /\ Total(f, S) \in Nat
         /\ S = {} => Total(f, S) = 0
         /\ \A x \in S : Total(f, S) = f[x] + Total(f, S \ {x})
  <1>1. Total(f, S) = Cardinality(Units(f, S)) /\ Cardinality(Units(f, S)) \in Nat
    BY TotalCounts, UnitsAreFinite
  <1>2. S = {} => Cardinality(Units(f, S)) = 0
    BY FS_EmptySet DEF Units
  <1>3. ASSUME NEW x \in S
        PROVE  Total(f, S) = f[x] + Total(f, S \ {x})
    <2>1. IsFiniteSet(S \ {x})
      BY FS_RemoveElement
    <2>2. Total(f, S \ {x}) = Cardinality(Units(f, S \ {x}))
      BY <2>1, TotalCounts
    <2>3. f[x] \in Nat /\ IsFiniteSet(Units(f, S \ {x}))
      BY UnitsAreFinite
    <2>4. Cardinality(Units(f, S)) = f[x] + Cardinality(Units(f, S \ {x}))
      BY <2>3, UnitsOfOneMore
    <2>. QED
      BY <1>1, <2>2, <2>4
  <1>. QED
    BY <1>1, <1>2, <1>3

(* Whatever runs through the recursion is the sum: how a sum over an         *)
(* operator, not a function, is brought to Total.                            *)
LEMMA SumsAreTotals ==
  ASSUME NEW f, NEW S, IsFiniteSet(S), \A x \in S : f[x] \in Nat
  PROVE  /\ \E iter : Sums(f, S, iter)
         /\ \A iter : Sums(f, S, iter) => iter[S] = Total(f, S)
  <1>1. \E iter : Sums(f, S, iter)
    BY CountingSums
  <1>2. ASSUME NEW iter, Sums(f, S, iter)
        PROVE  iter[S] = Total(f, S)
    BY <1>2, SumsCount, TotalCounts
  <1>. QED
    BY <1>1, <1>2

(* A sum depends on the elements only.                                       *)
LEMMA SumsAgree ==
  ASSUME NEW f, NEW g, NEW S, IsFiniteSet(S), \A x \in S : f[x] \in Nat /\ f[x] = g[x]
  PROVE  Total(f, S) = Total(g, S)
  <1>1. Units(f, S) = Units(g, S)
    BY DEF Units
  <1>. QED
    BY <1>1, TotalCounts
=============================================================================
