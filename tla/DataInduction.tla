------------------------------ MODULE DataInduction ------------------------------
(***************************************************************************)
(* Induction over numbers and finite sets, and the functions defined by it.  *)
(* Everything is stated of sets and functions, so that the facts can be used  *)
(* with any of them: a property is the set of what has it, and the operation   *)
(* of a fold is a function O of what has been computed and the next element.  *)
(***************************************************************************)
EXTENDS Integers, FiniteSetsExt, FiniteSetTheorems, SequenceTheorems, WellFoundedInduction, TLAPS

(* A set of natural numbers has a least one.                                 *)
LEMMA LeastNumber ==
    ASSUME NEW T, T \subseteq Nat, T # {}
    PROVE  \E x \in T : \A y \in T : x <= y
  <1> DEFINE Less == {ss \in Nat \X Nat : ss[1] < ss[2]}
  <1>1. IsWellFoundedOn(Less, Nat)
    BY NatLessThanWellFounded DEF OpToRel
  <1>2. PICK x \in T : \A y \in T : <<y, x>> \notin Less
    <2> HIDE DEF Less
    <2> QED BY <1>1, WFMin
  <1>3. \A y \in T : ~(y < x)
    BY <1>2
  <1> QED BY <1>3

(* Induction: what holds of 0 and passes from a number to the next holds of all. *)
LEMMA NumberInduction ==
    ASSUME NEW N, 0 \in N, \A n \in Nat : n \in N => n + 1 \in N
    PROVE  Nat \subseteq N
  <1> SUFFICES ASSUME Nat \ N # {} PROVE FALSE
    OBVIOUS
  <1>1. PICK x \in Nat \ N : \A y \in Nat \ N : x <= y
    BY LeastNumber
  <1>2. x - 1 \in Nat /\ x - 1 \in N
    BY <1>1
  <1> QED BY <1>1, <1>2

(* The same up to a bound.                                                   *)
LEMMA BoundedInduction ==
    ASSUME NEW N, NEW m \in Nat, 0 \in N, \A n \in 0..(m - 1) : n \in N => n + 1 \in N
    PROVE  0..m \subseteq N
  <1> DEFINE K == {n \in Nat : n <= m => n \in N}
  <1>1. 0 \in K
    OBVIOUS
  <1>2. \A n \in Nat : n \in K => n + 1 \in K
    OBVIOUS
  <1>3. Nat \subseteq K
    <2> HIDE DEF K
    <2> QED BY <1>1, <1>2, NumberInduction
  <1> QED BY <1>3

(* A set of natural numbers with a bound has a greatest one.                 *)
LEMMA GreatestNumber ==
    ASSUME NEW T, NEW m \in Nat, T \subseteq 0..m, T # {}
    PROVE  \E x \in T : \A y \in T : x >= y
  <1> DEFINE U == {m - y : y \in T}
  <1>1. U \subseteq Nat /\ U # {}
    <2>1. \A y \in T : y \in Int /\ y >= 0 /\ y <= m
      OBVIOUS
    <2>2. \A y \in T : m - y \in Nat
      BY <2>1
    <2> QED BY <2>2
  <1>2. PICK u \in U : \A y \in U : u <= y
    <2> HIDE DEF U
    <2> QED BY <1>1, LeastNumber
  <1>3. PICK x \in T : u = m - x
    OBVIOUS
  <1>4. \A y \in T : m - x <= m - y
    BY <1>2, <1>3
  <1> QED BY <1>3, <1>4

(* C names an element of every subset of S that has one.                       *)
Chooses(C, S) == \A T \in SUBSET S : T # {} => C[T] \in T
(* A subset without that element is in F only if the subset is.               *)
Grows(F, C, S) == \A T \in SUBSET S : T # {} /\ T \ {C[T]} \in F => T \in F

(* Induction over the subsets of a finite set: what holds of the empty one and  *)
(* passes from a set without one element, that C names, to the set.           *)
LEMMA SubsetInduction ==
    ASSUME NEW S, IsFiniteSet(S), NEW C, Chooses(C, S),
           NEW F, {} \in F, Grows(F, C, S)
    PROVE  SUBSET S \subseteq F
  <1> USE DEF Chooses, Grows
  <1> DEFINE N == {n \in Nat : \A T \in SUBSET S : Cardinality(T) = n => T \in F}
  <1>1. \A T \in SUBSET S : IsFiniteSet(T) /\ Cardinality(T) \in Nat
    BY FS_Subset, FS_CardinalityType
  <1>2. 0 \in N
    BY <1>1, FS_EmptySet
  <1>3. ASSUME NEW n \in Nat, n \in N PROVE n + 1 \in N
    <2>1. SUFFICES ASSUME NEW T \in SUBSET S, Cardinality(T) = n + 1 PROVE T \in F
      OBVIOUS
    <2>2. T # {} /\ C[T] \in T /\ IsFiniteSet(T)
      BY <1>1, <2>1, FS_EmptySet
    <2>3. Cardinality(T \ {C[T]}) = n
      <3>1. Cardinality(T \ {C[T]}) = Cardinality(T) - 1
        BY <2>2, FS_RemoveElement
      <3> QED BY <2>1, <3>1
    <2>4. T \ {C[T]} \in F
      BY <1>3, <2>3
    <2> QED BY <2>2, <2>4
  <1>4. Nat \subseteq N
    <2> HIDE DEF N
    <2> QED BY <1>2, <1>3, NumberInduction
  <1> QED BY <1>1, <1>4

-------------------------------------------------------------------------------
(* h is given at 0, and by its value at i - 1 and O at i.                      *)
IsSteps(h, base, O, n) == h[0] = base /\ \A i \in 1..n : h[i] = O[h[i - 1]][i]

(* A function defined step by step on 0..n exists: h[0] is given, and O says   *)
(* what h[i] is, given h[i - 1].                                              *)
LEMMA StepsExist ==
    ASSUME NEW M, NEW base \in M, NEW n \in Nat, NEW O \in [M -> [1..n -> M]]
    PROVE  \E h \in [0..n -> M] : IsSteps(h, base, O, n)
  <1> USE DEF IsSteps
  <1> DEFINE K == {k \in 0..n : \E h \in [0..k -> M] :
                      h[0] = base /\ \A i \in 1..k : h[i] = O[h[i - 1]][i]}
  <1>1. 0 \in K
    <2> DEFINE h == [x \in 0..0 |-> base]
    <2>1. h \in [0..0 -> M] /\ h[0] = base
      OBVIOUS
    <2>2. \A i \in 1..0 : h[i] = O[h[i - 1]][i]
      OBVIOUS
    <2> HIDE DEF h
    <2> QED BY <2>1, <2>2
  <1>2. ASSUME NEW k \in 0..(n - 1), k \in K PROVE k + 1 \in K
    <2>1. PICK h \in [0..k -> M] : h[0] = base /\ \A i \in 1..k : h[i] = O[h[i - 1]][i]
      BY <1>2
    <2> DEFINE g == [x \in 0..(k + 1) |-> IF x = k + 1 THEN O[h[k]][k + 1] ELSE h[x]]
    <2>2. O[h[k]][k + 1] \in M
      BY <2>1
    <2>3. g \in [0..(k + 1) -> M]
      BY <2>1, <2>2
    <2>4. g[0] = base
      BY <2>1
    <2>5. ASSUME NEW i \in 1..(k + 1) PROVE g[i] = O[g[i - 1]][i]
      <3>1. CASE i = k + 1
        BY <3>1
      <3>2. CASE i \in 1..k
        <4>1. g[i] = h[i] /\ g[i - 1] = h[i - 1]
          BY <3>2
        <4> HIDE DEF g
        <4> QED BY <2>1, <3>2, <4>1
      <3> QED BY <3>1, <3>2
    <2>6. k + 1 \in 0..n
      OBVIOUS
    <2> HIDE DEF g
    <2> QED BY <2>3, <2>4, <2>5, <2>6
  <1>3. 0..n \subseteq K
    <2> HIDE DEF K
    <2> QED BY <1>1, <1>2, BoundedInduction
  <1>4. n \in K
    BY <1>3
  <1> QED BY <1>4

(* g is given for the empty set, and for a set T by its value without C[T] and O *)
(* at C[T].                                                                  *)
IsFold(g, base, O, C, S) ==
    \A T \in SUBSET S : g[T] = IF T = {} THEN base ELSE O[g[T \ {C[T]}]][C[T]]

(* The same over the subsets of a finite set: C says which element of a set    *)
(* comes last, and O what it adds to the value of the rest.                   *)
LEMMA FoldExists ==
    ASSUME NEW S, IsFiniteSet(S), NEW M, NEW base \in M, NEW O \in [M -> [S -> M]],
           NEW C, Chooses(C, S)
    PROVE  \E g \in [SUBSET S -> M] : IsFold(g, base, O, C, S)
  <1> USE DEF Chooses, IsFold
  <1> DEFINE Of(n) == {T \in SUBSET S : Cardinality(T) <= n}
             Folds(g, n) == \A T \in Of(n) :
                               g[T] = IF T = {} THEN base ELSE O[g[T \ {C[T]}]][C[T]]
             K == {n \in Nat : \E g \in [Of(n) -> M] : Folds(g, n)}
  <1>1. \A T \in SUBSET S : /\ IsFiniteSet(T) /\ Cardinality(T) \in Nat
                            /\ Cardinality(T) <= Cardinality(S)
    BY FS_Subset, FS_CardinalityType
  <1>2. ASSUME NEW T \in SUBSET S, T # {}
        PROVE  /\ C[T] \in S /\ T \ {C[T]} \in SUBSET S
               /\ Cardinality(T) > 0
               /\ Cardinality(T \ {C[T]}) = Cardinality(T) - 1
    <2>1. C[T] \in T
      BY <1>2
    <2>2. IsFiniteSet(T) /\ Cardinality(T) \in Nat /\ Cardinality(T) # 0
      BY <1>1, <1>2, FS_EmptySet
    <2>3. Cardinality(T \ {C[T]}) = Cardinality(T) - 1
      BY <2>1, <2>2, FS_RemoveElement
    <2> QED BY <2>1, <2>2, <2>3
  <1>3. 0 \in K
    <2>1. ASSUME NEW T \in Of(0) PROVE T = {}
      <3>1. T \in SUBSET S /\ Cardinality(T) <= 0 /\ Cardinality(T) \in Nat
        BY <1>1
      <3>2. IsFiniteSet(T) /\ Cardinality(T) = 0
        BY <1>1, <3>1
      <3> QED BY <3>2, FS_EmptySet
    <2> DEFINE g == [T \in Of(0) |-> base]
    <2>2. g \in [Of(0) -> M]
      OBVIOUS
    <2>3. Folds(g, 0)
      BY <2>1
    <2> HIDE DEF g
    <2>4. \E f \in [Of(0) -> M] : Folds(f, 0)
      BY <2>2, <2>3
    <2> QED BY <2>4
  <1>4. ASSUME NEW n \in Nat, n \in K PROVE n + 1 \in K
    <2>1. PICK g \in [Of(n) -> M] : Folds(g, n)
      BY <1>4
    <2> DEFINE Value(T) == IF T = {} THEN base ELSE O[g[T \ {C[T]}]][C[T]]
               h == [T \in Of(n + 1) |-> Value(T)]
    <2>2. ASSUME NEW T \in Of(n + 1), T # {} PROVE T \ {C[T]} \in Of(n) /\ C[T] \in S
      <3>1. T \in SUBSET S /\ Cardinality(T) <= n + 1 /\ Cardinality(T) \in Nat
        BY <1>1
      <3>2. /\ C[T] \in S /\ T \ {C[T]} \in SUBSET S
            /\ Cardinality(T \ {C[T]}) = Cardinality(T) - 1
        <4> HIDE DEF Of
        <4> QED BY <2>2, <3>1, <1>2
      <3>3. Cardinality(T \ {C[T]}) <= n
        BY <3>1, <3>2
      <3> QED BY <3>2, <3>3
    <2>3. \A T \in Of(n) : T \in Of(n + 1)
      BY <1>1
    <2>4. ASSUME NEW T \in Of(n + 1) PROVE Value(T) \in M
      <3>1. CASE T = {}
        BY <3>1
      <3>2. CASE T # {}
        <4>1. T \ {C[T]} \in Of(n) /\ C[T] \in S
          BY <2>2, <3>2
        <4>2. g[T \ {C[T]}] \in M
          <5> HIDE DEF Of
          <5> QED BY <4>1
        <4>3. O[g[T \ {C[T]}]] \in [S -> M]
          <5> HIDE DEF Of
          <5> QED BY <4>2
        <4>4. O[g[T \ {C[T]}]][C[T]] \in M
          <5> HIDE DEF Of
          <5> QED BY <4>1, <4>3
        <4> QED BY <3>2, <4>4
      <3> QED BY <3>1, <3>2
    <2>5. h \in [Of(n + 1) -> M]
      <3> HIDE DEF Of, Value
      <3> QED BY <2>4
    <2>6. ASSUME NEW T \in Of(n) PROVE h[T] = g[T]
      <3>1. h[T] = Value(T)
        <4> HIDE DEF Of, Value
        <4> QED BY <2>3
      <3>2. g[T] = Value(T)
        <4> HIDE DEF Of, h
        <4> QED BY <2>1
      <3> QED BY <3>1, <3>2
    <2>7. ASSUME NEW T \in Of(n + 1)
          PROVE  h[T] = IF T = {} THEN base ELSE O[h[T \ {C[T]}]][C[T]]
      <3>1. h[T] = Value(T)
        <4> HIDE DEF Of, Value
        <4> QED OBVIOUS
      <3>2. CASE T = {}
        <4> HIDE DEF Of, h
        <4> QED BY <3>1, <3>2
      <3>3. CASE T # {}
        <4>1. h[T \ {C[T]}] = g[T \ {C[T]}]
          <5>1. T \ {C[T]} \in Of(n)
            BY <2>2, <3>3
          <5> HIDE DEF Of, h
          <5> QED BY <5>1, <2>6
        <4> HIDE DEF Of, h
        <4> QED BY <3>1, <3>3, <4>1
      <3> QED BY <3>2, <3>3
    <2>8. \E f \in [Of(n + 1) -> M] : Folds(f, n + 1)
      <3>1. Folds(h, n + 1)
        <4> HIDE DEF Of, h
        <4> QED BY <2>7
      <3> HIDE DEF h, Of, Folds
      <3> QED BY <2>5, <3>1
    <2> HIDE DEF Of, Folds
    <2> QED BY <2>8
  <1>5. Nat \subseteq K
    <2> HIDE DEF K
    <2> QED BY <1>3, <1>4, NumberInduction
  <1>6. Of(Cardinality(S)) = SUBSET S
    BY <1>1
  <1>7. PICK g \in [Of(Cardinality(S)) -> M] : Folds(g, Cardinality(S))
    <2>1. Cardinality(S) \in Nat
      BY FS_CardinalityType
    <2> HIDE DEF Of, Folds
    <2> QED BY <2>1, <1>5
  <1> HIDE DEF Of
  <1> QED BY <1>6, <1>7

-------------------------------------------------------------------------------
(* Sums: g adds the f[x] of a set in the order in which C takes the x away.    *)
Adds(g, f, C, S) == \A T \in SUBSET S : g[T] = IF T = {} THEN 0 ELSE f[C[T]] + g[T \ {C[T]}]
Sum(f, S) == MapThenSumSet(LAMBDA a : f[a], S)
Pick(S) == [T \in SUBSET S |-> CHOOSE x \in T : TRUE]

(* And always one, as long as the values are numbers.                        *)
LEMMA AddsExists ==
    ASSUME NEW S, IsFiniteSet(S), NEW f \in [S -> Int],
           NEW C, Chooses(C, S)
    PROVE  \E g \in [SUBSET S -> Int] : Adds(g, f, C, S)
  <1> DEFINE O == [m \in Int |-> [x \in S |-> f[x] + m]]
  <1>1. O \in [Int -> [S -> Int]] /\ 0 \in Int
    OBVIOUS
  <1>2. PICK g \in [SUBSET S -> Int] : IsFold(g, 0, O, C, S)
    <2> HIDE DEF O
    <2> QED BY <1>1, FoldExists, Zenon
  <1>3. ASSUME NEW T \in SUBSET S, T # {} PROVE g[T] = f[C[T]] + g[T \ {C[T]}]
    <2>1. C[T] \in S /\ T \ {C[T]} \in SUBSET S
      BY <1>3 DEF Chooses
    <2>2. O[g[T \ {C[T]}]][C[T]] = f[C[T]] + g[T \ {C[T]}]
      BY <2>1
    <2> HIDE DEF O
    <2> QED BY <1>2, <1>3, <2>2 DEF IsFold
  <1>4. g[{}] = 0
    <2>1. {} \in SUBSET S
      OBVIOUS
    <2> QED BY <1>2, <2>1 DEF IsFold
  <1>5. Adds(g, f, C, S)
    <2> HIDE DEF O
    <2> QED BY <1>3, <1>4 DEF Adds
  <1> QED BY <1>5

(* There is one such function.                                               *)
LEMMA AddsUnique ==
    ASSUME NEW S, IsFiniteSet(S), NEW f, NEW C, Chooses(C, S),
           NEW g, Adds(g, f, C, S), NEW h, Adds(h, f, C, S)
    PROVE  \A T \in SUBSET S : h[T] = g[T]
  <1> DEFINE F == {T \in SUBSET S : h[T] = g[T]}
  <1>1. {} \in F
    BY DEF Adds
  <1>2. Grows(F, C, S)
    BY DEF Adds, Grows
  <1>3. SUBSET S \subseteq F
    <2> HIDE DEF F
    <2> QED BY <1>1, <1>2, SubsetInduction
  <1> QED BY <1>3

(* The element that CHOOSE takes from a set is in it.                          *)
LEMMA PickChooses == \A S : Chooses(Pick(S), S)
  BY Zenon DEF Pick, Chooses

(* The sum of the model is such a fold.                                      *)
LEMMA SumAdds ==
    ASSUME NEW S, IsFiniteSet(S), NEW f \in [S -> Int]
    PROVE  \E g \in [SUBSET S -> Int] : Adds(g, f, Pick(S), S) /\ Sum(f, S) = g[S]
  <1> DEFINE Eq(g) == g = [T \in SUBSET S |->
                             IF T = {} THEN 0
                             ELSE f[CHOOSE x \in T : TRUE] + g[T \ {CHOOSE x \in T : TRUE}]]
  <1>1. PICK g \in [SUBSET S -> Int] : Adds(g, f, Pick(S), S)
    BY AddsExists, PickChooses
  <1>2. Eq(g)
    <2>1. g = [T \in SUBSET S |-> g[T]]
      OBVIOUS
    <2>2. \A T \in SUBSET S : g[T] = IF T = {} THEN 0
                                     ELSE f[CHOOSE x \in T : TRUE] + g[T \ {CHOOSE x \in T : TRUE}]
      BY <1>1, Zenon DEF Adds, Pick
    <2> QED BY <2>1, <2>2, Zenon
  <1> DEFINE h == CHOOSE iter : Eq(iter)
  <1>3. Eq(h)
    <2> HIDE DEF Eq
    <2> QED BY <1>2, Zenon
  <1>4. Sum(f, S) = h[S]
    BY Zenon DEF Sum, MapThenSumSet, MapThenFoldSet
  <1> HIDE DEF h
  <1>5. Adds(h, f, Pick(S), S)
    BY <1>3, Zenon DEF Adds, Pick
  <1>6. \A T \in SUBSET S : h[T] = g[T]
    <2> HIDE DEF Eq
    <2> QED BY <1>1, <1>5, AddsUnique, PickChooses
  <1>7. S \in SUBSET S
    OBVIOUS
  <1> QED BY <1>1, <1>4, <1>6, <1>7
(* The sum of integers is one.                                               *)
LEMMA SumIsInt ==
    ASSUME NEW S, IsFiniteSet(S), NEW f \in [S -> Int]
    PROVE  Sum(f, S) \in Int
  <1>1. PICK g \in [SUBSET S -> Int] : Adds(g, f, Pick(S), S) /\ Sum(f, S) = g[S]
    BY SumAdds
  <1>2. g[S] \in Int
    OBVIOUS
  <1> QED BY <1>1, <1>2

(* n for each element of T, and nothing for the others of S.                  *)
LEMMA SumOfSome ==
    ASSUME NEW S, IsFiniteSet(S), NEW T \in SUBSET S, NEW n \in Nat
    PROVE  Sum([x \in S |-> IF x \in T THEN n ELSE 0], S) = n * Cardinality(T)
  <1> DEFINE f == [x \in S |-> IF x \in T THEN n ELSE 0]
             C == Pick(S)
  <1>1. f \in [S -> Int]
    OBVIOUS
  <1>2. PICK g \in [SUBSET S -> Int] : Adds(g, f, C, S) /\ Sum(f, S) = g[S]
    <2> HIDE DEF f
    <2> QED BY <1>1, SumAdds
  <1>3. Chooses(C, S)
    BY PickChooses
  <1> HIDE DEF C
  <1> DEFINE F == {U \in SUBSET S : g[U] = n * Cardinality(U \cap T)}
  <1>4. \A U \in SUBSET S : IsFiniteSet(U \cap T) /\ Cardinality(U \cap T) \in Nat
    <2>1. \A U \in SUBSET S : U \cap T \in SUBSET S
      OBVIOUS
    <2> QED BY <2>1, FS_Subset, FS_CardinalityType
  <1>5. {} \in F
    <2>1. g[{}] = 0
      BY <1>2 DEF Adds
    <2>2. Cardinality({} \cap T) = 0
      BY FS_EmptySet
    <2> QED BY <2>1, <2>2
  <1>6. ASSUME NEW U \in SUBSET S, U # {}, U \ {C[U]} \in F PROVE U \in F
    <2>1. C[U] \in U /\ C[U] \in S /\ U \ {C[U]} \in SUBSET S
      BY <1>3, <1>6 DEF Chooses
    <2>2. g[U] = f[C[U]] + g[U \ {C[U]}]
      <3> HIDE DEF f, F
      <3> QED BY <1>2, <1>6 DEF Adds
    <2>3. g[U \ {C[U]}] = n * Cardinality((U \ {C[U]}) \cap T)
      BY <1>6
    <2>4. CASE C[U] \in T
      <3>1. (U \ {C[U]}) \cap T = (U \cap T) \ {C[U]} /\ C[U] \in U \cap T
        BY <2>1, <2>4
      <3>2. Cardinality((U \ {C[U]}) \cap T) = Cardinality(U \cap T) - 1
        <4> DEFINE W == U \cap T
        <4>1. IsFiniteSet(W) /\ C[U] \in W
          BY <1>4, <3>1
        <4>2. Cardinality(W \ {C[U]}) = Cardinality(W) - 1
          <5> HIDE DEF F, f, W
          <5> QED BY <4>1, FS_RemoveElement
        <4> QED BY <3>1, <4>2
      <3>3. f[C[U]] = n
        BY <2>1, <2>4
      <3>4. g[U] = n + n * (Cardinality(U \cap T) - 1)
        BY <2>2, <2>3, <3>2, <3>3
      <3>5. \A k \in Nat : n + n * (k - 1) = n * k
        OBVIOUS
      <3>6. g[U] = n * Cardinality(U \cap T)
        BY <1>4, <3>4, <3>5
      <3> QED BY <3>6
    <2>5. CASE C[U] \notin T
      <3>1. (U \ {C[U]}) \cap T = U \cap T
        BY <2>5
      <3>2. f[C[U]] = 0
        BY <2>1, <2>5
      <3>3. g[U \ {C[U]}] \in Int
        BY <2>1
      <3>4. g[U] = g[U \ {C[U]}]
        BY <2>2, <3>2, <3>3
      <3> QED BY <2>3, <3>1, <3>4
    <2> QED BY <2>4, <2>5
  <1>7. Grows(F, C, S)
    <2> HIDE DEF F
    <2> QED BY <1>6 DEF Grows
  <1>8. SUBSET S \subseteq F
    <2> HIDE DEF F
    <2> QED BY <1>3, <1>5, <1>7, SubsetInduction
  <1>9. g[S] = n * Cardinality(S \cap T) /\ S \cap T = T
    BY <1>8
  <1> QED BY <1>2, <1>9

(* A sum of ones counts.                                                     *)
LEMMA SumOfOnes ==
    ASSUME NEW S, IsFiniteSet(S)
    PROVE  MapThenSumSet(LAMBDA a : 1, S) = Cardinality(S)
  <1>1. MapThenSumSet(LAMBDA a : 1, S) = Sum([a \in S |-> 1], S)
    BY Zenon DEF Sum, MapThenSumSet, MapThenFoldSet
  <1>2. [a \in S |-> 1] = [a \in S |-> IF a \in S THEN 1 ELSE 0] /\ S \in SUBSET S
    OBVIOUS
  <1>3. Sum([a \in S |-> IF a \in S THEN 1 ELSE 0], S) = 1 * Cardinality(S)
    BY <1>2, SumOfSome
  <1>4. Cardinality(S) \in Nat
    BY FS_CardinalityType
  <1>5. Sum([a \in S |-> 1], S) = Cardinality(S)
    BY <1>2, <1>3, <1>4
  <1> QED BY <1>1, <1>5, Zenon

(* Another value in one place changes the sum by the difference.              *)
LEMMA SumOfUpdate ==
    ASSUME NEW S, IsFiniteSet(S), NEW f \in [S -> Int], NEW x \in S, NEW v \in Int
    PROVE  Sum([f EXCEPT ![x] = v], S) = Sum(f, S) + (v - f[x])
  <1> DEFINE k == [f EXCEPT ![x] = v]
             C == Pick(S)
             Extra(T) == IF x \in T THEN v - f[x] ELSE 0
  <1>1. k \in [S -> Int] /\ k[x] = v /\ \A a \in S : a # x => k[a] = f[a]
    OBVIOUS
  <1>2. PICK g \in [SUBSET S -> Int] : Adds(g, f, C, S) /\ Sum(f, S) = g[S]
    BY SumAdds
  <1>3. PICK h \in [SUBSET S -> Int] : Adds(h, k, C, S) /\ Sum(k, S) = h[S]
    <2> HIDE DEF k
    <2> QED BY <1>1, SumAdds
  <1>4. Chooses(C, S)
    BY PickChooses
  <1> HIDE DEF C, k
  <1> DEFINE E == {T \in SUBSET S : h[T] = g[T] + Extra(T)}
  <1>5. {} \in E
    <2>1. g[{}] = 0 /\ h[{}] = 0
      BY <1>2, <1>3 DEF Adds
    <2> QED BY <2>1
  <1>6. ASSUME NEW T \in SUBSET S, T # {}, T \ {C[T]} \in E PROVE T \in E
    <2>1. C[T] \in T /\ C[T] \in S /\ T \ {C[T]} \in SUBSET S
      BY <1>4, <1>6 DEF Chooses
    <2>2. g[T] = f[C[T]] + g[T \ {C[T]}] /\ h[T] = k[C[T]] + h[T \ {C[T]}]
      <3> HIDE DEF E
      <3> QED BY <1>2, <1>3, <1>6 DEF Adds
    <2>3. h[T \ {C[T]}] = g[T \ {C[T]}] + Extra(T \ {C[T]})
      BY <1>6
    <2>4. f[C[T]] \in Int /\ g[T \ {C[T]}] \in Int /\ f[x] \in Int
      BY <2>1
    <2>5. CASE C[T] = x
      <3>1. Extra(T) = v - f[x] /\ Extra(T \ {C[T]}) = 0
        BY <2>1, <2>5
      <3> HIDE DEF Extra
      <3> QED BY <1>1, <2>2, <2>3, <2>4, <2>5, <3>1
    <2>6. CASE C[T] # x
      <3>1. Extra(T) = Extra(T \ {C[T]}) /\ Extra(T) \in Int
        BY <2>4, <2>6
      <3>2. k[C[T]] = f[C[T]]
        BY <1>1, <2>1, <2>6
      <3> HIDE DEF Extra
      <3> QED BY <2>2, <2>3, <2>4, <3>1, <3>2
    <2> QED BY <2>5, <2>6
  <1>7. Grows(E, C, S)
    <2> HIDE DEF E
    <2> QED BY <1>6 DEF Grows
  <1>8. SUBSET S \subseteq E
    <2> HIDE DEF E
    <2> QED BY <1>4, <1>5, <1>7, SubsetInduction
  <1>9. h[S] = g[S] + (v - f[x])
    BY <1>8
  <1>10. Sum([f EXCEPT ![x] = v], S) = h[S]
    BY <1>3 DEF k
  <1> QED BY <1>2, <1>9, <1>10

-------------------------------------------------------------------------------
(* FoldLeft takes the elements of a sequence away from its end.               *)
FromEnd(n) == [T \in SUBSET (1..n) |-> Max(T)]

(* The arithmetic of a fold over the first k of n elements.                   *)
LEMMA Intervals ==
    ASSUME NEW n \in Nat, NEW k \in 1..n
    PROVE  1..k \in SUBSET (1..n) /\ 1..k # {} /\ k - 1 \in 0..n /\ k \in 0..n
  OBVIOUS

(* The greatest element of a set of positions is one of them.                 *)
LEMMA FromEndChooses ==
    ASSUME NEW n \in Nat
    PROVE  /\ IsFiniteSet(1..n) /\ Chooses(FromEnd(n), 1..n)
           /\ \A k \in 1..n : Max(1..k) = k /\ (1..k) \ {k} = 1..k - 1
  <1>1. ASSUME NEW T \in SUBSET (1..n), T # {} PROVE Max(T) \in T /\ \A y \in T : Max(T) >= y
    <2>1. T \subseteq 0..n
      OBVIOUS
    <2>2. \E x \in T : \A y \in T : x >= y
      BY <1>1, <2>1, GreatestNumber
    <2> QED BY <2>2, Zenon DEF Max
  <1>2. Chooses(FromEnd(n), 1..n)
    BY <1>1 DEF Chooses, FromEnd
  <1>3. ASSUME NEW k \in 1..n PROVE Max(1..k) = k
    <2>1. 1..k \in SUBSET (1..n) /\ k \in 1..k
      OBVIOUS
    <2>2. Max(1..k) \in 1..k /\ Max(1..k) >= k
      BY <1>1, <2>1
    <2> QED BY <2>2
  <1>4. IsFiniteSet(1..n)
    BY FS_Interval
  <1> QED BY <1>2, <1>3, <1>4

(* What holds of the empty sequence and passes to a sequence with one more     *)
(* element holds of all sequences.                                           *)
LEMMA SequenceInduction ==
    ASSUME NEW E, NEW Z, <<>> \in Z, \A s \in Seq(E), e \in E : s \in Z => Append(s, e) \in Z
    PROVE  Seq(E) \subseteq Z
  <1> DEFINE N == {n \in Nat : \A s \in Seq(E) : Len(s) = n => s \in Z}
  <1>1. 0 \in N
    OBVIOUS
  <1>2. ASSUME NEW n \in Nat, n \in N PROVE n + 1 \in N
    <2>1. SUFFICES ASSUME NEW s \in Seq(E), Len(s) = n + 1 PROVE s \in Z
      OBVIOUS
    <2> DEFINE t == SubSeq(s, 1, n)
    <2>2. t \in Seq(E) /\ Len(t) = n /\ s[n + 1] \in E
      BY <2>1
    <2>3. s = Append(t, s[n + 1])
      BY <2>1
    <2> HIDE DEF t
    <2>4. t \in Z
      BY <1>2, <2>2
    <2> QED BY <2>2, <2>3, <2>4
  <1>3. Nat \subseteq N
    <2> HIDE DEF N
    <2> QED BY <1>1, <1>2, NumberInduction
  <1> QED BY <1>3
==================================================================================
