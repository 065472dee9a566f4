------------------------------- MODULE SumProofs -------------------------------
(***************************************************************************)
(* Sums over finite sets, which the ceilings on spending are stated with:  *)
(* the sum MapThenSumSet computes does not depend on the order it adds in, *)
(* grows with its set, and is bounded by what each term is bounded by.     *)
(* Each induction is a smallest counterexample that cannot be one.         *)
(***************************************************************************)
EXTENDS Integers, FiniteSets, FiniteSetsExt, FiniteSetTheorems, TLAPS

(* Every non-empty set of natural numbers has a least element. *)
LEMMA LeastNatural ==
    ASSUME NEW T, T \subseteq Nat, T # {}
    PROVE  \E n \in T : \A m \in T : n <= m
  <1>1. PICK n \in T : \A m \in T : ~(<<m, n>> \in OpToRel(<, Nat))
    BY WFMin, NatLessThanWellFounded
  <1>2. \A m \in T : ~(m < n)
    BY <1>1 DEF OpToRel
  <1> QED BY <1>2

(* Among subsets of a finite set, one has no other below it. *)
LEMMA MinimalSubset ==
    ASSUME NEW S, IsFiniteSet(S), NEW F, F \subseteq SUBSET S, F # {}
    PROVE  \E T \in F : \A U \in F : U \subseteq T => U = T
  <1>1. FiniteSubsetsOf(S) = SUBSET S
    BY FS_FiniteSubsetsOfFinite
  <1>2. IsWellFoundedOn(StrictSubsetOrdering(S), SUBSET S)
    BY <1>1, FS_StrictSubsetOrderingWellFounded
  <1>3. PICK T \in F : \A U \in F : ~(<<U, T>> \in StrictSubsetOrdering(S))
    BY <1>2, WFMin
  <1>4. ASSUME NEW U \in F, U \subseteq T, U # T
        PROVE  <<U, T>> \in StrictSubsetOrdering(S)
    BY <1>4 DEF StrictSubsetOrdering
  <1>5. \A U \in F : U \subseteq T => U = T
    BY <1>3, <1>4
  <1> QED BY <1>5

--------------------------------------------------------------------------------
(* The function MapThenSumSet recurses with: it takes away one element after   *)
(* another, in the order CHOOSE happens to give.                               *)
Pick(s) == CHOOSE x \in s : TRUE
Adds(g, f, S) ==
    g = [s \in SUBSET S |-> IF s = {} THEN 0 ELSE f[Pick(s)] + g[s \ {Pick(s)}]]
Sum(f, S) == (CHOOSE g : Adds(g, f, DOMAIN f))[S]

(* What is picked is there. *)
LEMMA Picked ==
    ASSUME NEW s, s # {}
    PROVE  Pick(s) \in s
  BY DEF Pick

(* Such a function exists, level by level of the size of its arguments. *)
LEMMA AddsExists ==
    ASSUME NEW S, IsFiniteSet(S), NEW f
    PROVE  \E g : Adds(g, f, S)
  <1> DEFINE Level(n) == {s \in SUBSET S : Cardinality(s) <= n}
             Reaches(g, n) ==
               \A s \in Level(n) : g[s] = IF s = {} THEN 0 ELSE f[Pick(s)] + g[s \ {Pick(s)}]
             Bad == {n \in Nat : ~\E g : Reaches(g, n)}
  <1>1. \A s \in SUBSET S : IsFiniteSet(s) /\ Cardinality(s) \in Nat
    BY FS_Subset, FS_CardinalityType
  <1>2. \A s \in SUBSET S : s # {} =>
          Pick(s) \in s /\ s \ {Pick(s)} \in SUBSET S
          /\ Cardinality(s \ {Pick(s)}) = Cardinality(s) - 1
    BY <1>1, FS_RemoveElement, Picked
  <1>3. 0 \notin Bad
    <2>1. \A s \in Level(0) : s = {}
      <3> SUFFICES ASSUME NEW s \in Level(0), s # {} PROVE FALSE
        OBVIOUS
      <3>1. Cardinality(s) = 0 /\ IsFiniteSet(s)
        BY <1>1
      <3> QED BY <3>1, FS_EmptySet
    <2>2. Reaches([s \in SUBSET S |-> 0], 0)
      BY <2>1
    <2> QED BY <2>2
  <1>4. ASSUME NEW n \in Nat, n \notin Bad
        PROVE  n + 1 \notin Bad
    <2>1. PICK g : Reaches(g, n)
      BY <1>4
    <2> DEFINE h == [s \in SUBSET S |-> IF s = {} THEN 0 ELSE f[Pick(s)] + g[s \ {Pick(s)}]]
    <2>2. \A s \in Level(n) : h[s] = g[s]
      BY <2>1
    <2>3. ASSUME NEW s \in Level(n + 1), s # {}
          PROVE  h[s] = f[Pick(s)] + h[s \ {Pick(s)}]
      <3>1. s \ {Pick(s)} \in Level(n)
        BY <1>1, <1>2, <2>3
      <3>2. h[s] = f[Pick(s)] + g[s \ {Pick(s)}]
        BY <2>3
      <3> QED BY <2>2, <3>1, <3>2
    <2>4. \A s \in Level(n + 1) : s = {} => h[s] = 0
      OBVIOUS
    <2> HIDE DEF h
    <2>5. Reaches(h, n + 1)
      BY <2>3, <2>4
    <2> QED BY <2>5
  <1>5. Bad = {}
    <2> SUFFICES ASSUME Bad # {} PROVE FALSE
      OBVIOUS
    <2>0. Bad \subseteq Nat
      OBVIOUS
    <2> HIDE DEF Bad
    <2>1. PICK n \in Bad : \A m \in Bad : n <= m
      BY <2>0, LeastNatural
    <2>2. n \in Nat /\ n # 0
      BY <1>3, <2>0
    <2>3. n - 1 \in Nat /\ n - 1 \notin Bad
      BY <2>1, <2>2
    <2>4. (n - 1) + 1 \notin Bad
      BY <1>4, <2>3
    <2> QED BY <2>2, <2>4
  <1>6. Cardinality(S) \in Nat /\ \A s \in SUBSET S : Cardinality(s) <= Cardinality(S)
    BY FS_Subset, FS_CardinalityType
  <1>7. PICK g : Reaches(g, Cardinality(S))
    BY <1>5, <1>6
  <1>8. \A s \in SUBSET S : g[s] = IF s = {} THEN 0 ELSE f[Pick(s)] + g[s \ {Pick(s)}]
    BY <1>6, <1>7
  <1> DEFINE h == [s \in SUBSET S |-> g[s]]
  <1>9. Adds(h, f, S)
    <2>1. \A s \in SUBSET S : s # {} => s \ {Pick(s)} \in SUBSET S
      OBVIOUS
    <2>2. \A s \in SUBSET S : h[s] = IF s = {} THEN 0 ELSE f[Pick(s)] + h[s \ {Pick(s)}]
      BY <1>8, <2>1
    <2>3. h = [s \in SUBSET S |-> h[s]]
      OBVIOUS
    <2> HIDE DEF h
    <2> QED BY <2>2, <2>3 DEF Adds
  <1> QED BY <1>9

(* One step of it, and what it says of nothing. *)
LEMMA AddsStep ==
    ASSUME NEW S, NEW f, NEW g, Adds(g, f, S), NEW s \in SUBSET S
    PROVE  /\ s = {} => g[s] = 0
           /\ s # {} => Pick(s) \in s /\ g[s] = f[Pick(s)] + g[s \ {Pick(s)}]
  BY Picked DEF Adds

(* It starts from nothing. *)
LEMMA AddsNothing ==
    ASSUME NEW S, NEW f, NEW g, Adds(g, f, S)
    PROVE  g[{}] = 0
  <1>1. {} \in SUBSET S
    OBVIOUS
  <1> QED BY <1>1 DEF Adds

(* It adds natural numbers, and any element may be the first. *)
LEMMA AnyOrder ==
    ASSUME NEW S, IsFiniteSet(S), NEW f, \A x \in S : f[x] \in Nat, NEW g, Adds(g, f, S)
    PROVE  \A T \in SUBSET S : g[T] \in Nat /\ \A x \in T : g[T] = f[x] + g[T \ {x}]
  <1> DEFINE Good(T) == g[T] \in Nat /\ \A x \in T : g[T] = f[x] + g[T \ {x}]
             Bad == {T \in SUBSET S : ~Good(T)}
  <1> SUFFICES ASSUME Bad # {} PROVE FALSE
    OBVIOUS
  <1>1. PICK T \in Bad : \A U \in Bad : U \subseteq T => U = T
    <2>1. Bad \subseteq SUBSET S
      OBVIOUS
    <2> HIDE DEF Bad
    <2> QED BY <2>1, MinimalSubset
  <1>2. T \in SUBSET S /\ ~Good(T)
    OBVIOUS
  <1>3. \A x \in T : Good(T \ {x})
    BY <1>1, <1>2
  <1>4. T # {}
    <2>1. g[{}] = 0
      BY AddsNothing
    <2>2. Good({})
      BY <2>1
    <2> QED BY <1>2, <2>2
  <1> DEFINE p == Pick(T)
  <1>5. p \in T /\ g[T] = f[p] + g[T \ {p}]
    BY <1>2, <1>4, AddsStep
  <1> HIDE DEF p
  <1>6. g[T \ {p}] \in Nat /\ f[p] \in Nat
    BY <1>2, <1>3, <1>5
  <1>7. g[T] \in Nat
    BY <1>5, <1>6
  <1>8. ASSUME NEW x \in T, x # p
        PROVE  g[T] = f[x] + g[T \ {x}]
    <2> DEFINE R == (T \ {p}) \ {x}
    <2>1. R = (T \ {x}) \ {p}
      OBVIOUS
    <2>2. g[T \ {p}] = f[x] + g[R]
      BY <1>3, <1>5, <1>8
    <2>3. g[T \ {x}] = f[p] + g[R]
      <3>1. Good(T \ {x}) /\ p \in T \ {x}
        BY <1>3, <1>5, <1>8
      <3>2. g[T \ {x}] = f[p] + g[(T \ {x}) \ {p}]
        BY <3>1
      <3> QED BY <2>1, <3>2
    <2>4. g[R] \in Nat /\ f[x] \in Nat
      <3>1. R \in SUBSET S /\ R # T /\ R \subseteq T
        BY <1>2, <1>5
      <3>2. Good(R)
        BY <1>1, <3>1
      <3> QED BY <1>2, <3>2
    <2> HIDE DEF R
    <2> QED BY <1>5, <1>6, <2>2, <2>3, <2>4
  <1>9. Good(T)
    BY <1>5, <1>7, <1>8
  <1> QED BY <1>2, <1>9

(* Functions that agree on a set add up to the same over it. *)
LEMMA AddsAgree ==
    ASSUME NEW S, IsFiniteSet(S), NEW A, NEW B, S \subseteq A, S \subseteq B,
           NEW f, NEW h, \A x \in S : f[x] = h[x],
           NEW g, Adds(g, f, A), NEW k, Adds(k, h, B)
    PROVE  g[S] = k[S]
  <1> DEFINE Bad == {T \in SUBSET S : g[T] # k[T]}
  <1>1. Bad = {}
    <2> SUFFICES ASSUME Bad # {} PROVE FALSE
      OBVIOUS
    <2>1. PICK T \in Bad : \A U \in Bad : U \subseteq T => U = T
      <3>1. Bad \subseteq SUBSET S
        OBVIOUS
      <3> HIDE DEF Bad
      <3> QED BY <3>1, MinimalSubset
    <2>2. T \in SUBSET S /\ T \in SUBSET A /\ T \in SUBSET B /\ g[T] # k[T]
      OBVIOUS
    <2>3. T # {}
      BY <2>2, AddsStep
    <2>4. /\ Pick(T) \in T
          /\ g[T] = f[Pick(T)] + g[T \ {Pick(T)}]
          /\ k[T] = h[Pick(T)] + k[T \ {Pick(T)}]
      BY <2>2, <2>3, AddsStep
    <2>5. g[T \ {Pick(T)}] = k[T \ {Pick(T)}]
      BY <2>1, <2>2, <2>4
    <2>6. f[Pick(T)] = h[Pick(T)]
      BY <2>2, <2>4
    <2> QED BY <2>2, <2>4, <2>5, <2>6
  <1>2. S \in SUBSET S
    OBVIOUS
  <1> QED BY <1>1, <1>2

(* Sum is such a function. *)
LEMMA SumIsAdds ==
    ASSUME NEW f, IsFiniteSet(DOMAIN f)
    PROVE  \E g : Adds(g, f, DOMAIN f) /\ \A S : Sum(f, S) = g[S]
  <1> DEFINE g == CHOOSE g : Adds(g, f, DOMAIN f)
  <1>1. Adds(g, f, DOMAIN f)
    BY AddsExists
  <1>2. \A S : Sum(f, S) = g[S]
    BY DEF Sum
  <1> HIDE DEF g
  <1> QED BY <1>1, <1>2

(* A sum of natural numbers is one; each of its terms can be taken out. *)
LEMMA SumTerm ==
    ASSUME NEW D, IsFiniteSet(D), NEW f \in [D -> Nat], NEW S \in SUBSET D
    PROVE  /\ Sum(f, {}) = 0
           /\ Sum(f, S) \in Nat
           /\ \A x \in S : Sum(f, S) = f[x] + Sum(f, S \ {x})
  <1>1. DOMAIN f = D /\ \A x \in D : f[x] \in Nat
    OBVIOUS
  <1>2. PICK g : Adds(g, f, D) /\ \A T : Sum(f, T) = g[T]
    BY <1>1, SumIsAdds
  <1>3. g[{}] = 0
    BY <1>2, AddsNothing
  <1>4. g[S] \in Nat /\ \A x \in S : g[S] = f[x] + g[S \ {x}]
    BY <1>1, <1>2, AnyOrder
  <1> QED BY <1>2, <1>3, <1>4

(* Another element adds its term. *)
LEMMA SumAdd ==
    ASSUME NEW D, IsFiniteSet(D), NEW f \in [D -> Nat], NEW S \in SUBSET D, NEW x \in D \ S
    PROVE  Sum(f, S \cup {x}) = f[x] + Sum(f, S)
  <1>1. S \cup {x} \in SUBSET D /\ (S \cup {x}) \ {x} = S
    OBVIOUS
  <1>2. Sum(f, S \cup {x}) = f[x] + Sum(f, (S \cup {x}) \ {x})
    BY <1>1, SumTerm
  <1> QED BY <1>1, <1>2

(* Functions that agree on a set have the same sum over it. *)
LEMMA SumAgree ==
    ASSUME NEW f, NEW h, IsFiniteSet(DOMAIN f), IsFiniteSet(DOMAIN h),
           NEW S, S \subseteq DOMAIN f, S \subseteq DOMAIN h, \A x \in S : f[x] = h[x]
    PROVE  Sum(f, S) = Sum(h, S)
  <1>1. PICK g : Adds(g, f, DOMAIN f) /\ \A T : Sum(f, T) = g[T]
    BY SumIsAdds
  <1>2. PICK k : Adds(k, h, DOMAIN h) /\ \A T : Sum(h, T) = k[T]
    BY SumIsAdds
  <1>3. IsFiniteSet(S)
    BY FS_Subset
  <1>4. g[S] = k[S]
    BY <1>1, <1>2, <1>3, AddsAgree
  <1> QED BY <1>1, <1>2, <1>4

(* A larger set has no smaller a sum. *)
LEMMA SumGrows ==
    ASSUME NEW D, IsFiniteSet(D), NEW f \in [D -> Nat],
           NEW T \in SUBSET D, NEW S \in SUBSET T
    PROVE  Sum(f, S) <= Sum(f, T)
  <1> DEFINE Bad == {U \in SUBSET D : S \subseteq U /\ ~(Sum(f, S) <= Sum(f, U))}
  <1>1. Bad = {}
    <2> SUFFICES ASSUME Bad # {} PROVE FALSE
      OBVIOUS
    <2>1. PICK U \in Bad : \A V \in Bad : V \subseteq U => V = U
      <3>1. Bad \subseteq SUBSET D
        OBVIOUS
      <3> HIDE DEF Bad
      <3> QED BY <3>1, MinimalSubset
    <2>2. U \in SUBSET D /\ S \subseteq U /\ ~(Sum(f, S) <= Sum(f, U)) /\ S \in SUBSET D
      OBVIOUS
    <2>3. Sum(f, S) \in Nat /\ Sum(f, U) \in Nat
      BY <2>2, SumTerm
    <2>4. U # S
      BY <2>2, <2>3
    <2>5. PICK x \in U : x \notin S
      BY <2>2, <2>4
    <2> DEFINE V == U \ {x}
    <2>6. V \in SUBSET D /\ S \subseteq V /\ V \subseteq U /\ V # U
      BY <2>2, <2>5
    <2>7. Sum(f, S) <= Sum(f, V)
      BY <2>1, <2>6
    <2>8. Sum(f, U) = f[x] + Sum(f, V)
      BY <2>2, SumTerm
    <2>9. f[x] \in Nat /\ Sum(f, V) \in Nat
      BY <2>2, <2>6, SumTerm
    <2> HIDE DEF V
    <2> QED BY <2>2, <2>3, <2>7, <2>8, <2>9
  <1>2. T \in SUBSET D /\ S \subseteq T
    OBVIOUS
  <1> QED BY <1>1, <1>2

(* A sum is at most as many times what each of its terms is at most. *)
LEMMA SumBound ==
    ASSUME NEW D, IsFiniteSet(D), NEW f \in [D -> Nat], NEW S \in SUBSET D,
           NEW b \in Nat, \A x \in S : f[x] <= b
    PROVE  Sum(f, S) <= Cardinality(S) * b
  <1> DEFINE Bad == {U \in SUBSET S : ~(Sum(f, U) <= Cardinality(U) * b)}
  <1>1. Bad = {}
    <2> SUFFICES ASSUME Bad # {} PROVE FALSE
      OBVIOUS
    <2>0. IsFiniteSet(S)
      BY FS_Subset
    <2>1. PICK U \in Bad : \A V \in Bad : V \subseteq U => V = U
      <3>1. Bad \subseteq SUBSET S
        OBVIOUS
      <3> HIDE DEF Bad
      <3> QED BY <2>0, <3>1, MinimalSubset
    <2>2. U \in SUBSET S /\ U \in SUBSET D /\ ~(Sum(f, U) <= Cardinality(U) * b)
      OBVIOUS
    <2>3. U # {}
      <3>1. Sum(f, {}) = 0 /\ Cardinality({}) = 0
        BY SumTerm, FS_EmptySet
      <3>2. Sum(f, {}) <= Cardinality({}) * b
        BY <3>1
      <3> QED BY <2>2, <3>2
    <2>4. PICK x \in U : TRUE
      BY <2>3
    <2> DEFINE V == U \ {x}
               c == Cardinality(V)
    <2>5. V \in SUBSET S /\ V \in SUBSET D /\ V \subseteq U /\ V # U
      BY <2>2, <2>4
    <2>6. Sum(f, V) <= c * b
      BY <2>1, <2>5
    <2>7. Sum(f, U) = f[x] + Sum(f, V)
      BY <2>2, SumTerm
    <2>8. f[x] \in Nat /\ f[x] <= b /\ Sum(f, V) \in Nat
      BY <2>2, <2>5, SumTerm
    <2>9. IsFiniteSet(U) /\ IsFiniteSet(V)
      BY <2>0, <2>2, <2>5, FS_Subset
    <2>10. Cardinality(U) \in Nat /\ c \in Nat
      BY <2>9, FS_CardinalityType
    <2>11. c = Cardinality(U) - 1
      BY <2>4, <2>9, FS_RemoveElement
    <2>12. Cardinality(U) * b = c * b + b
      <3> HIDE DEF c
      <3>1. Cardinality(U) = c + 1
        BY <2>10, <2>11
      <3>2. (c + 1) * b = c * b + b
        BY <2>10
      <3> QED BY <3>1, <3>2
    <2>13. c * b \in Nat
      BY <2>10
    <2> HIDE DEF V, c
    <2> QED BY <2>2, <2>6, <2>7, <2>8, <2>12, <2>13
  <1>2. S \in SUBSET S
    OBVIOUS
  <1> QED BY <1>1, <1>2

(* Changing one term changes the sum by as much. *)
LEMMA SumMove ==
    ASSUME NEW D, IsFiniteSet(D), NEW f \in [D -> Nat], NEW h \in [D -> Nat],
           NEW x \in D, \A y \in D \ {x} : f[y] = h[y]
    PROVE  Sum(f, D) + h[x] = Sum(h, D) + f[x]
  <1>1. D \in SUBSET D /\ D \ {x} \in SUBSET D
    OBVIOUS
  <1>2. Sum(f, D) = f[x] + Sum(f, D \ {x}) /\ Sum(h, D) = h[x] + Sum(h, D \ {x})
    BY <1>1, SumTerm
  <1>3. Sum(f, D \ {x}) = Sum(h, D \ {x})
    BY <1>1, SumAgree
  <1>4. Sum(f, D \ {x}) \in Nat /\ f[x] \in Nat /\ h[x] \in Nat
    BY <1>1, SumTerm
  <1> QED BY <1>2, <1>3, <1>4

(* The greatest of some natural numbers is one of them. *)
LEMMA MaxOfNaturals ==
    ASSUME NEW S, IsFiniteSet(S), \A x \in S : x \in Nat, S # {}
    PROVE  Max(S) \in S /\ \A y \in S : Max(S) >= y
  <1> DEFINE Top(U) == \E x \in U : \A y \in U : x >= y
             Bad == {U \in SUBSET S : U # {} /\ ~Top(U)}
  <1>1. Bad = {}
    <2> SUFFICES ASSUME Bad # {} PROVE FALSE
      OBVIOUS
    <2>1. PICK U \in Bad : \A V \in Bad : V \subseteq U => V = U
      <3>1. Bad \subseteq SUBSET S
        OBVIOUS
      <3> HIDE DEF Bad
      <3> QED BY <3>1, MinimalSubset
    <2>2. U \in SUBSET S /\ U # {} /\ ~Top(U)
      OBVIOUS
    <2>3. PICK x \in U : TRUE
      BY <2>2
    <2>4. U \ {x} # {}
      <3> SUFFICES ASSUME U \ {x} = {} PROVE FALSE
        OBVIOUS
      <3>1. \A y \in U : y = x
        OBVIOUS
      <3>2. x >= x
        BY <2>2
      <3>3. \A y \in U : x >= y
        BY <3>1, <3>2
      <3>4. Top(U)
        BY <3>3
      <3> QED BY <2>2, <3>4
    <2>5. Top(U \ {x})
      <3>1. U \ {x} \in SUBSET S /\ U \ {x} # U /\ U \ {x} \subseteq U
        BY <2>2, <2>3
      <3> HIDE DEF Top
      <3> QED BY <2>1, <2>4, <3>1
    <2>6. PICK z \in U \ {x} : \A y \in U \ {x} : z >= y
      BY <2>5
    <2>7. x \in Nat /\ z \in Nat /\ \A y \in U : y \in Nat
      BY <2>2
    <2>8. Top(U)
      <3>1. CASE z >= x
        BY <2>6, <3>1
      <3>2. CASE x > z
        <4>1. \A y \in U : x >= y
          BY <2>6, <2>7, <3>2
        <4> QED BY <4>1
      <3> QED BY <2>7, <3>1, <3>2
    <2> QED BY <2>2, <2>8
  <1>2. Top(S)
    BY <1>1
  <1> QED BY <1>2 DEF Max

(* What MapThenSumSet computes of a function is Sum, whichever order it adds in. *)
THEOREM SumComputes ==
    ASSUME NEW f, IsFiniteSet(DOMAIN f), NEW S, S \subseteq DOMAIN f
    PROVE  MapThenSumSet(LAMBDA x : f[x], S) = Sum(f, S)
  <1> DEFINE it == CHOOSE g : g = [s \in SUBSET S |->
                     IF s = {} THEN 0
                     ELSE f[CHOOSE x \in s : TRUE] + g[s \ {CHOOSE x \in s : TRUE}]]
  <1>1. MapThenSumSet(LAMBDA x : f[x], S) = it[S]
    BY DEF MapThenSumSet, MapThenFoldSet
  <1>2. it = CHOOSE g : Adds(g, f, S)
    BY DEF Adds, Pick
  <1>3. IsFiniteSet(S)
    BY FS_Subset
  <1> HIDE DEF it
  <1>4. Adds(it, f, S)
    BY <1>2, <1>3, AddsExists
  <1>5. PICK k : Adds(k, f, DOMAIN f) /\ \A T : Sum(f, T) = k[T]
    BY SumIsAdds
  <1>6. it[S] = k[S]
    BY <1>3, <1>4, <1>5, AddsAgree
  <1> QED BY <1>1, <1>5, <1>6

(* Nothing is lost by leaving out the terms that are zero. *)
LEMMA SumSupport ==
    ASSUME NEW D, IsFiniteSet(D), NEW f \in [D -> Nat], NEW S \in SUBSET D, NEW R \in SUBSET D,
           \A x \in S : x \in R \/ f[x] = 0
    PROVE  Sum(f, S) <= Sum(f, R)
  <1> DEFINE Bad == {U \in SUBSET S : ~(Sum(f, U) <= Sum(f, U \cap R))}
  <1>1. Bad = {}
    <2> SUFFICES ASSUME Bad # {} PROVE FALSE
      OBVIOUS
    <2>0. IsFiniteSet(S)
      BY FS_Subset
    <2>1. PICK U \in Bad : \A V \in Bad : V \subseteq U => V = U
      <3>1. Bad \subseteq SUBSET S
        OBVIOUS
      <3> HIDE DEF Bad
      <3> QED BY <2>0, <3>1, MinimalSubset
    <2>2. U \in SUBSET S /\ U \in SUBSET D /\ ~(Sum(f, U) <= Sum(f, U \cap R))
      OBVIOUS
    <2>3. U # {}
      <3>1. Sum(f, {}) = 0 /\ {} \cap R = {}
        BY SumTerm
      <3> QED BY <2>2, <3>1
    <2>4. PICK x \in U : TRUE
      BY <2>3
    <2> DEFINE V == U \ {x}
    <2>5. V \in SUBSET S /\ V \in SUBSET D /\ V \subseteq U /\ V # U /\ V \cap R \in SUBSET D
      BY <2>2, <2>4
    <2>6. Sum(f, V) <= Sum(f, V \cap R)
      BY <2>1, <2>5
    <2>7. Sum(f, U) = f[x] + Sum(f, V)
      BY <2>2, SumTerm
    <2>8. f[x] \in Nat /\ Sum(f, V) \in Nat /\ Sum(f, V \cap R) \in Nat
      BY <2>2, <2>5, SumTerm
    <2>9. CASE x \in R
      <3>1. U \cap R \in SUBSET D /\ x \in U \cap R /\ (U \cap R) \ {x} = V \cap R
        BY <2>2, <2>9
      <3>2. Sum(f, U \cap R) = f[x] + Sum(f, (U \cap R) \ {x})
        BY <3>1, SumTerm
      <3>3. Sum(f, U \cap R) = f[x] + Sum(f, V \cap R)
        BY <3>1, <3>2
      <3> HIDE DEF V
      <3> QED BY <2>2, <2>6, <2>7, <2>8, <3>3
    <2>10. CASE x \notin R
      <3>1. U \cap R = V \cap R /\ f[x] = 0
        BY <2>2, <2>10
      <3> HIDE DEF V
      <3> QED BY <2>2, <2>6, <2>7, <2>8, <3>1
    <2> QED BY <2>9, <2>10
  <1>2. Sum(f, S) <= Sum(f, S \cap R)
    BY <1>1
  <1>3. Sum(f, S \cap R) <= Sum(f, R)
    <2>1. S \cap R \in SUBSET R
      OBVIOUS
    <2> QED BY <2>1, SumGrows
  <1>4. Sum(f, S) \in Nat /\ Sum(f, S \cap R) \in Nat /\ Sum(f, R) \in Nat
    <2>1. S \cap R \in SUBSET D
      OBVIOUS
    <2> QED BY <2>1, SumTerm
  <1> QED BY <1>2, <1>3, <1>4

(* Two sets with nothing in common add up to their union. *)
LEMMA SumUnion ==
    ASSUME NEW D, IsFiniteSet(D), NEW f \in [D -> Nat], NEW S \in SUBSET D, NEW R \in SUBSET D,
           S \cap R = {}
    PROVE  Sum(f, S \cup R) = Sum(f, S) + Sum(f, R)
  <1> DEFINE Bad == {U \in SUBSET S : Sum(f, U \cup R) # Sum(f, U) + Sum(f, R)}
  <1>1. Bad = {}
    <2> SUFFICES ASSUME Bad # {} PROVE FALSE
      OBVIOUS
    <2>0. IsFiniteSet(S)
      BY FS_Subset
    <2>1. PICK U \in Bad : \A V \in Bad : V \subseteq U => V = U
      <3>1. Bad \subseteq SUBSET S
        OBVIOUS
      <3> HIDE DEF Bad
      <3> QED BY <2>0, <3>1, MinimalSubset
    <2>2. U \in SUBSET S /\ U \in SUBSET D /\ Sum(f, U \cup R) # Sum(f, U) + Sum(f, R)
      OBVIOUS
    <2>3. U # {}
      <3>1. Sum(f, {}) = 0 /\ {} \cup R = R /\ Sum(f, R) \in Nat
        BY SumTerm
      <3> QED BY <2>2, <3>1
    <2>4. PICK x \in U : TRUE
      BY <2>3
    <2> DEFINE V == U \ {x}
    <2>5. V \in SUBSET S /\ V \in SUBSET D /\ V \subseteq U /\ V # U /\ V \cup R \in SUBSET D
      BY <2>2, <2>4
    <2>6. Sum(f, V \cup R) = Sum(f, V) + Sum(f, R)
      BY <2>1, <2>5
    <2>7. Sum(f, U) = f[x] + Sum(f, V)
      BY <2>2, SumTerm
    <2>8. Sum(f, U \cup R) = f[x] + Sum(f, V \cup R)
      <3> DEFINE W == U \cup R
      <3>1. W \in SUBSET D /\ x \in W /\ W \ {x} = V \cup R
        BY <2>2, <2>4
      <3> HIDE DEF W
      <3>2. Sum(f, W) = f[x] + Sum(f, W \ {x})
        BY <3>1, SumTerm
      <3> QED BY <3>1, <3>2 DEF W
    <2>9. f[x] \in Nat /\ Sum(f, V) \in Nat /\ Sum(f, R) \in Nat
      BY <2>2, <2>5, SumTerm
    <2> HIDE DEF V
    <2> QED BY <2>2, <2>6, <2>7, <2>8, <2>9
  <1>2. S \in SUBSET S
    OBVIOUS
  <1> QED BY <1>1, <1>2

(* A sum whose terms go, each to one of its own, into no smaller terms of another is no  *)
(* larger.                                                                               *)
LEMMA SumAlong ==
    ASSUME NEW D, IsFiniteSet(D), NEW f \in [D -> Nat], NEW E, IsFiniteSet(E), NEW g \in [E -> Nat],
           NEW to \in [D -> E], \A x, y \in D : to[x] = to[y] => x = y,
           \A x \in D : f[x] <= g[to[x]]
    PROVE  Sum(f, D) <= Sum(g, E)
  <1> DEFINE Image(U) == {to[x] : x \in U}
             Bad == {U \in SUBSET D : ~(Sum(f, U) <= Sum(g, Image(U)))}
  <1>1. Bad = {}
    <2> SUFFICES ASSUME Bad # {} PROVE FALSE
      OBVIOUS
    <2>1. PICK U \in Bad : \A V \in Bad : V \subseteq U => V = U
      <3>1. Bad \subseteq SUBSET D
        OBVIOUS
      <3> HIDE DEF Bad
      <3> QED BY <3>1, MinimalSubset
    <2>2. U \in SUBSET D /\ ~(Sum(f, U) <= Sum(g, Image(U)))
      OBVIOUS
    <2>3. U # {}
      <3>1. Sum(f, {}) = 0 /\ Sum(g, {}) = 0 /\ Image({}) = {}
        BY SumTerm
      <3> QED BY <2>2, <3>1
    <2>4. PICK x \in U : TRUE
      BY <2>3
    <2> DEFINE V == U \ {x}
    <2>5. V \in SUBSET D /\ V \subseteq U /\ V # U
      BY <2>2, <2>4
    <2>6. Sum(f, V) <= Sum(g, Image(V))
      BY <2>1, <2>5
    <2>7. Sum(f, U) = f[x] + Sum(f, V)
      BY <2>2, SumTerm
    <2>8. Image(V) \in SUBSET E /\ to[x] \in E \ Image(V) /\ Image(U) = Image(V) \cup {to[x]}
      BY <2>2, <2>4, <2>5
    <2> HIDE DEF Image
    <2>9. Sum(g, Image(U)) = g[to[x]] + Sum(g, Image(V))
      <3> DEFINE I == Image(V)
                 y == to[x]
      <3>1. I \in SUBSET E /\ y \in E \ I /\ Image(U) = I \cup {y}
        BY <2>8
      <3> HIDE DEF I, y
      <3>2. Sum(g, I \cup {y}) = g[y] + Sum(g, I)
        BY <3>1, SumAdd
      <3> QED BY <3>1, <3>2 DEF I, y
    <2>10. /\ f[x] \in Nat /\ Sum(f, V) \in Nat /\ Sum(g, Image(V)) \in Nat
           /\ g[to[x]] \in Nat /\ f[x] <= g[to[x]]
      BY <2>2, <2>5, <2>8, SumTerm
    <2> HIDE DEF V
    <2> QED BY <2>2, <2>6, <2>7, <2>9, <2>10
  <1>2. Sum(f, D) <= Sum(g, Image(D))
    BY <1>1
  <1>3. Image(D) \in SUBSET E
    OBVIOUS
  <1> HIDE DEF Image
  <1>4. Sum(g, Image(D)) <= Sum(g, E)
    BY <1>3, SumGrows
  <1>5. Sum(f, D) \in Nat /\ Sum(g, Image(D)) \in Nat /\ Sum(g, E) \in Nat
    BY <1>3, SumTerm
  <1> QED BY <1>2, <1>4, <1>5
================================================================================
