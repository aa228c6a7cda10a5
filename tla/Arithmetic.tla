----------------------------- MODULE Arithmetic -----------------------------
(***************************************************************************)
(* Facts about numbers that several proofs need: sums of functions over     *)
(* finite sets, as SumFunctionOnSet of Functions defines them, quotients   *)
(* and remainders, and the induction that the facts about sums rest on.    *)
(*                                                                         *)
(* The sum is defined by recursion over the subsets of the set: an element *)
(* is chosen, and the sum of the others added to its value.  That this     *)
(* recursion has a solution, that it has one only, and that the choice     *)
(* does not matter is proved here, by taking the smallest subset for which *)
(* it fails.                                                               *)
(***************************************************************************)
EXTENDS Integers, FiniteSets, Functions, FiniteSetTheorems, WellFoundedInduction, TLAPS

\* The order of the natural numbers is well founded.
LEMMA NaturalsAreWellFounded ==
    IsWellFoundedOn({ss \in Nat \X Nat : ss[1] < ss[2]}, Nat)
  BY NatLessThanWellFounded DEF OpToRel

\* A set of natural numbers that is not empty has a least element.
LEMMA LeastNatural ==
    ASSUME NEW S \in SUBSET Nat, S # {}
    PROVE  \E n \in S : \A m \in S : n <= m
  <1> DEFINE R == {ss \in Nat \X Nat : ss[1] < ss[2]}
  <1>1. IsWellFoundedOn(R, Nat)
    BY NaturalsAreWellFounded
  <1>2. \A m, n \in Nat : m < n => <<m, n>> \in R
    OBVIOUS
  <1> HIDE DEF R
  <1>3. PICK n \in S : \A m \in S : ~ (<<m, n>> \in R)
    BY <1>1, WFMin
  <1>4. \A m \in S : n \in Nat /\ m \in Nat /\ ~(m < n)
    BY <1>2, <1>3
  <1> QED
    BY <1>4

\* What holds of a subset whenever it holds of all smaller ones holds of all.
LEMMA SubsetInduction ==
    ASSUME NEW S, IsFiniteSet(S), NEW P,
           \A T \in SUBSET S :
             (\A U \in SUBSET T : U # T => U \in P) => T \in P
    PROVE  \A T \in SUBSET S : T \in P
  <1> DEFINE Sizes == {Cardinality(T) : T \in {U \in SUBSET S : U \notin P}}
  <1>1. \A T \in SUBSET S : IsFiniteSet(T) /\ Cardinality(T) \in Nat
    BY FS_Subset, FS_CardinalityType
  <1>2. Sizes \in SUBSET Nat
    BY <1>1
  <1>3. ASSUME Sizes # {} PROVE FALSE
    <2>1. PICK n \in Sizes : \A m \in Sizes : n <= m
      BY <1>2, <1>3, LeastNatural
    <2>2. PICK T \in SUBSET S : T \notin P /\ Cardinality(T) = n
      BY <2>1
    <2>3. ASSUME NEW U \in SUBSET T, U # T PROVE U \in P
      <3>1. Cardinality(U) <= Cardinality(T) /\ Cardinality(U) # Cardinality(T)
        BY <1>1, <2>3, FS_Subset
      <3>2. U \in SUBSET S /\ Cardinality(U) \in Nat /\ Cardinality(T) \in Nat
        BY <1>1
      <3>3. Cardinality(U) \notin Sizes
        BY <2>1, <2>2, <3>1, <3>2
      <3> QED
        BY <3>2, <3>3
    <2> QED
      BY <2>2, <2>3
  <1> QED
    BY <1>3

-----------------------------------------------------------------------------
(* The recursion *)

Pick(S) == CHOOSE x \in S : TRUE

Body(f, g, S) ==
    [s \in SUBSET S |-> IF s = {} THEN 0 ELSE f[Pick(s)] + g[s \ {Pick(s)}]]

Solution(f, S) == CHOOSE g : g = Body(f, g, S)

\* The sum is the value of the solution.
LEMMA SumIsSolution ==
    ASSUME NEW f, NEW S
    PROVE  SumFunctionOnSet(f, S) = Solution(f, S)[S]
  BY DEF SumFunctionOnSet, FoldFunctionOnSet, MapThenFoldSet, Solution, Body, Pick

\* The chosen element is one of the set, and the rest is smaller.
LEMMA PickFacts ==
    ASSUME NEW S, IsFiniteSet(S), NEW s \in SUBSET S
    PROVE  /\ IsFiniteSet(s) /\ Cardinality(s) \in Nat
           /\ Cardinality(s) <= Cardinality(S)
           /\ Cardinality(s) = 0 => s = {}
           /\ s # {} => /\ Pick(s) \in s
                        /\ Cardinality(s \ {Pick(s)}) = Cardinality(s) - 1
                        /\ s \ {Pick(s)} \in SUBSET S
  <1>1. IsFiniteSet(s) /\ Cardinality(s) <= Cardinality(S)
    BY FS_Subset
  <1>2. Cardinality(s) \in Nat /\ (Cardinality(s) = 0 => s = {})
    BY <1>1, FS_CardinalityType, FS_EmptySet
  <1>3. s # {} => Pick(s) \in s
    BY DEF Pick
  <1>4. s # {} => Cardinality(s \ {Pick(s)}) = Cardinality(s) - 1
    BY <1>1, <1>3, FS_RemoveElement
  <1> QED
    BY <1>1, <1>2, <1>3, <1>4

\* g obeys the recursion on the subsets of at most n elements.
Obeys(f, g, S, n) ==
    \A s \in SUBSET S : Cardinality(s) <= n =>
        g[s] = IF s = {} THEN 0 ELSE f[Pick(s)] + g[s \ {Pick(s)}]

\* The recursion has a solution: one for the subsets of n elements is extended
\* to those of n + 1.
LEMMA SolutionExists ==
    ASSUME NEW f, NEW S, IsFiniteSet(S)
    PROVE  \E g : g = Body(f, g, S)
  <1> DEFINE Bad == {n \in Nat : ~ \E g : Obeys(f, g, S, n)}
  <1>1. Bad = {}
    <2> SUFFICES ASSUME Bad # {} PROVE FALSE
      OBVIOUS
    <2>1. PICK n \in Bad : \A m \in Bad : n <= m
      BY LeastNatural
    <2>2. CASE n = 0
      <3> DEFINE z == [s \in SUBSET S |-> 0]
      <3>1. ASSUME NEW s \in SUBSET S, Cardinality(s) <= 0
            PROVE  s = {} /\ z[s] = 0
        <4>1. Cardinality(s) \in Nat /\ (Cardinality(s) = 0 => s = {})
          BY PickFacts
        <4>2. Cardinality(s) = 0
          BY <3>1, <4>1
        <4> QED
          BY <4>1, <4>2
      <3> HIDE DEF z
      <3>2. Obeys(f, z, S, 0)
        BY <3>1 DEF Obeys
      <3> QED
        BY <2>1, <2>2, <3>2
    <2>3. CASE n # 0
      <3>1. n - 1 \in Nat /\ n - 1 \notin Bad
        BY <2>1, <2>3
      <3>2. PICK g : Obeys(f, g, S, n - 1)
        BY <3>1
      <3> DEFINE h == [s \in SUBSET S |->
                         IF s = {} THEN 0
                         ELSE IF Cardinality(s) <= n - 1 THEN g[s]
                         ELSE f[Pick(s)] + g[s \ {Pick(s)}]]
      <3>3. Obeys(f, h, S, n)
        <4> SUFFICES ASSUME NEW s \in SUBSET S, Cardinality(s) <= n, s # {}
                     PROVE  h[s] = f[Pick(s)] + h[s \ {Pick(s)}]
          BY DEF Obeys
        <4> DEFINE t == s \ {Pick(s)}
        <4>1. t \in SUBSET S /\ Cardinality(t) <= n - 1
          BY PickFacts, <2>1
        <4>2. h[t] = g[t]
          BY <3>2, <4>1 DEF Obeys
        <4>3. h[s] = f[Pick(s)] + g[t]
          BY <3>2 DEF Obeys
        <4> QED
          BY <4>2, <4>3
      <3> QED
        BY <2>1, <3>3
    <2> QED
      BY <2>2, <2>3
  <1>2. PICK g : Obeys(f, g, S, Cardinality(S))
    BY <1>1, FS_CardinalityType
  <1> DEFINE h == [s \in SUBSET S |-> g[s]]
  <1>3. ASSUME NEW s \in SUBSET S
        PROVE  /\ g[s] = IF s = {} THEN 0 ELSE f[Pick(s)] + g[s \ {Pick(s)}]
               /\ s # {} => s \ {Pick(s)} \in SUBSET S
    BY <1>2, PickFacts DEF Obeys
  <1>4. h = Body(f, h, S)
    BY <1>3 DEF Body
  <1> QED
    BY <1>4

\* Its value for a subset is the same, whatever set the subset is of.
LEMMA SolutionIsUnique ==
    ASSUME NEW f, NEW S, IsFiniteSet(S), NEW T \in SUBSET S, NEW g, NEW h,
           g = Body(f, g, S), h = Body(f, h, T)
    PROVE  g[T] = h[T]
  <1> DEFINE P == {U \in SUBSET T : g[U] = h[U]}
  <1>1. IsFiniteSet(T)
    BY FS_Subset
  <1>2. ASSUME NEW U \in SUBSET T, \A V \in SUBSET U : V # U => V \in P
        PROVE  U \in P
    <2>1. /\ g[U] = IF U = {} THEN 0 ELSE f[Pick(U)] + g[U \ {Pick(U)}]
          /\ h[U] = IF U = {} THEN 0 ELSE f[Pick(U)] + h[U \ {Pick(U)}]
      BY DEF Body
    <2>2. U # {} => g[U \ {Pick(U)}] = h[U \ {Pick(U)}]
      <3>1. U # {} => U \ {Pick(U)} \in SUBSET U /\ U \ {Pick(U)} # U
        BY DEF Pick
      <3> QED
        BY <1>2, <3>1
    <2> QED
      BY <2>1, <2>2
  <1> HIDE DEF P
  <1>3. T \in P
    BY <1>1, <1>2, SubsetInduction
  <1> QED
    BY <1>3 DEF P

-----------------------------------------------------------------------------
(* Sums *)

Sum(f, S) == SumFunctionOnSet(f, S)

\* The recursion, of the sum itself.
LEMMA SumUnfolds ==
    ASSUME NEW f, NEW S, IsFiniteSet(S)
    PROVE  Sum(f, S) = IF S = {} THEN 0 ELSE f[Pick(S)] + Sum(f, S \ {Pick(S)})
  <1> DEFINE g == Solution(f, S)
             T == S \ {Pick(S)}
             h == Solution(f, T)
  <1>1. IsFiniteSet(T) /\ T \in SUBSET S
    BY FS_Subset
  <1>2. g = Body(f, g, S)
    BY SolutionExists DEF Solution
  <1>3. h = Body(f, h, T)
    BY <1>1, SolutionExists DEF Solution
  <1> HIDE DEF g, h
  <1>4. g[S] = IF S = {} THEN 0 ELSE f[Pick(S)] + g[T]
    BY <1>2 DEF Body
  <1>5. g[T] = h[T]
    BY <1>1, <1>2, <1>3, SolutionIsUnique
  <1> QED
    BY <1>4, <1>5, SumIsSolution DEF Sum, g, h

\* A sum over nothing.
LEMMA SumOfNothing == \A f : Sum(f, {}) = 0
  BY SumUnfolds, FS_EmptySet

\* A sum of integers is one.
LEMMA SumIsInteger ==
    ASSUME NEW f, NEW S, IsFiniteSet(S), \A x \in S : f[x] \in Int
    PROVE  Sum(f, S) \in Int
  <1> DEFINE P == {T \in SUBSET S : Sum(f, T) \in Int}
  <1>1. ASSUME NEW T \in SUBSET S, \A U \in SUBSET T : U # T => U \in P
        PROVE  T \in P
    <2>1. Sum(f, T) = IF T = {} THEN 0 ELSE f[Pick(T)] + Sum(f, T \ {Pick(T)})
      BY FS_Subset, SumUnfolds
    <2>2. T # {} => f[Pick(T)] \in Int /\ Sum(f, T \ {Pick(T)}) \in Int
      <3>1. T # {} => /\ Pick(T) \in S
                      /\ T \ {Pick(T)} \in SUBSET T /\ T \ {Pick(T)} # T
        BY DEF Pick
      <3> QED
        BY <1>1, <3>1
    <2> QED
      BY <2>1, <2>2
  <1> HIDE DEF P
  <1>2. S \in P
    BY <1>1, SubsetInduction
  <1> QED
    BY <1>2 DEF P

\* A sum is of the values of the elements alone.
LEMMA SumOfEquals ==
    ASSUME NEW f, NEW g, NEW S, IsFiniteSet(S), \A x \in S : f[x] = g[x]
    PROVE  Sum(f, S) = Sum(g, S)
  <1> DEFINE P == {T \in SUBSET S : Sum(f, T) = Sum(g, T)}
  <1>1. ASSUME NEW T \in SUBSET S, \A U \in SUBSET T : U # T => U \in P
        PROVE  T \in P
    <2>1. /\ Sum(f, T) = IF T = {} THEN 0 ELSE f[Pick(T)] + Sum(f, T \ {Pick(T)})
          /\ Sum(g, T) = IF T = {} THEN 0 ELSE g[Pick(T)] + Sum(g, T \ {Pick(T)})
      BY FS_Subset, SumUnfolds
    <2>2. T # {} => /\ f[Pick(T)] = g[Pick(T)]
                    /\ Sum(f, T \ {Pick(T)}) = Sum(g, T \ {Pick(T)})
      <3>1. T # {} => /\ Pick(T) \in S
                      /\ T \ {Pick(T)} \in SUBSET T /\ T \ {Pick(T)} # T
        BY DEF Pick
      <3> QED
        BY <1>1, <3>1
    <2> QED
      BY <2>1, <2>2
  <1> HIDE DEF P
  <1>2. S \in P
    BY <1>1, SubsetInduction
  <1> QED
    BY <1>2 DEF P

\* Whichever element is taken out first, its value is added to the sum of the
\* others.
LEMMA SumTakesOut ==
    ASSUME NEW f, NEW S, IsFiniteSet(S), \A x \in S : f[x] \in Int, NEW y \in S
    PROVE  Sum(f, S) = f[y] + Sum(f, S \ {y})
  <1> DEFINE P == {T \in SUBSET S : \A x \in T : Sum(f, T) = f[x] + Sum(f, T \ {x})}
  <1>0. \A T \in SUBSET S : Sum(f, T) \in Int
    BY FS_Subset, SumIsInteger
  <1>1. ASSUME NEW T \in SUBSET S, \A U \in SUBSET T : U # T => U \in P
        PROVE  T \in P
    <2> SUFFICES ASSUME NEW x \in T PROVE Sum(f, T) = f[x] + Sum(f, T \ {x})
      OBVIOUS
    <2> DEFINE p == Pick(T)
               R == T \ {p}
               Q == T \ {x}
    <2>1. p \in T
      BY DEF Pick
    <2> HIDE DEF p
    <2>2. Sum(f, T) = f[p] + Sum(f, R)
      BY FS_Subset, SumUnfolds DEF p
    <2>3. CASE x = p
      BY <2>2, <2>3
    <2>4. CASE x # p
      <3>1. R \in P /\ x \in R /\ Q \in P /\ p \in Q
        <4>1. R \in SUBSET T /\ R # T /\ Q \in SUBSET T /\ Q # T /\ x \in R /\ p \in Q
          BY <2>1, <2>4
        <4> HIDE DEF P, R, Q
        <4> QED
          BY <1>1, <4>1
      <3>2. Sum(f, R) = f[x] + Sum(f, R \ {x}) /\ Sum(f, Q) = f[p] + Sum(f, Q \ {p})
        BY <3>1
      <3>3. R \ {x} = Q \ {p}
        OBVIOUS
      <3>4. Q \in SUBSET S /\ Q \ {p} \in SUBSET S /\ R \in SUBSET S
        OBVIOUS
      <3>5. Sum(f, Q) \in Int /\ Sum(f, Q \ {p}) \in Int /\ f[x] \in Int /\ f[p] \in Int
        BY <1>0, <2>1, <3>4
      <3> HIDE DEF R, Q
      <3>6. Sum(f, T) = f[p] + (f[x] + Sum(f, Q \ {p})) /\ Sum(f, Q) = f[p] + Sum(f, Q \ {p})
        BY <2>2, <3>2, <3>3
      <3>7. Sum(f, T) = f[x] + Sum(f, Q)
        BY <3>5, <3>6
      <3> QED
        BY <3>7 DEF Q
    <2> QED
      BY <2>3, <2>4
  <1> HIDE DEF P
  <1>2. S \in P
    BY <1>1, SubsetInduction
  <1> QED
    BY <1>2 DEF P

\* The sum over two sets that share nothing is that of the one and the other.
LEMMA SumOfUnion ==
    ASSUME NEW f, NEW S, NEW T, IsFiniteSet(S), IsFiniteSet(T), S \cap T = {},
           \A x \in S \cup T : f[x] \in Int
    PROVE  Sum(f, S \cup T) = Sum(f, S) + Sum(f, T)
  <1> DEFINE P == {U \in SUBSET T : Sum(f, S \cup U) = Sum(f, S) + Sum(f, U)}
  <1>1. ASSUME NEW U \in SUBSET T, \A V \in SUBSET U : V # U => V \in P
        PROVE  U \in P
    <2>0. /\ IsFiniteSet(U) /\ IsFiniteSet(S \cup U)
          /\ Sum(f, S) \in Int /\ Sum(f, U) \in Int
      BY FS_Subset, FS_Union, SumIsInteger
    <2>1. CASE U = {}
      <3>1. S \cup U = S /\ Sum(f, U) = 0
        BY <2>1, SumOfNothing
      <3>2. Sum(f, S \cup U) = Sum(f, S)
        BY <3>1
      <3>3. Sum(f, S \cup U) = Sum(f, S) + Sum(f, U)
        BY <2>0, <3>1, <3>2
      <3> QED
        BY <3>3
    <2>2. CASE U # {}
      <3>1. PICK x \in U : TRUE
        BY <2>2
      <3> DEFINE V == U \ {x}
      <3>2. V \in SUBSET U /\ V # U
        BY <3>1
      <3>3. Sum(f, S \cup V) = Sum(f, S) + Sum(f, V)
        <4> HIDE DEF V
        <4> QED
          BY <1>1, <3>2
      <3>4. Sum(f, U) = f[x] + Sum(f, V)
        BY <2>0, <3>1, SumTakesOut
      <3>5. Sum(f, S \cup U) = f[x] + Sum(f, S \cup V)
        <4>1. (S \cup U) \ {x} = S \cup V /\ x \in S \cup U
          BY <3>1
        <4>2. \A y \in S \cup U : f[y] \in Int
          OBVIOUS
        <4> QED
          BY <2>0, <4>1, <4>2, SumTakesOut
      <3>6. Sum(f, V) \in Int /\ f[x] \in Int
        <4>1. IsFiniteSet(V)
          BY <2>0, FS_Subset
        <4> QED
          BY <3>1, <4>1, SumIsInteger
      <3> HIDE DEF V
      <3>7. Sum(f, S \cup U) = Sum(f, S) + Sum(f, U)
        BY <2>0, <3>3, <3>4, <3>5, <3>6
      <3> QED
        BY <3>7
    <2> QED
      BY <2>1, <2>2
  <1> HIDE DEF P
  <1>2. T \in P
    BY <1>1, SubsetInduction
  <1> QED
    BY <1>2 DEF P

\* A sum of what is not negative is not negative ...
LEMMA SumIsNatural ==
    ASSUME NEW f, NEW S, IsFiniteSet(S), \A x \in S : f[x] \in Nat
    PROVE  Sum(f, S) \in Nat
  <1> DEFINE P == {T \in SUBSET S : Sum(f, T) \in Nat}
  <1>1. ASSUME NEW T \in SUBSET S, \A U \in SUBSET T : U # T => U \in P
        PROVE  T \in P
    <2>1. Sum(f, T) = IF T = {} THEN 0 ELSE f[Pick(T)] + Sum(f, T \ {Pick(T)})
      BY FS_Subset, SumUnfolds
    <2>2. T # {} => f[Pick(T)] \in Nat /\ Sum(f, T \ {Pick(T)}) \in Nat
      <3>1. T # {} => /\ Pick(T) \in S
                      /\ T \ {Pick(T)} \in SUBSET T /\ T \ {Pick(T)} # T
        BY DEF Pick
      <3> QED
        BY <1>1, <3>1
    <2> QED
      BY <2>1, <2>2
  <1> HIDE DEF P
  <1>2. S \in P
    BY <1>1, SubsetInduction
  <1> QED
    BY <1>2 DEF P

\* ... and grows with the set.
LEMMA SumGrows ==
    ASSUME NEW f, NEW S, IsFiniteSet(S), \A x \in S : f[x] \in Nat, NEW T \in SUBSET S
    PROVE  Sum(f, T) <= Sum(f, S)
  <1> DEFINE R == S \ T
  <1>1. /\ IsFiniteSet(T) /\ IsFiniteSet(R) /\ T \cap R = {} /\ T \cup R = S
        /\ \A x \in T \cup R : f[x] \in Int
    BY FS_Subset
  <1>2. Sum(f, T) \in Nat /\ Sum(f, R) \in Nat
    BY <1>1, SumIsNatural
  <1> HIDE DEF R
  <1>3. Sum(f, T \cup R) = Sum(f, T) + Sum(f, R)
    BY <1>1, SumOfUnion
  <1>4. Sum(f, S) = Sum(f, T) + Sum(f, R)
    BY <1>1, <1>3
  <1> QED
    BY <1>2, <1>4

-----------------------------------------------------------------------------
(* Division *)

\* Quotient and remainder.
LEMMA Division ==
    ASSUME NEW m \in Int, NEW n \in Nat \ {0}
    PROVE  /\ m \div n \in Int /\ m % n \in Nat /\ m % n < n
           /\ m = n * (m \div n) + (m % n)
  OBVIOUS

\* Between two multiples that follow one another there is none.
LEMMA Multiples ==
    ASSUME NEW n \in Nat \ {0}, NEW k \in Int, -n < n * k, n * k < n
    PROVE  k = 0
  <1>1. CASE k >= 1
    <2>1. n * (k - 1) >= 0
      BY <1>1
    <2> QED BY <2>1
  <1>2. CASE k <= -1
    <2>1. n * (-k - 1) >= 0
      BY <1>2
    <2> QED BY <2>1
  <1> QED BY <1>1, <1>2

\* No other quotient and remainder have this sum.
LEMMA DivisionIsUnique ==
    ASSUME NEW m \in Int, NEW n \in Nat \ {0}, NEW d \in Int, NEW r \in Nat, r < n,
           m = n * d + r
    PROVE  m \div n = d /\ m % n = r
  <1> DEFINE e == m \div n
             s == m % n
  <1>1. e \in Int /\ s \in Nat /\ s < n /\ m = n * e + s
    BY Division
  <1> HIDE DEF e, s
  <1>2. n * (e - d) = r - s
    BY <1>1
  <1>3. e - d = 0
    <2>1. -n < r - s /\ r - s < n
      BY <1>1
    <2>2. e - d \in Int
      BY <1>1
    <2> DEFINE k == e - d
    <2>3. k \in Int /\ n * k = r - s
      BY <1>2, <2>2
    <2> HIDE DEF k
    <2>4. -n < n * k /\ n * k < n
      BY <2>1, <2>3
    <2>5. k = 0
      BY <2>3, <2>4, Multiples
    <2> QED BY <2>5 DEF k
  <1>4. e = d
    BY <1>1, <1>3
  <1>5. s = r
    BY <1>1, <1>2, <1>4
  <1> QED BY <1>4, <1>5 DEF e, s

\* Multiplying both.
LEMMA DivisionScales ==
    ASSUME NEW m \in Int, NEW n \in Nat \ {0}, NEW q \in Nat \ {0}
    PROVE  /\ q * n \in Nat \ {0} /\ q * m \in Int
           /\ (q * m) \div (q * n) = m \div n
           /\ (q * m) % (q * n) = q * (m % n)
  <1> DEFINE d == m \div n
             r == m % n
  <1>1. d \in Int /\ r \in Nat /\ r < n /\ m = n * d + r
    BY Division
  <1> HIDE DEF d, r
  <1>2. q * n \in Nat \ {0} /\ q * m \in Int /\ q * r \in Nat
    BY <1>1
  <1>3. q * r < q * n
    <2>1. q * (n - r - 1) >= 0
      BY <1>1
    <2>2. q * (n - r - 1) = q * n - q * r - q
      BY <1>1
    <2> QED BY <1>1, <1>2, <2>1, <2>2
  <1>4. q * m = (q * n) * d + q * r
    <2>1. q * (n * d + r) = q * (n * d) + q * r
      BY <1>1
    <2>2. q * (n * d) = (q * n) * d
      BY <1>1
    <2> QED BY <1>1, <2>1, <2>2
  <1> DEFINE M == q * m
             N == q * n
             R == q * r
  <1>5. M \in Int /\ N \in Nat \ {0} /\ R \in Nat /\ R < N /\ M = N * d + R
    BY <1>2, <1>3, <1>4
  <1> HIDE DEF M, N, R
  <1>6. M \div N = d /\ M % N = R
    BY <1>1, <1>5, DivisionIsUnique
  <1> QED
    BY <1>2, <1>6 DEF M, N, R, d, r
=============================================================================
