------------------------------ MODULE FiniteFacts ------------------------------
(***************************************************************************)
(* Facts about finite sets the theorems rest on: the least of a set of     *)
(* numbers and the greatest of a finite set exist, and a sum over a finite *)
(* set is what one takes it for.                                           *)
(***************************************************************************)
EXTENDS Integers, FiniteSetsExt, FiniteSetTheorems, WellFoundedInduction, TLAPS

\* Every set of natural numbers has a least one.
LEMMA LeastNatural ==
    ASSUME NEW T \in SUBSET Nat, T # {}
    PROVE  \E n \in T : \A m \in T : n <= m
<1>1. \E n \in T : \A m \in T : ~(<<m, n>> \in OpToRel(<, Nat))
  BY NatLessThanWellFounded, WFMin, Zenon
<1>2. PICK n \in T : \A m \in T : ~(<<m, n>> \in OpToRel(<, Nat))
  BY <1>1
<1>3. \A m \in T : ~(m < n)
  BY <1>2 DEF OpToRel
<1>. QED
  BY <1>3

\* Among finitely many things measured by a number, one measures most: the one
\* that fewest exceed.
LEMMA GreatestMeasure ==
    ASSUME NEW E, IsFiniteSet(E), E # {}, NEW f, \A k \in E : f[k] \in Int
    PROVE  \E k \in E : \A j \in E : f[j] <= f[k]
<1>. DEFINE Above(k) == {j \in E : f[k] < f[j]}
            Counts == {Cardinality(Above(k)) : k \in E}
<1>1. \A k \in E : IsFiniteSet(Above(k)) /\ Cardinality(Above(k)) \in Nat
  BY FS_Subset, FS_CardinalityType
<1>2. Counts \in SUBSET Nat /\ Counts # {}
  BY <1>1
<1>3. PICK n \in Counts : \A m \in Counts : n <= m
  BY <1>2, LeastNatural
<1>4. PICK k \in E : \A j \in E : Cardinality(Above(k)) <= Cardinality(Above(j))
  <2>1. PICK k \in E : n = Cardinality(Above(k))
    BY <1>3
  <2>2. \A j \in E : Cardinality(Above(j)) \in Counts
    OBVIOUS
  <2>3. \A j \in E : n <= Cardinality(Above(j))
    BY <1>3, <2>2
  <2>. QED
    BY <2>1, <2>3
<1>5. ASSUME NEW j \in E, ~(f[j] <= f[k]) PROVE FALSE
  <2>1. f[k] < f[j] /\ f[k] \in Int /\ f[j] \in Int
    BY <1>5
  <2>2. Above(j) \in SUBSET Above(k)
    BY <2>1
  <2>3. j \in Above(k) /\ j \notin Above(j)
    BY <2>1
  <2>4. IsFiniteSet(Above(k))
    BY <1>1
  <2>. HIDE DEF Above
  <2>5. /\ Cardinality(Above(j)) <= Cardinality(Above(k))
        /\ Cardinality(Above(k)) = Cardinality(Above(j)) => Above(k) = Above(j)
    BY <2>2, <2>4, FS_Subset
  <2>. QED
    BY <1>1, <1>4, <2>3, <2>5
<1>. QED
  BY <1>5

-----------------------------------------------------------------------------
(* Sums over finite sets.                                                  *)

\* What holds of a subset once it holds of its proper subsets holds of all.
LEMMA SubsetInduction ==
    ASSUME NEW S, IsFiniteSet(S), NEW F,
           \A s \in SUBSET S : (\A t \in SUBSET s : t # s => t \in F) => s \in F
    PROVE  \A s \in SUBSET S : s \in F
<1>. DEFINE Sizes == {Cardinality(s) : s \in (SUBSET S) \ F}
<1>1. \A s \in SUBSET S : IsFiniteSet(s) /\ Cardinality(s) \in Nat
  BY FS_Subset, FS_CardinalityType
<1>. SUFFICES ASSUME (SUBSET S) \ F # {} PROVE FALSE
  OBVIOUS
<1>2. Sizes \in SUBSET Nat /\ Sizes # {}
  BY <1>1
<1>3. PICK n \in Sizes : \A m \in Sizes : n <= m
  <2>. HIDE DEF Sizes
  <2>. QED
    BY <1>2, LeastNatural
<1>4. PICK s \in (SUBSET S) \ F : n = Cardinality(s)
  BY <1>3
<1>5. ASSUME NEW t \in SUBSET s, t # s, t \notin F PROVE FALSE
  <2>1. t \in (SUBSET S) \ F
    BY <1>4, <1>5
  <2>2. Cardinality(t) <= Cardinality(s) /\ Cardinality(t) # Cardinality(s)
    BY <1>1, <1>5, FS_Subset
  <2>3. n <= Cardinality(t)
    BY <1>3, <2>1
  <2>. QED
    BY <1>1, <1>4, <2>1, <2>2, <2>3
<1>. QED
  BY <1>4, <1>5

\* The partial sums of f over the subsets of S.
Adds(g, f, S) ==
    g = [s \in SUBSET S |->
            IF s = {} THEN 0
            ELSE f[CHOOSE x \in s : TRUE] + g[s \ {CHOOSE x \in s : TRUE}]]

\* They are determined, whatever the set they are taken over.
LEMMA AddsUnique ==
    ASSUME NEW S, IsFiniteSet(S), NEW R, NEW f, NEW g, NEW h, Adds(g, f, S), Adds(h, f, R)
    PROVE  \A s \in SUBSET S : s \in SUBSET R => g[s] = h[s]
<1>. DEFINE F == {s \in SUBSET S : s \in SUBSET R => g[s] = h[s]}
<1>1. ASSUME NEW s \in SUBSET S, \A t \in SUBSET s : t # s => t \in F, s \in SUBSET R
      PROVE  g[s] = h[s]
  <2>1. CASE s = {}
    BY <1>1, <2>1 DEF Adds
  <2>2. CASE s # {}
    <3>. DEFINE x == CHOOSE x \in s : TRUE
    <3>1. x \in s
      BY <2>2
    <3>2. g[s \ {x}] = h[s \ {x}]
      BY <1>1, <3>1
    <3>3. g[s] = f[x] + g[s \ {x}]
      BY <2>2 DEF Adds
    <3>4. h[s] = f[x] + h[s \ {x}]
      BY <1>1, <2>2 DEF Adds
    <3>. QED
      BY <3>2, <3>3, <3>4
  <2>. QED
    BY <2>1, <2>2
<1>2. \A s \in SUBSET S : (\A t \in SUBSET s : t # s => t \in F) => s \in F
  BY <1>1
<1>. HIDE DEF F
<1>3. \A s \in SUBSET S : s \in F
  BY <1>2, SubsetInduction
<1>. QED
  BY <1>3 DEF F

\* They exist.
LEMMA AddsExists ==
    ASSUME NEW S, IsFiniteSet(S), NEW f
    PROVE  \E g : Adds(g, f, S)
<1>. DEFINE F == {s \in SUBSET S : \E g : Adds(g, f, s)}
<1>1. ASSUME NEW s \in SUBSET S, \A t \in SUBSET s : t # s => t \in F
      PROVE  \E g : Adds(g, f, s)
  <2>. DEFINE Of(t) == CHOOSE g : Adds(g, f, t)
              first(t) == CHOOSE x \in t : TRUE
              h == [t \in SUBSET s |->
                      IF t = {} THEN 0
                      ELSE f[first(t)] + Of(t \ {first(t)})[t \ {first(t)}]]
  <2>1. \A t \in SUBSET s : t # s => Adds(Of(t), f, t)
    BY <1>1
  <2>2. ASSUME NEW t \in SUBSET s, t # s PROVE h[t] = Of(t)[t]
    <3>1. CASE t = {}
      <4>1. Adds(Of(t), f, t)
        BY <2>1, <2>2
      <4>2. h[t] = 0
        BY <3>1
      <4>3. Of(t)[t] = 0
        <5>. HIDE DEF Of, h
        <5>. QED
          BY <3>1, <4>1 DEF Adds
      <4>. QED
        BY <4>2, <4>3
    <3>2. CASE t # {}
      <4>1. first(t) \in t
        BY <3>2
      <4>. DEFINE r == t \ {first(t)}
      <4>2. r \in SUBSET t /\ r # s /\ r \in SUBSET s
        BY <4>1, <2>2
      <4>3. IsFiniteSet(r)
        BY <4>2, FS_Subset
      <4>4. Adds(Of(r), f, r) /\ Adds(Of(t), f, t)
        BY <4>2, <2>1, <2>2
      <4>5. Of(r)[r] = Of(t)[r]
        <5>. HIDE DEF Of, first, r
        <5>. QED
          BY <4>2, <4>3, <4>4, AddsUnique
      <4>6. Of(t)[t] = f[first(t)] + Of(t)[r]
        <5>. HIDE DEF Of
        <5>. QED
          BY <3>2, <4>4 DEF Adds
      <4>. QED
        BY <3>2, <4>5, <4>6
    <3>. QED
      BY <3>1, <3>2
  <2>3. ASSUME NEW t \in SUBSET s, t # {}
        PROVE  h[t] = f[first(t)] + h[t \ {first(t)}]
    <3>1. first(t) \in t
      BY <2>3
    <3>2. t \ {first(t)} \in SUBSET s /\ t \ {first(t)} # s
      BY <3>1
    <3>3. h[t \ {first(t)}] = Of(t \ {first(t)})[t \ {first(t)}]
      BY <2>2, <3>2
    <3>. QED
      BY <2>3, <3>3
  <2>4. h[{}] = 0
    OBVIOUS
  <2>5. DOMAIN h = SUBSET s /\ h = [t \in SUBSET s |-> h[t]]
    OBVIOUS
  <2>6. Adds(h, f, s)
    <3>. HIDE DEF h
    <3>. QED
      BY <2>3, <2>4, <2>5 DEF Adds
  <2>. QED
    BY <2>6
<1>2. \A s \in SUBSET S : (\A t \in SUBSET s : t # s => t \in F) => s \in F
  BY <1>1
<1>. HIDE DEF F
<1>3. \A s \in SUBSET S : s \in F
  BY <1>2, SubsetInduction
<1>4. S \in F
  BY <1>3
<1>. QED
  BY <1>4 DEF F

\* The sum of the community module is the last of them.
LEMMA SumIs ==
    ASSUME NEW S, IsFiniteSet(S), NEW f, NEW g, Adds(g, f, S)
    PROVE  SumFunctionOnSet(f, S) = g[S]
<1>. DEFINE h == CHOOSE h : Adds(h, f, S)
<1>1. SumFunctionOnSet(f, S) = h[S]
  BY DEF SumFunctionOnSet, FoldFunctionOnSet, MapThenFoldSet, Adds
<1>2. Adds(h, f, S)
  OBVIOUS
<1>3. h[S] = g[S]
  <2>. HIDE DEF h
  <2>. QED
    BY <1>2, AddsUnique
<1>. QED
  BY <1>1, <1>3

\* Nothing adds up to 0, and a set to one of its members and the rest.
LEMMA SumEmpty == ASSUME NEW f PROVE SumFunctionOnSet(f, {}) = 0
<1>1. PICK g : Adds(g, f, {})
  BY FS_EmptySet, AddsExists
<1>2. SumFunctionOnSet(f, {}) = g[{}]
  BY <1>1, FS_EmptySet, SumIs
<1>. QED
  BY <1>1, <1>2 DEF Adds

LEMMA SumFirst ==
    ASSUME NEW S, IsFiniteSet(S), S # {}, NEW f
    PROVE  \E x \in S : SumFunctionOnSet(f, S) = f[x] + SumFunctionOnSet(f, S \ {x})
<1>. DEFINE x == CHOOSE x \in S : TRUE
<1>1. x \in S
  OBVIOUS
<1>2. PICK g : Adds(g, f, S)
  BY AddsExists
<1>3. g[S] = f[x] + g[S \ {x}]
  BY <1>2 DEF Adds
<1>. HIDE DEF x
<1>4. IsFiniteSet(S \ {x})
  BY FS_Subset
<1>5. PICK h : Adds(h, f, S \ {x})
  BY <1>4, AddsExists
<1>6. S \ {x} \in SUBSET (S \ {x}) /\ S \ {x} \in SUBSET S
  OBVIOUS
<1>7. h[S \ {x}] = g[S \ {x}]
  BY <1>2, <1>4, <1>5, <1>6, AddsUnique
<1>8. SumFunctionOnSet(f, S) = g[S] /\ SumFunctionOnSet(f, S \ {x}) = h[S \ {x}]
  BY <1>2, <1>4, <1>5, SumIs
<1>. QED
  BY <1>1, <1>3, <1>7, <1>8

\* A sum of numbers is a number.
LEMMA SumType ==
    ASSUME NEW S, IsFiniteSet(S), NEW f, \A x \in S : f[x] \in Nat
    PROVE  SumFunctionOnSet(f, S) \in Nat
<1>. DEFINE F == {s \in SUBSET S : SumFunctionOnSet(f, s) \in Nat}
<1>1. ASSUME NEW s \in SUBSET S, \A t \in SUBSET s : t # s => t \in F
      PROVE  s \in F
  <2>1. CASE s = {}
    BY <2>1, SumEmpty
  <2>2. CASE s # {}
    <3>1. IsFiniteSet(s)
      BY FS_Subset
    <3>2. PICK x \in s : SumFunctionOnSet(f, s) = f[x] + SumFunctionOnSet(f, s \ {x})
      BY <2>2, <3>1, SumFirst
    <3>3. SumFunctionOnSet(f, s \ {x}) \in Nat /\ f[x] \in Nat
      BY <1>1
    <3>. QED
      BY <3>2, <3>3
  <2>. QED
    BY <2>1, <2>2
<1>. HIDE DEF F
<1>2. \A s \in SUBSET S : s \in F
  BY <1>1, SubsetInduction
<1>. QED
  BY <1>2 DEF F

\* A sum of integers is an integer.
LEMMA SumInt ==
    ASSUME NEW S, IsFiniteSet(S), NEW f, \A x \in S : f[x] \in Int
    PROVE  SumFunctionOnSet(f, S) \in Int
<1>. DEFINE F == {s \in SUBSET S : SumFunctionOnSet(f, s) \in Int}
<1>1. ASSUME NEW s \in SUBSET S, \A t \in SUBSET s : t # s => t \in F
      PROVE  s \in F
  <2>1. CASE s = {}
    BY <2>1, SumEmpty
  <2>2. CASE s # {}
    <3>1. IsFiniteSet(s)
      BY FS_Subset
    <3>2. PICK x \in s : SumFunctionOnSet(f, s) = f[x] + SumFunctionOnSet(f, s \ {x})
      BY <2>2, <3>1, SumFirst
    <3>3. SumFunctionOnSet(f, s \ {x}) \in Int /\ f[x] \in Int
      BY <1>1
    <3>. QED
      BY <3>2, <3>3
  <2>. QED
    BY <2>1, <2>2
<1>. HIDE DEF F
<1>2. \A s \in SUBSET S : s \in F
  BY <1>1, SubsetInduction
<1>. QED
  BY <1>2 DEF F

\* Whichever member is taken out first.
LEMMA SumAny ==
    ASSUME NEW S, IsFiniteSet(S), NEW f, \A x \in S : f[x] \in Nat, NEW x \in S
    PROVE  SumFunctionOnSet(f, S) = f[x] + SumFunctionOnSet(f, S \ {x})
<1>. DEFINE Sum(s) == SumFunctionOnSet(f, s)
            F == {s \in SUBSET S : \A y \in s : Sum(s) = f[y] + Sum(s \ {y})}
<1>0. \A s \in SUBSET S : IsFiniteSet(s) /\ Sum(s) \in Nat
  BY FS_Subset, SumType
<1>1. ASSUME NEW s \in SUBSET S, \A t \in SUBSET s : t # s => t \in F, NEW y \in s
      PROVE  Sum(s) = f[y] + Sum(s \ {y})
  <2>1. PICK z \in s : Sum(s) = f[z] + Sum(s \ {z})
    BY <1>0, SumFirst
  <2>2. CASE y # z
    <3>1. s \ {z} \in F /\ s \ {y} \in F
      BY <1>1
    <3>2. /\ Sum(s \ {z}) = f[y] + Sum((s \ {z}) \ {y})
          /\ Sum(s \ {y}) = f[z] + Sum((s \ {y}) \ {z})
      BY <2>2, <3>1
    <3>3. (s \ {z}) \ {y} = (s \ {y}) \ {z} /\ (s \ {y}) \ {z} \in SUBSET S
      OBVIOUS
    <3>4. f[y] \in Nat /\ f[z] \in Nat /\ Sum((s \ {y}) \ {z}) \in Nat
      BY <1>0, <3>3
    <3>. HIDE DEF Sum
    <3>. QED
      BY <2>1, <3>2, <3>3, <3>4
  <2>. QED
    BY <2>1, <2>2
<1>2. \A s \in SUBSET S : (\A t \in SUBSET s : t # s => t \in F) => s \in F
  BY <1>1
<1>3. S \in F
  <2>. HIDE DEF F
  <2>. QED
    BY <1>2, SubsetInduction
<1>. QED
  BY <1>3

\* The sum over two sets apart is that of the one and that of the other.
LEMMA SumApart ==
    ASSUME NEW A, NEW B, IsFiniteSet(A), IsFiniteSet(B), A \cap B = {},
           NEW f, \A x \in A \cup B : f[x] \in Nat
    PROVE  SumFunctionOnSet(f, A \cup B) = SumFunctionOnSet(f, A) + SumFunctionOnSet(f, B)
<1>. DEFINE Sum(s) == SumFunctionOnSet(f, s)
            F == {s \in SUBSET A : Sum(s \cup B) = Sum(s) + Sum(B)}
<1>0. \A s \in SUBSET A : /\ IsFiniteSet(s) /\ IsFiniteSet(s \cup B)
                          /\ Sum(s) \in Nat /\ Sum(s \cup B) \in Nat
  <2>. TAKE s \in SUBSET A
  <2>1. IsFiniteSet(s) /\ IsFiniteSet(s \cup B)
    BY FS_Subset, FS_Union
  <2>. QED
    BY <2>1, SumType
<1>1. Sum(B) \in Nat
  BY SumType
<1>2. ASSUME NEW s \in SUBSET A, \A t \in SUBSET s : t # s => t \in F
      PROVE  Sum(s \cup B) = Sum(s) + Sum(B)
  <2>1. CASE s = {}
    <3>1. Sum(s) = 0 /\ s \cup B = B
      BY <2>1, SumEmpty
    <3>. HIDE DEF Sum
    <3>. QED
      BY <3>1, <1>1
  <2>2. CASE s # {}
    <3>1. PICK x \in s : Sum(s) = f[x] + Sum(s \ {x})
      BY <1>0, <2>2, SumFirst
    <3>2. Sum(s \cup B) = f[x] + Sum((s \cup B) \ {x})
      BY <1>0, SumAny
    <3>3. (s \cup B) \ {x} = (s \ {x}) \cup B /\ s \ {x} \in SUBSET A /\ s \ {x} \in F
      BY <1>2
    <3>4. Sum((s \ {x}) \cup B) = Sum(s \ {x}) + Sum(B)
      BY <3>3
    <3>5. f[x] \in Nat /\ Sum(s \ {x}) \in Nat
      BY <1>0
    <3>. HIDE DEF Sum, F
    <3>6. Sum(s \cup B) = f[x] + (Sum(s \ {x}) + Sum(B))
      BY <3>2, <3>3, <3>4
    <3>. QED
      BY <3>1, <3>5, <3>6, <1>1
  <2>. QED
    BY <2>1, <2>2
<1>3. \A s \in SUBSET A : (\A t \in SUBSET s : t # s => t \in F) => s \in F
  BY <1>2
<1>4. A \in F
  <2>. HIDE DEF F
  <2>. QED
    BY <1>3, SubsetInduction
<1>. QED
  BY <1>4

\* A set within two others sums up to no more than they do.
LEMMA SumWithin ==
    ASSUME NEW A, NEW B, NEW C, IsFiniteSet(A), IsFiniteSet(B), C \subseteq A \cup B,
           NEW f, \A x \in A \cup B : f[x] \in Nat
    PROVE  SumFunctionOnSet(f, C) <= SumFunctionOnSet(f, A) + SumFunctionOnSet(f, B)
<1>. DEFINE Sum(s) == SumFunctionOnSet(f, s)
<1>1. \A s \in SUBSET (A \cup B) : IsFiniteSet(s) /\ Sum(s) \in Nat
  <2>1. IsFiniteSet(A \cup B)
    BY FS_Union
  <2>. QED
    BY <2>1, FS_Subset, SumType
<1>2. A \in SUBSET (A \cup B) /\ B \in SUBSET (A \cup B) /\ C \in SUBSET (A \cup B)
      /\ B \cap A \in SUBSET (A \cup B) /\ B \ A \in SUBSET (A \cup B)
      /\ (A \cup B) \ C \in SUBSET (A \cup B)
  OBVIOUS
<1>3. Sum(A \cup B) = Sum(C) + Sum((A \cup B) \ C)
  <2>1. C \cup ((A \cup B) \ C) = A \cup B /\ C \cap ((A \cup B) \ C) = {}
    OBVIOUS
  <2>. QED
    BY <1>1, <1>2, <2>1, SumApart
<1>4. Sum(A \cup B) = Sum(A) + Sum(B \ A)
  <2>1. A \cup (B \ A) = A \cup B /\ A \cap (B \ A) = {}
    OBVIOUS
  <2>. QED
    BY <1>1, <1>2, <2>1, SumApart
<1>5. Sum(B) = Sum(B \cap A) + Sum(B \ A)
  <2>1. (B \cap A) \cup (B \ A) = B /\ (B \cap A) \cap (B \ A) = {}
    OBVIOUS
  <2>. QED
    BY <1>1, <1>2, <2>1, SumApart
<1>6. {Sum(A), Sum(B), Sum(C), Sum(B \cap A), Sum(B \ A), Sum((A \cup B) \ C)} \subseteq Nat
  BY <1>1, <1>2
<1>. HIDE DEF Sum
<1>7. Sum(C) <= Sum(A) + Sum(B)
  BY <1>3, <1>4, <1>5, <1>6
<1>. QED
  BY <1>7 DEF Sum

-----------------------------------------------------------------------------
(* Places.                                                                 *)

\* Of finitely many places, one has any given number before it.
LEMMA Ranked ==
    ASSUME NEW n \in Nat, NEW S \in SUBSET (1..n)
    PROVE  /\ IsFiniteSet(S) /\ Cardinality(S) \in Nat /\ Cardinality(S) <= n
           /\ \A k \in 1..Cardinality(S) : \E i \in S : Cardinality({j \in S : j < i}) = k - 1
<1>. DEFINE Below(i) == {j \in S : j < i}
            rank == [i \in S |-> Cardinality(Below(i)) + 1]
            c == Cardinality(S)
<1>1. IsFiniteSet(1..n) /\ Cardinality(1..n) = n
  BY FS_Interval
<1>2. IsFiniteSet(S) /\ c \in Nat /\ c <= n
  BY <1>1, FS_Subset, FS_CardinalityType
<1>3. ASSUME NEW i \in S, NEW T \in SUBSET S, Below(i) \subseteq T, i \in T
      PROVE  Cardinality(Below(i)) \in Nat /\ Cardinality(Below(i)) < Cardinality(T)
  <2>0. ~(i < i)
    OBVIOUS
  <2>1. Below(i) \in SUBSET T /\ i \notin Below(i)
    BY <1>3, <2>0
  <2>. HIDE DEF Below
  <2>2. IsFiniteSet(T)
    BY <1>2, FS_Subset
  <2>3. /\ IsFiniteSet(Below(i)) /\ Cardinality(Below(i)) <= Cardinality(T)
        /\ Cardinality(T) = Cardinality(Below(i)) => T = Below(i)
    BY <2>1, <2>2, FS_Subset
  <2>4. Cardinality(Below(i)) \in Nat /\ Cardinality(T) \in Nat
    BY <2>2, <2>3, FS_CardinalityType
  <2>. QED
    BY <1>3, <2>1, <2>3, <2>4
<1>4. \A i \in S : Below(i) \subseteq S
  OBVIOUS
<1>5. ASSUME NEW i \in S, NEW j \in S, i < j PROVE Below(i) \subseteq Below(j) /\ i \in Below(j)
  <2>1. \A h \in S : h < i => h < j
    BY <1>5
  <2>. QED
    BY <1>5, <2>1
<1>6. \A i, j \in S : i < j \/ j < i \/ i = j
  OBVIOUS
<1>. HIDE DEF Below, c
<1>7. \A i \in S : Cardinality(Below(i)) \in Nat /\ Cardinality(Below(i)) < c
  BY <1>3, <1>4 DEF c
<1>8. \A i, j \in S : i < j => Cardinality(Below(i)) < Cardinality(Below(j))
  BY <1>3, <1>4, <1>5
<1>9. rank \in [S -> 1..c] /\ \A i \in S : rank[i] = Cardinality(Below(i)) + 1
  BY <1>2, <1>7
<1>. HIDE DEF rank
<1>10. \A i, j \in S : rank[i] = rank[j] => i = j
  BY <1>6, <1>7, <1>8, <1>9
<1>11. rank \in Injection(S, 1..c)
  BY <1>9, <1>10 DEF Injection, IsInjective
<1>12. IsFiniteSet(1..c) /\ Cardinality(1..c) = Cardinality(S)
  BY <1>2, FS_Interval DEF c
<1>13. rank \in Surjection(S, 1..c)
  BY <1>11, <1>12, FS_Injection
<1>14. \A k \in 1..c : \E i \in S : rank[i] = k
  BY <1>13 DEF Surjection
<1>15. \A k \in 1..c : \E i \in S : Cardinality(Below(i)) = k - 1
  BY <1>7, <1>9, <1>14
<1>. QED
  BY <1>2, <1>15 DEF c, Below

\* Of all places the one with k - 1 before it is k.
LEMMA RankedAll ==
    ASSUME NEW n \in Nat, NEW k \in 1..n, NEW i \in 1..n
    PROVE  Cardinality({j \in 1..n : j < i}) = k - 1 <=> i = k
<1>1. {j \in 1..n : j < i} = 1..(i - 1)
  OBVIOUS
<1>2. i - 1 \in Nat /\ 1 \in Int /\ k \in Int /\ i \in Int
  OBVIOUS
<1>3. Cardinality(1..(i - 1)) = i - 1
  BY <1>2, FS_Interval
<1>4. Cardinality({j \in 1..n : j < i}) = i - 1
  BY <1>1, <1>3
<1>. QED
  BY <1>2, <1>4
=============================================================================
