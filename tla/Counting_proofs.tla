---------------------------- MODULE Counting_proofs ----------------------------
(***************************************************************************)
(* What the proofs about trees keep needing: induction over the natural    *)
(* numbers, by a set instead of a predicate, and with it the sums of       *)
(* functions over finite sets, the sizes of disjoint unions, and the least *)
(* and the greatest of a finite set.                                       *)
(***************************************************************************)
EXTENDS Integers, FiniteSets, FiniteSetsExt, Functions, FiniteSetTheorems,
        WellFoundedInduction, TLAPS

LEMMA NatSetInduction ==
  ASSUME NEW S, 0 \in S, \A n \in Nat : n \in S => n + 1 \in S
  PROVE  Nat \subseteq S
<1> SUFFICES ASSUME Nat \ S # {}
             PROVE  FALSE
  OBVIOUS
<1>1. PICK m \in Nat \ S : \A y \in Nat \ S : ~(<<y, m>> \in OpToRel(<, Nat))
  <2> Nat \ S \subseteq Nat
    OBVIOUS
  <2> QED
    BY NatLessThanWellFounded, WFMin
<1>2. \A y \in Nat \ S : ~(y < m)
  BY <1>1 DEF OpToRel
<1>3. m - 1 \in Nat
  OBVIOUS
<1> QED
  BY <1>2, <1>3

\* Induction over the size of the subsets of a finite set: F holds of a set if
\* it holds of all smaller ones.
LEMMA SubsetInduction ==
  ASSUME NEW S, IsFiniteSet(S), NEW F,
         \A s \in SUBSET S :
           (\A r \in SUBSET S : Cardinality(r) < Cardinality(s) => r \in F) => s \in F
  PROVE  \A s \in SUBSET S : s \in F
<1> DEFINE N == {n \in Nat : \A s \in SUBSET S : Cardinality(s) < n => s \in F}
<1>1. \A s \in SUBSET S : IsFiniteSet(s) /\ Cardinality(s) \in Nat
  BY FS_Subset, FS_CardinalityType
<1>2. 0 \in N
  BY <1>1
<1>3. ASSUME NEW n \in Nat, n \in N  PROVE n + 1 \in N
  <2>1. \A s \in SUBSET S : Cardinality(s) < n => s \in F
    BY <1>3
  <2>2. ASSUME NEW s \in SUBSET S, Cardinality(s) < n + 1  PROVE s \in F
    <3>1. \A r \in SUBSET S : Cardinality(r) < Cardinality(s) => Cardinality(r) < n
      BY <1>1, <2>2
    <3> QED
      BY <2>1, <3>1
  <2> QED
    BY <2>2
<1>4. Nat \subseteq N
  <2> HIDE DEF N
  <2> QED
    BY <1>2, <1>3, NatSetInduction
<1>5. ASSUME NEW s \in SUBSET S  PROVE s \in F
  <2>1. Cardinality(s) + 1 \in N
    BY <1>1, <1>4
  <2> QED
    BY <1>1, <2>1
<1> QED
  BY <1>5

-----------------------------------------------------------------------------
(* Sums *)

\* Any member of a set, as the folds choose it
Some(s) == CHOOSE x \in s : TRUE

\* One step of the fold of f, on the subsets of S
SumStep(g, f, s) == IF s = {} THEN 0 ELSE f[Some(s)] + g[s \ {Some(s)}]

SumGraph(g, f, S) == g = [s \in SUBSET S |-> SumStep(g, f, s)]

LEMMA SumIsChosen ==
  ASSUME NEW f, NEW S
  PROVE  SumFunctionOnSet(f, S) = (CHOOSE g : SumGraph(g, f, S))[S]
BY DEF SumFunctionOnSet, FoldFunctionOnSet, MapThenFoldSet, SumGraph, SumStep, Some

LEMMA SmallerSubset ==
  ASSUME NEW S, IsFiniteSet(S), NEW s \in SUBSET S, NEW x \in s
  PROVE  /\ s \ {x} \in SUBSET S
         /\ Cardinality(s) \in Nat /\ Cardinality(s \ {x}) \in Nat
         /\ Cardinality(s) = Cardinality(s \ {x}) + 1
BY FS_Subset, FS_CardinalityType, FS_RemoveElement

LEMMA SomeIn == \A s : s # {} => Some(s) \in s
BY DEF Some

\* The fold is a function that satisfies its equation.
LEMMA SumGraphExists ==
  ASSUME NEW S, IsFiniteSet(S), NEW f, \A x \in S : f[x] \in Int
  PROVE  \E g \in [SUBSET S -> Int] : SumGraph(g, f, S)
<1> DEFINE Upto(g, n) == \A s \in SUBSET S : Cardinality(s) < n => g[s] = SumStep(g, f, s)
           N == {n \in Nat : \E g \in [SUBSET S -> Int] : Upto(g, n)}
<1>1. \A s \in SUBSET S : Cardinality(s) \in Nat
  BY FS_Subset, FS_CardinalityType
<1>2. 0 \in N
  <2>1. Upto([s \in SUBSET S |-> 0], 0)
    BY <1>1
  <2> QED
    BY <2>1
<1>3. ASSUME NEW n \in Nat, n \in N  PROVE n + 1 \in N
  <2>1. PICK g \in [SUBSET S -> Int] : Upto(g, n)
    BY <1>3
  <2> DEFINE h == [s \in SUBSET S |-> SumStep(g, f, s)]
  <2>2. h \in [SUBSET S -> Int]
    BY SomeIn DEF SumStep
  <2>3. ASSUME NEW s \in SUBSET S, Cardinality(s) < n + 1  PROVE h[s] = SumStep(h, f, s)
    <3>1. CASE s = {}
      BY <3>1 DEF SumStep
    <3>2. CASE s # {}
      <4> DEFINE r == s \ {Some(s)}
      <4>1. r \in SUBSET S /\ Cardinality(r) < n
        BY <3>2, <2>3, SomeIn, SmallerSubset
      <4>2. g[r] = SumStep(g, f, r) /\ h[r] = SumStep(g, f, r)
        BY <4>1, <2>1
      <4> QED
        BY <3>2, <4>2 DEF SumStep
    <3> QED
      BY <3>1, <3>2
  <2>4. Upto(h, n + 1)
    BY <2>3
  <2> HIDE DEF h
  <2> QED
    BY <2>2, <2>4
<1>4. Nat \subseteq N
  <2> HIDE DEF N
  <2> QED
    BY <1>2, <1>3, NatSetInduction
<1>5. Cardinality(S) + 1 \in N
  <2> HIDE DEF N
  <2> QED
    BY <1>1, <1>4
<1>6. PICK g \in [SUBSET S -> Int] : Upto(g, Cardinality(S) + 1)
  BY <1>5
<1>7. ASSUME NEW s \in SUBSET S  PROVE g[s] = SumStep(g, f, s)
  <2>1. Cardinality(s) < Cardinality(S) + 1
    BY <1>1, FS_Subset
  <2> QED
    BY <1>6, <2>1
<1>8. g = [s \in SUBSET S |-> SumStep(g, f, s)]
  BY <1>7
<1> QED
  BY <1>8 DEF SumGraph

LEMMA SumStepSame ==
  ASSUME NEW S, IsFiniteSet(S), NEW T \in SUBSET S, NEW f, NEW g, NEW h,
         SumGraph(g, f, S), SumGraph(h, f, T)
  PROVE  \A s \in SUBSET T : g[s] = h[s]
<1> DEFINE F == {s \in SUBSET T : g[s] = h[s]}
<1>1. IsFiniteSet(T)
  BY FS_Subset
<1>2. ASSUME NEW s \in SUBSET T,
             \A r \in SUBSET T : Cardinality(r) < Cardinality(s) => r \in F
      PROVE  s \in F
  <2>1. g[s] = SumStep(g, f, s) /\ h[s] = SumStep(h, f, s)
    BY DEF SumGraph
  <2>2. CASE s = {}
    BY <2>1, <2>2 DEF SumStep
  <2>3. CASE s # {}
    <3> DEFINE r == s \ {Some(s)}
    <3>1. r \in SUBSET T /\ Cardinality(r) < Cardinality(s)
      BY <1>1, <2>3, SomeIn, SmallerSubset
    <3>2. g[r] = h[r]
      BY <1>2, <3>1
    <3> QED
      BY <2>1, <2>3, <3>2 DEF SumStep
  <2> QED
    BY <2>2, <2>3
<1>3. \A s \in SUBSET T : s \in F
  <2> HIDE DEF F
  <2> QED
    BY <1>1, <1>2, SubsetInduction
<1> QED
  BY <1>3

\* g holds the sums of f over the subsets of S.
SumsAre(g, f, S) ==
  /\ g \in [SUBSET S -> Int]
  /\ SumGraph(g, f, S)
  /\ \A s \in SUBSET S : SumFunctionOnSet(f, s) = g[s]

LEMMA SumGraphIs ==
  ASSUME NEW S, IsFiniteSet(S), NEW f, \A x \in S : f[x] \in Int
  PROVE  \E g : SumsAre(g, f, S)
<1>1. PICK g \in [SUBSET S -> Int] : SumGraph(g, f, S)
  BY SumGraphExists
<1>2. ASSUME NEW s \in SUBSET S  PROVE SumFunctionOnSet(f, s) = g[s]
  <2> DEFINE h == CHOOSE h : SumGraph(h, f, s)
  <2>1. IsFiniteSet(s)
    BY FS_Subset
  <2>2. \E i : SumGraph(i, f, s)
    BY <2>1, SumGraphExists
  <2>3. SumGraph(h, f, s)
    BY <2>2
  <2>4. SumFunctionOnSet(f, s) = h[s]
    BY SumIsChosen
  <2> HIDE DEF h
  <2>5. g[s] = h[s]
    BY <1>1, <2>3, SumStepSame
  <2> QED
    BY <2>4, <2>5
<1> QED
  BY <1>1, <1>2 DEF SumsAre

LEMMA SumType ==
  ASSUME NEW S, IsFiniteSet(S), NEW f, \A x \in S : f[x] \in Int
  PROVE  SumFunctionOnSet(f, S) \in Int
<1>1. PICK g : SumsAre(g, f, S)
  BY SumGraphIs
<1> QED
  BY <1>1 DEF SumsAre

LEMMA SumEmpty == \A f : SumFunctionOnSet(f, {}) = 0
<1> SUFFICES ASSUME NEW f  PROVE SumFunctionOnSet(f, {}) = 0
  OBVIOUS
<1>1. IsFiniteSet({})
  BY FS_EmptySet
<1>2. PICK g : SumsAre(g, f, {})
  BY <1>1, SumGraphIs
<1> QED
  BY <1>2 DEF SumsAre, SumGraph, SumStep

LEMMA SumOfSome ==
  ASSUME NEW S, IsFiniteSet(S), NEW f, \A x \in S : f[x] \in Int, NEW s \in SUBSET S,
         s # {}
  PROVE  SumFunctionOnSet(f, s) = f[Some(s)] + SumFunctionOnSet(f, s \ {Some(s)})
<1>1. PICK g : SumsAre(g, f, S)
  BY SumGraphIs
<1>2. g[s] = SumStep(g, f, s)
  BY <1>1 DEF SumsAre, SumGraph
<1>3. s \ {Some(s)} \in SUBSET S
  OBVIOUS
<1>4. /\ SumFunctionOnSet(f, s) = g[s]
      /\ SumFunctionOnSet(f, s \ {Some(s)}) = g[s \ {Some(s)}]
  BY <1>1, <1>3 DEF SumsAre
<1> QED
  BY <1>2, <1>4 DEF SumStep

\* Any member of a set may be summed last.
LEMMA SumRemove ==
  ASSUME NEW S, IsFiniteSet(S), NEW f, \A x \in S : f[x] \in Int, NEW x \in S
  PROVE  SumFunctionOnSet(f, S) = f[x] + SumFunctionOnSet(f, S \ {x})
<1> DEFINE F == {s \in SUBSET S : \A y \in s :
                   SumFunctionOnSet(f, s) = f[y] + SumFunctionOnSet(f, s \ {y})}
<1>1. ASSUME NEW s \in SUBSET S,
             \A r \in SUBSET S : Cardinality(r) < Cardinality(s) => r \in F
      PROVE  s \in F
  <2> SUFFICES ASSUME NEW y \in s
               PROVE  SumFunctionOnSet(f, s) = f[y] + SumFunctionOnSet(f, s \ {y})
    OBVIOUS
  <2> DEFINE c == Some(s)
  <2>1. c \in s
    BY SomeIn
  <2>2. SumFunctionOnSet(f, s) = f[c] + SumFunctionOnSet(f, s \ {c})
    BY SumOfSome
  <2> HIDE DEF c
  <2>3. CASE y = c
    BY <2>2, <2>3
  <2>4. CASE y # c
    <3>1. s \ {c} \in F /\ s \ {y} \in F
      BY <1>1, <2>1, SmallerSubset
    <3>2. SumFunctionOnSet(f, s \ {c})
            = f[y] + SumFunctionOnSet(f, (s \ {c}) \ {y})
      BY <2>4, <3>1
    <3>3. SumFunctionOnSet(f, s \ {y})
            = f[c] + SumFunctionOnSet(f, (s \ {y}) \ {c})
      BY <2>1, <2>4, <3>1
    <3>4. (s \ {c}) \ {y} = (s \ {y}) \ {c}
      OBVIOUS
    <3>5. f[y] \in Int /\ f[c] \in Int
      BY <2>1
    <3>6. SumFunctionOnSet(f, (s \ {y}) \ {c}) \in Int
      BY SumType, FS_Subset
    <3>7. SumFunctionOnSet(f, (s \ {c}) \ {y}) = SumFunctionOnSet(f, (s \ {y}) \ {c})
      BY <3>4
    <3> HIDE DEF F
    <3> QED
      BY <2>2, <3>2, <3>3, <3>5, <3>6, <3>7
  <2> QED
    BY <2>3, <2>4
<1>2. \A s \in SUBSET S : s \in F
  <2> HIDE DEF F
  <2> QED
    BY <1>1, SubsetInduction
<1> QED
  BY <1>2

LEMMA SumAdd ==
  ASSUME NEW S, IsFiniteSet(S), NEW f, \A x \in S : f[x] \in Int,
         NEW y, y \notin S, f[y] \in Int
  PROVE  SumFunctionOnSet(f, S \cup {y}) = SumFunctionOnSet(f, S) + f[y]
<1>1. IsFiniteSet(S \cup {y}) /\ (S \cup {y}) \ {y} = S
  BY FS_AddElement
<1>2. SumFunctionOnSet(f, S \cup {y}) = f[y] + SumFunctionOnSet(f, (S \cup {y}) \ {y})
  BY <1>1, SumRemove
<1>3. SumFunctionOnSet(f, S) \in Int
  BY SumType
<1>4. SumFunctionOnSet(f, (S \cup {y}) \ {y}) = SumFunctionOnSet(f, S)
  BY <1>1, Zenon
<1> QED
  BY <1>2, <1>3, <1>4

LEMMA SumOver ==
  ASSUME NEW S, IsFiniteSet(S), NEW f, NEW g,
         \A x \in S : f[x] \in Int /\ g[x] \in Int /\ f[x] <= g[x]
  PROVE  SumFunctionOnSet(f, S) <= SumFunctionOnSet(g, S)
<1> DEFINE F == {s \in SUBSET S : SumFunctionOnSet(f, s) <= SumFunctionOnSet(g, s)}
<1>1. ASSUME NEW s \in SUBSET S,
             \A r \in SUBSET S : Cardinality(r) < Cardinality(s) => r \in F
      PROVE  s \in F
  <2>1. CASE s = {}
    BY <2>1, SumEmpty
  <2>2. CASE s # {}
    <3> DEFINE c == Some(s)  r == s \ {c}
    <3>1. c \in s /\ r \in F
      BY <1>1, <2>2, SomeIn, SmallerSubset
    <3>2. /\ SumFunctionOnSet(f, s) = f[c] + SumFunctionOnSet(f, r)
          /\ SumFunctionOnSet(g, s) = g[c] + SumFunctionOnSet(g, r)
      BY <2>2, SumOfSome
    <3>3. SumFunctionOnSet(f, r) \in Int /\ SumFunctionOnSet(g, r) \in Int
      BY SumType, FS_Subset
    <3> HIDE DEF c
    <3>4. f[c] \in Int /\ g[c] \in Int /\ f[c] <= g[c]
      BY <3>1
    <3> QED
      BY <3>1, <3>2, <3>3, <3>4
  <2> QED
    BY <2>1, <2>2
<1>2. \A s \in SUBSET S : s \in F
  <2> HIDE DEF F
  <2> QED
    BY <1>1, SubsetInduction
<1> QED
  BY <1>2

LEMMA SumSame ==
  ASSUME NEW S, IsFiniteSet(S), NEW f, NEW g,
         \A x \in S : f[x] \in Int /\ f[x] = g[x]
  PROVE  SumFunctionOnSet(f, S) = SumFunctionOnSet(g, S)
BY SumOver, SumType

-----------------------------------------------------------------------------
(* Sizes *)

\* A disjoint union is as large as its parts together.
LEMMA DisjointUnion ==
  ASSUME NEW S, IsFiniteSet(S), NEW f, NEW n, \A x \in S : n[x] = Cardinality(f[x]),
         \A x \in S : IsFiniteSet(f[x]),
         \A x, y \in S : x # y => f[x] \cap f[y] = {}
  PROVE  /\ IsFiniteSet(UNION {f[x] : x \in S})
         /\ Cardinality(UNION {f[x] : x \in S}) = SumFunctionOnSet(n, S)
<1> DEFINE U(s) == UNION {f[x] : x \in s}
           F == {s \in SUBSET S : /\ IsFiniteSet(U(s))
                                  /\ Cardinality(U(s)) = SumFunctionOnSet(n, s)}
<1>0. \A x \in S : n[x] \in Int
  BY FS_CardinalityType
<1>1. ASSUME NEW s \in SUBSET S,
             \A r \in SUBSET S : Cardinality(r) < Cardinality(s) => r \in F
      PROVE  s \in F
  <2>1. CASE s = {}
    <3>1. U(s) = {}
      BY <2>1
    <3> QED
      BY <2>1, <3>1, SumEmpty, FS_EmptySet
  <2>2. CASE s # {}
    <3> DEFINE c == Some(s)  r == s \ {c}
    <3>1. c \in s /\ r \in F
      <4>1. c \in s
        BY <2>2, SomeIn
      <4> HIDE DEF c
      <4>2. r \in SUBSET S /\ Cardinality(r) < Cardinality(s)
        BY <4>1, SmallerSubset
      <4> HIDE DEF F
      <4> QED
        BY <1>1, <4>1, <4>2
    <3>2. SumFunctionOnSet(n, s) = n[c] + SumFunctionOnSet(n, r)
      BY <1>0, <2>2, SumOfSome
    <3> HIDE DEF c
    <3>3. U(s) = U(r) \cup f[c] /\ U(r) \cap f[c] = {}
      BY <3>1
    <3>4. IsFiniteSet(f[c]) /\ n[c] = Cardinality(f[c]) /\ IsFiniteSet(U(r))
      BY <3>1
    <3>5. IsFiniteSet(U(s)) /\ Cardinality(U(s))
             = Cardinality(U(r)) + Cardinality(f[c]) - Cardinality(U(r) \cap f[c])
      <4> DEFINE Ur == U(r)  fc == f[c]
      <4>1. /\ IsFiniteSet(Ur \cup fc)
            /\ Cardinality(Ur \cup fc)
                 = Cardinality(Ur) + Cardinality(fc) - Cardinality(Ur \cap fc)
        <5> HIDE DEF Ur, fc
        <5>1. IsFiniteSet(Ur) /\ IsFiniteSet(fc)
          BY <3>4 DEF Ur, fc
        <5> QED
          BY <5>1, FS_Union
      <4> QED
        BY <3>3, <4>1
    <3>6. Cardinality(U(r) \cap f[c]) = 0
      BY <3>3, FS_EmptySet
    <3>7. Cardinality(U(r)) \in Nat /\ Cardinality(f[c]) \in Nat
      <4> HIDE DEF U
      <4> QED
        BY <3>4, FS_CardinalityType
    <3>8. Cardinality(U(r)) = SumFunctionOnSet(n, r)
      BY <3>1
    <3> QED
      BY <3>2, <3>4, <3>5, <3>6, <3>7, <3>8
  <2> QED
    BY <2>1, <2>2
<1>2. \A s \in SUBSET S : s \in F
  <2> HIDE DEF F
  <2> QED
    BY <1>1, SubsetInduction
<1> QED
  BY <1>2

LEMMA DisjointSize ==
  ASSUME NEW S, NEW T, IsFiniteSet(S), IsFiniteSet(T), S \cap T = {}
  PROVE  /\ IsFiniteSet(S \cup T)
         /\ Cardinality(S \cup T) = Cardinality(S) + Cardinality(T)
<1>1. /\ IsFiniteSet(S \cup T)
      /\ Cardinality(S \cup T) = Cardinality(S) + Cardinality(T) - Cardinality(S \cap T)
  BY FS_Union
<1>2. Cardinality(S \cap T) = 0
  BY FS_EmptySet
<1>3. Cardinality(S) \in Nat /\ Cardinality(T) \in Nat
  BY FS_CardinalityType
<1> QED
  BY <1>1, <1>2, <1>3

-----------------------------------------------------------------------------
(* Least and greatest *)

LEMMA LeastExists ==
  ASSUME NEW S \in SUBSET Int, IsFiniteSet(S), S # {}
  PROVE  \E x \in S : \A y \in S : x <= y
<1> DEFINE F == {s \in SUBSET S : s # {} => \E x \in s : \A y \in s : x <= y}
<1>1. ASSUME NEW s \in SUBSET S,
             \A r \in SUBSET S : Cardinality(r) < Cardinality(s) => r \in F
      PROVE  s \in F
  <2>1. CASE s = {}
    BY <2>1
  <2>2. CASE s # {}
    <3>1. PICK z \in s : TRUE
      BY <2>2
    <3>2. s \ {z} \in F
      <4>1. IsFiniteSet(s) /\ s \ {z} \in SUBSET S
        BY FS_Subset
      <4> HIDE DEF F
      <4>2. Cardinality(s \ {z}) < Cardinality(s)
        BY <3>1, <4>1, SmallerSubset
      <4> QED
        BY <1>1, <4>1, <4>2
    <3>3. CASE s \ {z} = {}
      BY <3>1, <3>3
    <3>4. CASE s \ {z} # {}
      <4>1. PICK x \in s \ {z} : \A y \in s \ {z} : x <= y
        BY <3>2, <3>4
      <4>2. CASE x <= z
        BY <4>1, <4>2
      <4>3. CASE ~(x <= z)
        <5>1. \A y \in s : z <= y
          BY <4>1, <4>3
        <5> QED
          BY <5>1
      <4> QED
        BY <4>2, <4>3
    <3> QED
      BY <3>3, <3>4
  <2> QED
    BY <2>1, <2>2
<1>2. \A s \in SUBSET S : s \in F
  <2> HIDE DEF F
  <2> QED
    BY <1>1, SubsetInduction
<1> QED
  BY <1>2

LEMMA ImageIsFinite ==
  ASSUME NEW S, IsFiniteSet(S), NEW f
  PROVE  IsFiniteSet({f[x] : x \in S})
<1> DEFINE T == {f[x] : x \in S}
           g == [x \in S |-> f[x]]
<1>1. g \in [S -> T] /\ \A y \in T : \E x \in S : g[x] = y
  OBVIOUS
<1>2. g \in Surjection(S, T)
  <2> HIDE DEF g, T
  <2> QED
    BY <1>1 DEF Surjection
<1> QED
  BY <1>2, FS_Surjection

LEMMA MinIs ==
  ASSUME NEW S \in SUBSET Int, IsFiniteSet(S), S # {}
  PROVE  Min(S) \in S /\ \A y \in S : Min(S) <= y
BY LeastExists DEF Min

LEMMA MaxIs ==
  ASSUME NEW S \in SUBSET Int, IsFiniteSet(S), S # {}
  PROVE  Max(S) \in S /\ \A y \in S : Max(S) >= y
<1> DEFINE minus == [x \in S |-> 0 - x]
           N == {minus[x] : x \in S}
<1>1. N \in SUBSET Int /\ N # {}
  <2>1. \A x \in S : minus[x] \in Int
    OBVIOUS
  <2> QED
    BY <2>1
<1>2. IsFiniteSet(N)
  <2> HIDE DEF minus
  <2> QED
    BY ImageIsFinite
<1>3. PICK m \in N : \A y \in N : m <= y
  BY <1>1, <1>2, LeastExists
<1>4. PICK x \in S : m = 0 - x
  BY <1>3
<1>5. \A y \in S : x >= y
  BY <1>3, <1>4
<1> QED
  BY <1>5 DEF Max

\* The points of a finite set by a dimension
LEMMA CoordinatesAre ==
  ASSUME NEW S, IsFiniteSet(S), S # {}, NEW d, \A p \in S : p[d] \in Int
  PROVE  /\ {p[d] : p \in S} \in SUBSET Int
         /\ IsFiniteSet({p[d] : p \in S})
         /\ {p[d] : p \in S} # {}
<1> DEFINE f == [p \in S |-> p[d]]
<1>1. IsFiniteSet({f[p] : p \in S})
  <2> HIDE DEF f
  <2> QED
    BY ImageIsFinite
<1>2. {f[p] : p \in S} = {p[d] : p \in S}
  OBVIOUS
<1>3. IsFiniteSet({p[d] : p \in S})
  BY <1>1, <1>2, Zenon
<1>4. {p[d] : p \in S} \in SUBSET Int /\ {p[d] : p \in S} # {}
  OBVIOUS
<1> QED
  BY <1>3, <1>4

=============================================================================
