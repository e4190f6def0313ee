---------------------------- MODULE SumTheorems ----------------------------
(***************************************************************************)
(* Sums over finite sets, for the modules whose balances, allocations and  *)
(* totals are sums: what SumFunctionOnSet of module Functions returns.     *)
(*                                                                         *)
(* The induction theorems of the library take a predicate as a parameter,  *)
(* which a back end cannot instantiate.  Here induction is over sets: the  *)
(* set of the numbers, or of the subsets, that have the property.  It      *)
(* rests on the library's theorem that a well-founded relation has minimal *)
(* elements, which takes none.                                             *)
(***************************************************************************)
EXTENDS FiniteSets, Functions, Integers, FiniteSetTheorems, TLAPS

(* A set of naturals that is not empty has a least element. *)
LEMMA LeastNat ==
  ASSUME NEW T \in SUBSET Nat, T # {}
  PROVE  \E n \in T : \A m \in T : n <= m
<1> DEFINE R == {ss \in Nat \X Nat : ss[1] < ss[2]}
<1>1. IsWellFoundedOn(R, Nat)
  BY NatLessThanWellFounded DEF OpToRel
<1>2. PICK n \in T : \A m \in T : ~ (<<m, n>> \in R)
  <2> HIDE DEF R
  <2>1. QED BY <1>1, WFMin
<1>3. QED
  <2>1. \A m \in T : <<m, n>> \in R <=> m < n
    OBVIOUS
  <2>2. \A m \in T : ~(m < n)
    BY <1>2, <2>1
  <2> HIDE DEF R
  <2>3. \A m \in T : m \in Nat /\ n \in Nat
    OBVIOUS
  <2>4. QED
    BY <2>2, <2>3

(* A bounded one has a greatest. *)
LEMMA GreatestNat ==
  ASSUME NEW N \in Nat, NEW T \in SUBSET (0 .. N), T # {}
  PROVE  \E n \in T : \A m \in T : m <= n
<1> DEFINE D == {N - m : m \in T}
<1>1. D \in SUBSET Nat /\ D # {}
  <2>1. \A m \in T : N - m \in Nat
    OBVIOUS
  <2>2. QED
    BY <2>1
<1>2. PICK d \in D : \A e \in D : d <= e
  BY <1>1, LeastNat
<1>3. PICK n \in T : d = N - n
  BY <1>2
<1>4. ASSUME NEW m \in T
      PROVE  m <= n
  <2>1. N - m \in D
    OBVIOUS
  <2>2. d <= N - m
    BY <1>2, <2>1
  <2>3. QED
    BY <1>3, <2>2
<1>5. QED
  BY <1>4

(* Induction over the naturals, for a set instead of a predicate. *)
LEMMA NatSetInduction ==
  ASSUME NEW G, 0 \in G, \A n \in Nat : n \in G => n + 1 \in G
  PROVE  Nat \subseteq G
<1> DEFINE T == {n \in Nat : n \notin G}
<1> SUFFICES ASSUME T # {}
             PROVE  FALSE
  OBVIOUS
<1>1. PICK n \in T : \A m \in T : n <= m
  BY LeastNat
<1>2. n \in Nat /\ n \notin G /\ n # 0
  OBVIOUS
<1>3. n - 1 \in Nat /\ (n - 1) + 1 = n /\ ~(n <= n - 1)
  BY <1>2
<1>4. n - 1 \in G
  BY <1>1, <1>3
<1>5. QED
  BY <1>2, <1>3, <1>4

(* A set of numbers from 1 on without a gap is the interval up to the      *)
(* number of its elements.                                                 *)
LEMMA InitialSegment ==
  ASSUME NEW N \in Nat, NEW U \in SUBSET (1 .. N),
         \A i, j \in 1 .. N : i < j /\ j \in U => i \in U
  PROVE  U = 1 .. Cardinality(U) /\ Cardinality(U) \in 0 .. N
<1> DEFINE T == {m \in Nat : m # 0 /\ m \notin U}
<1>1. T \in SUBSET Nat /\ N + 1 \in T
  OBVIOUS
<1>2. PICK m \in T : \A k \in T : m <= k
  BY <1>1, LeastNat
<1>3. m - 1 \in 0 .. N
  BY <1>1, <1>2
<1>4. U = 1 .. m - 1
  <2>1. ASSUME NEW i \in 1 .. m - 1
        PROVE  i \in U
    <3>1. i \in Nat /\ i # 0 /\ ~(m <= i)
      BY <1>3
    <3>2. QED
      BY <1>2, <3>1
  <2>2. ASSUME NEW i \in U
        PROVE  i \in 1 .. m - 1
    <3>1. CASE m > N
      BY <1>3, <3>1
    <3>2. CASE ~(m > N)
      <4>1. m \in 1 .. N /\ m \notin U /\ i \in 1 .. N
        BY <1>2, <3>2
      <4>2. ~(m < i) /\ m # i
        BY <4>1
      <4>3. QED
        BY <4>1, <4>2
    <3>3. QED
      BY <3>1, <3>2
  <2>3. QED
    BY <2>1, <2>2
<1>5. Cardinality(1 .. m - 1) = m - 1
  BY <1>3, FS_Interval
<1>6. QED
  BY <1>3, <1>4, <1>5

(* Induction over the subsets of a finite set, one element at a time. *)
LEMMA FiniteInduction ==
  ASSUME NEW S, IsFiniteSet(S), NEW G,
         {} \in G,
         \A T \in SUBSET S : \A x \in S \ T : T \in G => T \cup {x} \in G
  PROVE  S \in G
<1> DEFINE Sizes == {n \in Nat : \E T \in SUBSET S : T \in G /\ Cardinality(S \ T) = n}
<1>1. Cardinality(S) \in Sizes
  <2>1. S \ {} = S
    OBVIOUS
  <2>2. QED
    BY <2>1, FS_CardinalityType
<1>2. PICK n \in Sizes : \A m \in Sizes : n <= m
  BY <1>1, LeastNat
<1>3. PICK T \in SUBSET S : T \in G /\ Cardinality(S \ T) = n
  BY <1>2
<1>4. CASE T = S
  BY <1>3, <1>4
<1>5. CASE T # S
  <2>1. PICK x \in S \ T : TRUE
    BY <1>5
  <2>2. T \cup {x} \in G /\ T \cup {x} \in SUBSET S
    BY <1>3, <2>1
  <2>3. IsFiniteSet(S \ T)
    BY FS_Difference
  <2>4. (S \ T) \ {x} = S \ (T \cup {x})
    OBVIOUS
  <2>5. Cardinality(S \ (T \cup {x})) = n - 1 /\ Cardinality(S \ (T \cup {x})) \in Nat
    <3>1. x \in S \ T
      BY <2>1
    <3>2. /\ IsFiniteSet((S \ T) \ {x})
          /\ Cardinality((S \ T) \ {x}) = Cardinality(S \ T) - 1
      BY <2>3, <3>1, FS_RemoveElement
    <3>3. QED
      BY <1>3, <2>4, <3>2, FS_CardinalityType
  <2>6. n - 1 \in Sizes
    BY <2>2, <2>5
  <2>7. n \in Nat /\ ~(n <= n - 1)
    OBVIOUS
  <2>8. QED
    BY <1>2, <2>6, <2>7
<1>6. QED
  BY <1>4, <1>5

(* A finite set of integers has a greatest element. *)
LEMMA FiniteGreatest ==
  ASSUME NEW S \in SUBSET Int, IsFiniteSet(S), S # {}
  PROVE  \E n \in S : \A m \in S : m <= n
<1> DEFINE G == {T \in SUBSET S : T = {} \/ \E n \in T : \A m \in T : m <= n}
<1>1. {} \in G
  OBVIOUS
<1>2. ASSUME NEW T \in SUBSET S, NEW x \in S \ T, T \in G
      PROVE  T \cup {x} \in G
  <2>1. CASE T = {}
    <3>1. x <= x
      OBVIOUS
    <3>2. QED
      BY <2>1, <3>1
  <2>2. CASE T # {}
    <3>1. PICK n \in T : \A m \in T : m <= n
      BY <1>2, <2>2
    <3>2. CASE x <= n
      BY <3>1, <3>2
    <3>3. CASE ~(x <= n)
      <4>1. x \in Int /\ n \in Int /\ \A m \in T : m \in Int
        OBVIOUS
      <4>2. \A m \in T \cup {x} : m <= x
        BY <3>1, <3>3, <4>1
      <4>3. QED
        BY <4>2
    <3>4. QED
      BY <3>2, <3>3
  <2>3. QED
    BY <2>1, <2>2
<1>3. S \in G
  <2> HIDE DEF G
  <2>1. QED
    BY <1>1, <1>2, FiniteInduction
<1>4. QED
  BY <1>3

-----------------------------------------------------------------------------
(* What the library's fold takes out of a set, and its equation. *)
Chosen(s) == CHOOSE x \in s : TRUE

UnfoldStep(f, g, s) == IF s = {} THEN 0 ELSE f[Chosen(s)] + g[s \ {Chosen(s)}]

Unfolds(f, g, S) == g = [s \in SUBSET S |-> UnfoldStep(f, g, s)]

(* The sum of the library, SumFunctionOnSet, is the value at S of a        *)
(* function that is defined by recursion on the subsets of S: it takes one *)
(* element out and adds the value for what is left.                        *)
LEMMA SumUnfold ==
  ASSUME NEW S, NEW f
  PROVE  SumFunctionOnSet(f, S) = (CHOOSE g : Unfolds(f, g, S))[S]
BY DEF SumFunctionOnSet, FoldFunctionOnSet, MapThenFoldSet, Unfolds, UnfoldStep, Chosen

(* What taking that element out leaves. *)
LEMMA ChosenRemoved ==
  ASSUME NEW s, IsFiniteSet(s), s # {}
  PROVE  /\ Chosen(s) \in s
         /\ IsFiniteSet(s \ {Chosen(s)})
         /\ Cardinality(s \ {Chosen(s)}) = Cardinality(s) - 1
         /\ Cardinality(s) \in Nat \ {0}
<1>1. Chosen(s) \in s
  BY DEF Chosen
<1> HIDE DEF Chosen
<1>2. QED
  BY <1>1, FS_RemoveElement, FS_CardinalityType, FS_EmptySet

(* The recursive function exists, for a finite set and integers. *)
LEMMA UnfoldExists ==
  ASSUME NEW S, IsFiniteSet(S), NEW f, \A x \in S : f[x] \in Int
  PROVE  \E g \in [SUBSET S -> Int] : Unfolds(f, g, S)
<1> DEFINE Upto(g, n) == \A s \in SUBSET S : Cardinality(s) <= n => g[s] = UnfoldStep(f, g, s)
           G == {n \in Nat : \E g \in [SUBSET S -> Int] : Upto(g, n)}
<1>1. \A s \in SUBSET S : IsFiniteSet(s) /\ Cardinality(s) \in Nat
  BY FS_Subset, FS_CardinalityType
<1>2. 0 \in G
  <2> DEFINE g == [s \in SUBSET S |-> 0]
  <2>1. \A s \in SUBSET S : Cardinality(s) <= 0 => s = {}
    BY <1>1, FS_EmptySet
  <2>2. g \in [SUBSET S -> Int] /\ Upto(g, 0)
    BY <2>1 DEF UnfoldStep
  <2>3. QED
    BY <2>2
<1>3. ASSUME NEW n \in Nat, n \in G
      PROVE  n + 1 \in G
  <2>1. PICK g \in [SUBSET S -> Int] : Upto(g, n)
    BY <1>3
  <2> DEFINE k == [s \in SUBSET S |-> IF Cardinality(s) <= n THEN g[s] ELSE UnfoldStep(f, g, s)]
  <2>2. ASSUME NEW s \in SUBSET S, s # {}
        PROVE  /\ Chosen(s) \in S /\ s \ {Chosen(s)} \in SUBSET S
               /\ Cardinality(s \ {Chosen(s)}) = Cardinality(s) - 1
    BY <1>1, <2>2, ChosenRemoved
  <2>3. \A s \in SUBSET S : UnfoldStep(f, g, s) \in Int
    <3> SUFFICES ASSUME NEW s \in SUBSET S
                 PROVE  UnfoldStep(f, g, s) \in Int
      OBVIOUS
    <3>1. CASE s # {}
      <4>1. Chosen(s) \in S /\ s \ {Chosen(s)} \in SUBSET S
        BY <2>2, <3>1
      <4>2. f[Chosen(s)] \in Int /\ g[s \ {Chosen(s)}] \in Int
        BY <4>1
      <4>3. QED
        BY <3>1, <4>2 DEF UnfoldStep
    <3>2. QED
      BY <3>1 DEF UnfoldStep
  <2>4. k \in [SUBSET S -> Int]
    BY <2>3
  <2>5. ASSUME NEW s \in SUBSET S, Cardinality(s) <= n + 1
        PROVE  k[s] = UnfoldStep(f, k, s)
    <3>1. UnfoldStep(f, k, s) = UnfoldStep(f, g, s)
      BY <1>1, <2>2, <2>5 DEF UnfoldStep
    <3>2. QED
      BY <2>1, <3>1
  <2> HIDE DEF k
  <2>6. Upto(k, n + 1)
    BY <2>5
  <2>7. QED
    BY <2>4, <2>6
<1>4. Cardinality(S) \in G
  <2> HIDE DEF G
  <2>1. QED
    BY <1>2, <1>3, NatSetInduction, FS_CardinalityType
<1>5. PICK g \in [SUBSET S -> Int] : Upto(g, Cardinality(S))
  BY <1>4
<1>6. \A s \in SUBSET S : Cardinality(s) <= Cardinality(S)
  BY FS_Subset
<1>7. QED
  BY <1>5, <1>6 DEF Unfolds

(* The functions for a set and for a subset of it agree. *)
LEMMA UnfoldUnique ==
  ASSUME NEW S, NEW T \in SUBSET S, IsFiniteSet(T), NEW f, NEW g, NEW k,
         Unfolds(f, g, S), Unfolds(f, k, T)
  PROVE  g[T] = k[T]
<1> DEFINE G == {n \in Nat : \A s \in SUBSET T : Cardinality(s) = n => g[s] = k[s]}
<1>1. \A s \in SUBSET T : IsFiniteSet(s) /\ Cardinality(s) \in Nat
  BY FS_Subset, FS_CardinalityType
<1>2. \A s \in SUBSET T : g[s] = UnfoldStep(f, g, s) /\ k[s] = UnfoldStep(f, k, s)
  BY DEF Unfolds
<1>3. 0 \in G
  <2>1. \A s \in SUBSET T : Cardinality(s) = 0 => s = {}
    BY <1>1, FS_EmptySet
  <2>2. QED
    BY <1>2, <2>1 DEF UnfoldStep
<1>4. ASSUME NEW n \in Nat, n \in G
      PROVE  n + 1 \in G
  <2> SUFFICES ASSUME NEW s \in SUBSET T, Cardinality(s) = n + 1
               PROVE  g[s] = k[s]
    OBVIOUS
  <2>1. s # {}
    BY FS_EmptySet
  <2>2. s \ {Chosen(s)} \in SUBSET T /\ Cardinality(s \ {Chosen(s)}) = n
    BY <1>1, <2>1, ChosenRemoved
  <2>3. g[s \ {Chosen(s)}] = k[s \ {Chosen(s)}]
    BY <1>4, <2>2
  <2>4. QED
    BY <1>2, <2>1, <2>3 DEF UnfoldStep
<1>5. Cardinality(T) \in G
  <2> HIDE DEF G
  <2>1. QED
    BY <1>3, <1>4, NatSetInduction, FS_CardinalityType
<1>6. QED
  BY <1>5

(* So one function has the sums of all subsets. *)
LEMMA SumIsUnfolded ==
  ASSUME NEW S, IsFiniteSet(S), NEW f, \A x \in S : f[x] \in Int,
         NEW g, Unfolds(f, g, S), NEW T \in SUBSET S
  PROVE  SumFunctionOnSet(f, T) = g[T]
<1> DEFINE k == CHOOSE k : Unfolds(f, k, T)
<1>1. IsFiniteSet(T)
  BY FS_Subset
<1>2. \E k1 : Unfolds(f, k1, T)
  BY <1>1, UnfoldExists
<1>3. Unfolds(f, k, T)
  BY <1>2
<1>4. SumFunctionOnSet(f, T) = k[T]
  BY SumUnfold
<1> HIDE DEF k
<1>5. QED
  BY <1>1, <1>3, <1>4, UnfoldUnique

(* The sum of nothing. *)
LEMMA SumEmpty ==
  ASSUME NEW f
  PROVE  SumFunctionOnSet(f, {}) = 0
<1>1. IsFiniteSet({})
  BY FS_EmptySet
<1>2. PICK g : Unfolds(f, g, {})
  BY <1>1, UnfoldExists
<1>3. g[{}] = 0
  BY <1>2 DEF Unfolds, UnfoldStep
<1>4. QED
  BY <1>1, <1>2, <1>3, SumIsUnfolded

(* A sum of integers is an integer. *)
LEMMA SumInt ==
  ASSUME NEW S, IsFiniteSet(S), NEW f, \A x \in S : f[x] \in Int
  PROVE  SumFunctionOnSet(f, S) \in Int
<1>1. PICK g \in [SUBSET S -> Int] : Unfolds(f, g, S)
  BY UnfoldExists
<1>2. QED
  BY <1>1, SumIsUnfolded

(* The first step of the recursion. *)
LEMMA SumChosen ==
  ASSUME NEW S, IsFiniteSet(S), S # {}, NEW f, \A x \in S : f[x] \in Int
  PROVE  SumFunctionOnSet(f, S)
           = f[Chosen(S)] + SumFunctionOnSet(f, S \ {Chosen(S)})
<1>1. PICK g \in [SUBSET S -> Int] : Unfolds(f, g, S)
  BY UnfoldExists
<1>2. g[S] = f[Chosen(S)] + g[S \ {Chosen(S)}]
  BY <1>1 DEF Unfolds, UnfoldStep
<1>3. QED
  BY <1>1, <1>2, SumIsUnfolded

(* Any element may be taken out first. *)
LEMMA SumRemove ==
  ASSUME NEW S, IsFiniteSet(S), NEW f, \A x \in S : f[x] \in Int, NEW x \in S
  PROVE  SumFunctionOnSet(f, S) = f[x] + SumFunctionOnSet(f, S \ {x})
<1> DEFINE G == {n \in Nat : \A s \in SUBSET S : \A y \in s :
                   Cardinality(s) = n =>
                     SumFunctionOnSet(f, s) = f[y] + SumFunctionOnSet(f, s \ {y})}
<1>1. \A s \in SUBSET S : IsFiniteSet(s) /\ Cardinality(s) \in Nat
  BY FS_Subset, FS_CardinalityType
<1>2. 0 \in G
  BY <1>1, FS_EmptySet
<1>3. ASSUME NEW n \in Nat, n \in G
      PROVE  n + 1 \in G
  <2> SUFFICES ASSUME NEW s \in SUBSET S, NEW y \in s, Cardinality(s) = n + 1
               PROVE  SumFunctionOnSet(f, s) = f[y] + SumFunctionOnSet(f, s \ {y})
    OBVIOUS
  <2> DEFINE c == Chosen(s)
  <2>1. c \in s /\ IsFiniteSet(s \ {c}) /\ Cardinality(s \ {c}) = n
    BY <1>1, ChosenRemoved
  <2>2. SumFunctionOnSet(f, s) = f[c] + SumFunctionOnSet(f, s \ {c})
    BY <1>1, SumChosen
  <2> HIDE DEF c
  <2>3. CASE c = y
    BY <2>2, <2>3
  <2>4. CASE c # y
    <3>1. y \in s \ {c} /\ c \in s \ {y} /\ s \ {c} \in SUBSET S /\ s \ {y} \in SUBSET S
      BY <2>1, <2>4
    <3>2. Cardinality(s \ {y}) = n
      BY <1>1, FS_RemoveElement
    <3>3. SumFunctionOnSet(f, s \ {c}) = f[y] + SumFunctionOnSet(f, (s \ {c}) \ {y})
      BY <1>3, <2>1, <3>1
    <3>4. SumFunctionOnSet(f, s \ {y}) = f[c] + SumFunctionOnSet(f, (s \ {y}) \ {c})
      BY <1>3, <3>1, <3>2
    <3>5. (s \ {c}) \ {y} = (s \ {y}) \ {c} /\ (s \ {y}) \ {c} \in SUBSET S
      OBVIOUS
    <3>6. SumFunctionOnSet(f, (s \ {y}) \ {c}) \in Int
      BY <1>1, <3>5, SumInt
    <3>7. f[y] \in Int /\ f[c] \in Int
      BY <2>1
    <3>8. SumFunctionOnSet(f, s \ {c}) = f[y] + SumFunctionOnSet(f, (s \ {y}) \ {c})
      BY <3>3, <3>5
    <3>9. ASSUME NEW a, NEW b, NEW d \in Int, NEW e, NEW i \in Int, NEW j \in Int,
                 a = i + b, b = j + d, e = i + d
          PROVE  a = j + e
      BY <3>9
    <3>10. QED
      BY <2>2, <3>4, <3>6, <3>7, <3>8, <3>9
  <2>5. QED
    BY <2>3, <2>4
<1>4. Cardinality(S) \in G
  <2> HIDE DEF G
  <2>1. QED
    BY <1>2, <1>3, NatSetInduction, FS_CardinalityType
<1>5. QED
  BY <1>4

(* Adding one element. *)
LEMMA SumAdd ==
  ASSUME NEW S, IsFiniteSet(S), NEW x, x \notin S,
         NEW f, \A y \in S \cup {x} : f[y] \in Int
  PROVE  SumFunctionOnSet(f, S \cup {x}) = SumFunctionOnSet(f, S) + f[x]
<1>1. IsFiniteSet(S \cup {x}) /\ (S \cup {x}) \ {x} = S /\ x \in S \cup {x}
  BY FS_AddElement
<1>2. SumFunctionOnSet(f, S \cup {x}) = f[x] + SumFunctionOnSet(f, S)
  BY <1>1, SumRemove
<1>3. SumFunctionOnSet(f, S) \in Int /\ f[x] \in Int
  BY SumInt
<1>4. QED
  BY <1>2, <1>3

(* A sum depends only on the values at the elements of the set. *)
LEMMA SumSame ==
  ASSUME NEW S, IsFiniteSet(S), NEW f, NEW g,
         \A x \in S : f[x] \in Int /\ f[x] = g[x]
  PROVE  SumFunctionOnSet(f, S) = SumFunctionOnSet(g, S)
<1> DEFINE G == {T \in SUBSET S : SumFunctionOnSet(f, T) = SumFunctionOnSet(g, T)}
<1>1. {} \in G
  BY SumEmpty
<1>2. ASSUME NEW T \in SUBSET S, NEW x \in S \ T, T \in G
      PROVE  T \cup {x} \in G
  <2>1. IsFiniteSet(T)
    BY FS_Subset
  <2>2. /\ SumFunctionOnSet(f, T \cup {x}) = SumFunctionOnSet(f, T) + f[x]
        /\ SumFunctionOnSet(g, T \cup {x}) = SumFunctionOnSet(g, T) + g[x]
    BY <2>1, SumAdd
  <2>3. QED
    BY <1>2, <2>2
<1>3. S \in G
  <2> HIDE DEF G
  <2>1. QED
    BY <1>1, <1>2, FiniteInduction
<1>4. QED
  BY <1>3

(* The sum of sums. *)
LEMMA SumPlus ==
  ASSUME NEW S, IsFiniteSet(S), NEW f, NEW g, NEW k,
         \A x \in S : f[x] \in Int /\ g[x] \in Int /\ k[x] = f[x] + g[x]
  PROVE  SumFunctionOnSet(k, S) = SumFunctionOnSet(f, S) + SumFunctionOnSet(g, S)
<1> DEFINE G == {T \in SUBSET S : SumFunctionOnSet(k, T)
                                    = SumFunctionOnSet(f, T) + SumFunctionOnSet(g, T)}
<1>1. {} \in G
  BY SumEmpty
<1>2. ASSUME NEW T \in SUBSET S, NEW x \in S \ T, T \in G
      PROVE  T \cup {x} \in G
  <2>1. /\ IsFiniteSet(T)
        /\ \A y \in T \cup {x} : f[y] \in Int /\ g[y] \in Int /\ k[y] \in Int
    BY FS_Subset
  <2>2. /\ SumFunctionOnSet(f, T \cup {x}) = SumFunctionOnSet(f, T) + f[x]
        /\ SumFunctionOnSet(g, T \cup {x}) = SumFunctionOnSet(g, T) + g[x]
        /\ SumFunctionOnSet(k, T \cup {x}) = SumFunctionOnSet(k, T) + k[x]
    BY <2>1, SumAdd
  <2>3. /\ SumFunctionOnSet(f, T) \in Int /\ SumFunctionOnSet(g, T) \in Int
        /\ f[x] \in Int /\ g[x] \in Int /\ k[x] = f[x] + g[x]
    BY <2>1, SumInt
  <2>4. QED
    BY <1>2, <2>2, <2>3
<1>3. S \in G
  <2> HIDE DEF G
  <2>1. QED
    BY <1>1, <1>2, FiniteInduction
<1>4. QED
  BY <1>3

(* A sum of zeros. *)
LEMMA SumZero ==
  ASSUME NEW S, IsFiniteSet(S), NEW f, \A x \in S : f[x] = 0
  PROVE  SumFunctionOnSet(f, S) = 0
<1> DEFINE G == {T \in SUBSET S : SumFunctionOnSet(f, T) = 0}
<1>1. {} \in G
  BY SumEmpty
<1>2. ASSUME NEW T \in SUBSET S, NEW x \in S \ T, T \in G
      PROVE  T \cup {x} \in G
  <2>1. IsFiniteSet(T) /\ \A y \in T \cup {x} : f[y] \in Int
    BY FS_Subset
  <2>2. SumFunctionOnSet(f, T \cup {x}) = SumFunctionOnSet(f, T) + f[x]
    BY <2>1, SumAdd
  <2>3. QED
    BY <1>2, <2>2
<1>3. S \in G
  <2> HIDE DEF G
  <2>1. QED
    BY <1>1, <1>2, FiniteInduction
<1>4. QED
  BY <1>3

(* Elements that add nothing may be left out. *)
LEMMA SumNeglect ==
  ASSUME NEW S, IsFiniteSet(S), NEW T \in SUBSET S, NEW f,
         \A x \in S : f[x] \in Int, \A x \in S \ T : f[x] = 0
  PROVE  SumFunctionOnSet(f, S) = SumFunctionOnSet(f, T)
<1> DEFINE G == {U \in SUBSET (S \ T) : SumFunctionOnSet(f, T \cup U) = SumFunctionOnSet(f, T)}
<1>1. IsFiniteSet(S \ T)
  BY FS_Difference
<1>2. {} \in G
  <2>1. T \cup {} = T
    OBVIOUS
  <2>2. QED
    BY <2>1
<1>3. ASSUME NEW U \in SUBSET (S \ T), NEW x \in (S \ T) \ U, U \in G
      PROVE  U \cup {x} \in G
  <2>1. T \cup U \in SUBSET S /\ x \notin T \cup U /\ T \cup (U \cup {x}) = (T \cup U) \cup {x}
    OBVIOUS
  <2>2. IsFiniteSet(T \cup U) /\ IsFiniteSet(T)
    BY <2>1, FS_Subset
  <2>3. \A y \in (T \cup U) \cup {x} : f[y] \in Int
    BY <2>1
  <2>4. SumFunctionOnSet(f, (T \cup U) \cup {x}) = SumFunctionOnSet(f, T \cup U) + f[x]
    BY <2>1, <2>2, <2>3, SumAdd
  <2>5. f[x] = 0 /\ SumFunctionOnSet(f, T) \in Int
    BY <2>2, SumInt
  <2>6. SumFunctionOnSet(f, T \cup U) = SumFunctionOnSet(f, T)
    BY <1>3
  <2>7. SumFunctionOnSet(f, T \cup (U \cup {x})) = SumFunctionOnSet(f, T)
    <3>1. SumFunctionOnSet(f, T \cup (U \cup {x})) = SumFunctionOnSet(f, (T \cup U) \cup {x})
      BY <2>1, Zenon
    <3>2. SumFunctionOnSet(f, T) + f[x] = SumFunctionOnSet(f, T)
      BY <2>5
    <3>3. QED
      BY <2>4, <2>6, <3>1, <3>2, Zenon
  <2>8. QED
    BY <2>7
<1>4. S \ T \in G
  <2> HIDE DEF G
  <2>1. QED
    BY <1>1, <1>2, <1>3, FiniteInduction
<1>5. T \cup (S \ T) = S
  OBVIOUS
<1>6. QED
  BY <1>4, <1>5

(* One value changes. *)
LEMMA SumExchange ==
  ASSUME NEW S, IsFiniteSet(S), NEW x \in S, NEW f, NEW g,
         \A y \in S : f[y] \in Int /\ g[y] \in Int,
         \A y \in S \ {x} : f[y] = g[y]
  PROVE  SumFunctionOnSet(g, S) = SumFunctionOnSet(f, S) + (g[x] - f[x])
<1> DEFINE T == S \ {x}
<1>1. IsFiniteSet(T)
  BY FS_RemoveElement
<1>2. /\ SumFunctionOnSet(f, S) = f[x] + SumFunctionOnSet(f, T)
      /\ SumFunctionOnSet(g, S) = g[x] + SumFunctionOnSet(g, T)
  BY SumRemove
<1>3. \A y \in T : f[y] \in Int /\ f[y] = g[y]
  OBVIOUS
<1> HIDE DEF T
<1>4. SumFunctionOnSet(f, T) = SumFunctionOnSet(g, T) /\ SumFunctionOnSet(f, T) \in Int
  BY <1>1, <1>3, SumSame, SumInt
<1>5. f[x] \in Int /\ g[x] \in Int
  OBVIOUS
<1>6. QED
  BY <1>2, <1>4, <1>5

(* g is f with an element prepended, n elements long before.               *)
Prepended(n, f, g) ==
  n \in Nat /\ g[1] \in Int /\ \A i \in 1 .. n : f[i] \in Int /\ g[i + 1] = f[i]

(* The positions T are the positions S after that, and possibly the first. *)
MovedUp(n, S, T) ==
  /\ S \in SUBSET (1 .. n) /\ T \in SUBSET (1 .. n + 1)
  /\ \A i \in 1 .. n : i \in S <=> i + 1 \in T

(* Of a sequence, to which an element is prepended, a sum over some of the *)
(* positions grows by the new element, if it is among them.                *)
LEMMA SumPrepend ==
  ASSUME NEW n, NEW f, NEW g, Prepended(n, f, g), NEW S, NEW T, MovedUp(n, S, T)
  PROVE  SumFunctionOnSet(g, T)
           = SumFunctionOnSet(f, S) + (IF 1 \in T THEN g[1] ELSE 0)
<1> USE DEF Prepended, MovedUp
<1> DEFINE moved(U) == {i + 1 : i \in U}
           G == {U \in SUBSET S : SumFunctionOnSet(g, moved(U)) = SumFunctionOnSet(f, U)}
<1>1. IsFiniteSet(S) /\ IsFiniteSet(T)
  <2>1. IsFiniteSet(1 .. n) /\ IsFiniteSet(1 .. n + 1)
    BY FS_Interval
  <2>2. QED
    BY <2>1, FS_Subset
<1>2. \A j \in 1 .. n + 1 : g[j] \in Int
  <2> SUFFICES ASSUME NEW j \in 1 .. n + 1
               PROVE  g[j] \in Int
    OBVIOUS
  <2>1. CASE j = 1
    BY <2>1
  <2>2. CASE j # 1
    <3>1. j - 1 \in 1 .. n /\ (j - 1) + 1 = j
      BY <2>2
    <3>2. g[(j - 1) + 1] = f[j - 1] /\ f[j - 1] \in Int
      BY <3>1
    <3>3. QED
      BY <3>1, <3>2
  <2>3. QED
    BY <2>1, <2>2
<1>3. moved(S) = T \ {1}
  <2>1. ASSUME NEW j \in T \ {1}
        PROVE  j \in moved(S)
    <3>1. j - 1 \in 1 .. n /\ (j - 1) + 1 = j
      OBVIOUS
    <3>2. j - 1 \in S
      BY <3>1
    <3>3. QED
      BY <3>1, <3>2
  <2>2. \A i \in S : i + 1 \in T \ {1}
    OBVIOUS
  <2>3. QED
    BY <2>1, <2>2
<1>4. {} \in G
  <2>1. moved({}) = {}
    OBVIOUS
  <2>2. QED
    BY <2>1, SumEmpty
<1>5. ASSUME NEW U \in SUBSET S, NEW x \in S \ U, U \in G
      PROVE  U \cup {x} \in G
  <2>1. /\ moved(U \cup {x}) = moved(U) \cup {x + 1} /\ x + 1 \notin moved(U)
        /\ moved(U) \in SUBSET T /\ moved(U) \cup {x + 1} \in SUBSET T
    <3>1. \A i \in U : i # x /\ i \in 1 .. n /\ x \in 1 .. n
      OBVIOUS
    <3>2. x + 1 \notin moved(U)
      BY <3>1
    <3>3. \A i \in U \cup {x} : i + 1 \in T
      OBVIOUS
    <3>4. moved(U) \subseteq T /\ x + 1 \in T
      BY <3>3
    <3>5. moved(U \cup {x}) = moved(U) \cup {x + 1}
      OBVIOUS
    <3>6. QED
      BY <3>2, <3>4, <3>5
  <2>2. IsFiniteSet(U) /\ IsFiniteSet(moved(U))
    BY <1>1, <2>1, FS_Subset
  <2>3. \A y \in moved(U) \cup {x + 1} : g[y] \in Int
    BY <1>2, <2>1
  <2>4. \A y \in U \cup {x} : f[y] \in Int
    OBVIOUS
  <2>5. SumFunctionOnSet(g, moved(U)) = SumFunctionOnSet(f, U)
    BY <1>5
  <2>6. SumFunctionOnSet(f, U \cup {x}) = SumFunctionOnSet(f, U) + f[x]
    BY <2>2, <2>4, SumAdd
  <2>7. g[x + 1] = f[x]
    OBVIOUS
  <2> DEFINE V == moved(U)
             z == x + 1
  <2>8. /\ IsFiniteSet(V) /\ z \notin V /\ \A y \in V \cup {z} : g[y] \in Int
        /\ g[z] = f[x] /\ moved(U \cup {x}) = V \cup {z}
        /\ SumFunctionOnSet(g, V) = SumFunctionOnSet(f, U)
    BY <2>1, <2>2, <2>3, <2>5, <2>7
  <2> HIDE DEF V, z, moved
  <2>9. SumFunctionOnSet(g, V \cup {z}) = SumFunctionOnSet(g, V) + g[z]
    BY <2>8, SumAdd
  <2>10. SumFunctionOnSet(g, moved(U \cup {x})) = SumFunctionOnSet(f, U \cup {x})
    BY <2>6, <2>8, <2>9
  <2>11. QED
    BY <2>10
<1>6. S \in G
  <2> HIDE DEF G
  <2>1. QED
    BY <1>1, <1>4, <1>5, FiniteInduction
<1>7. SumFunctionOnSet(g, T \ {1}) = SumFunctionOnSet(f, S)
  BY <1>3, <1>6
<1>8. CASE 1 \in T
  <2>1. \A y \in T : g[y] \in Int
    BY <1>2
  <2>2. SumFunctionOnSet(g, T) = g[1] + SumFunctionOnSet(g, T \ {1})
    BY <1>1, <1>8, <2>1, SumRemove
  <2>3. \A y \in S : f[y] \in Int
    OBVIOUS
  <2>4. SumFunctionOnSet(f, S) \in Int
    BY <1>1, <2>3, SumInt
  <2>5. QED
    BY <1>7, <1>8, <2>2, <2>4
<1>9. CASE 1 \notin T
  <2>1. T \ {1} = T
    BY <1>9
  <2>2. \A y \in S : f[y] \in Int
    OBVIOUS
  <2>3. SumFunctionOnSet(f, S) \in Int
    BY <1>1, <2>2, SumInt
  <2>4. QED
    BY <1>7, <1>9, <2>1, <2>3
<1>10. QED
  BY <1>8, <1>9

(* A table adds up to the same by rows and by columns. *)
LEMMA SumSwap ==
  ASSUME NEW S, IsFiniteSet(S), NEW A, IsFiniteSet(A), NEW f,
         \A x \in S : \A a \in A : f[x][a] \in Int
  PROVE  SumFunctionOnSet([a \in A |-> SumFunctionOnSet([x \in S |-> f[x][a]], S)], A)
           = SumFunctionOnSet([x \in S |-> SumFunctionOnSet(f[x], A)], S)
<1> DEFINE column(a) == [x \in S |-> f[x][a]]
           columns(T) == [a \in A |-> SumFunctionOnSet(column(a), T)]
           rows == [x \in S |-> SumFunctionOnSet(f[x], A)]
           G == {T \in SUBSET S : SumFunctionOnSet(columns(T), A) = SumFunctionOnSet(rows, T)}
<1>1. \A T \in SUBSET S : IsFiniteSet(T)
  BY FS_Subset
<1>2. \A x \in S : rows[x] \in Int
  BY SumInt
<1>3. ASSUME NEW T \in SUBSET S, NEW a \in A
      PROVE  columns(T)[a] \in Int
  <2>1. \A x \in T : column(a)[x] \in Int
    OBVIOUS
  <2> HIDE DEF column
  <2>2. SumFunctionOnSet(column(a), T) \in Int
    BY <1>1, <2>1, SumInt
  <2>3. QED
    BY <2>2
<1>4. {} \in G
  <2>1. \A a \in A : columns({})[a] = 0
    BY SumEmpty
  <2>2. SumFunctionOnSet(rows, {}) = 0
    BY SumEmpty
  <2> HIDE DEF rows, columns
  <2>3. SumFunctionOnSet(columns({}), A) = 0
    BY <2>1, SumZero
  <2>4. QED
    BY <2>2, <2>3
<1>5. ASSUME NEW T \in SUBSET S, NEW x \in S \ T, T \in G
      PROVE  T \cup {x} \in G
  <2>1. ASSUME NEW a \in A
        PROVE  columns(T \cup {x})[a] = columns(T)[a] + f[x][a]
    <3>1. \A y \in T \cup {x} : column(a)[y] \in Int
      OBVIOUS
    <3>2. column(a)[x] = f[x][a]
      OBVIOUS
    <3> HIDE DEF column
    <3>3. SumFunctionOnSet(column(a), T \cup {x})
            = SumFunctionOnSet(column(a), T) + column(a)[x]
      BY <1>1, <3>1, SumAdd
    <3>4. QED
      BY <3>2, <3>3
  <2>2. \A a \in A : columns(T)[a] \in Int /\ f[x][a] \in Int
    BY <1>3
  <2>3. \A y \in T \cup {x} : rows[y] \in Int
    BY <1>2
  <2>4. rows[x] = SumFunctionOnSet(f[x], A)
    OBVIOUS
  <2> HIDE DEF columns, rows
  <2>5. SumFunctionOnSet(columns(T \cup {x}), A)
          = SumFunctionOnSet(columns(T), A) + SumFunctionOnSet(f[x], A)
    BY <2>1, <2>2, SumPlus
  <2>6. SumFunctionOnSet(rows, T \cup {x}) = SumFunctionOnSet(rows, T) + rows[x]
    BY <1>1, <2>3, SumAdd
  <2>7. QED
    BY <1>5, <2>4, <2>5, <2>6
<1>6. S \in G
  <2> HIDE DEF G
  <2>1. QED
    BY <1>4, <1>5, FiniteInduction
<1>7. QED
  BY <1>6

=============================================================================
