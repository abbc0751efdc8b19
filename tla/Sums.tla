-------------------------------- MODULE Sums --------------------------------
(***************************************************************************)
(* What SumFunctionOnSet computes, for every finite set.  The induction is *)
(* over its subsets, by a smallest counterexample.                         *)
(***************************************************************************)
EXTENDS Naturals, FiniteSets, Functions, WellFoundedInduction, FiniteSetTheorems, TLAPS

LEMMA LeastNumber ==
  ASSUME NEW T \in SUBSET Nat, T # {}
  PROVE  \E n \in T : \A m \in T : n <= m
<1>1. PICK n \in T : \A m \in T : ~(<<m, n>> \in OpToRel(<, Nat))
  BY NatLessThanWellFounded, WFMin
<1>2. \A m \in T : ~(m < n)
  BY <1>1 DEF OpToRel
<1>3. QED
  BY <1>2

(* Induction over the subsets of a finite set: a family of sets that takes *)
(* in the empty set, and each set whose subsets with one element less it   *)
(* has, has them all.                                                      *)
LEMMA SubsetInduction ==
  ASSUME NEW S, IsFiniteSet(S), NEW G,
         {} \in G,
         \A T \in SUBSET S : T # {} /\ (\A x \in T : T \ {x} \in G) => T \in G
  PROVE  \A T \in SUBSET S : T \in G
<1> DEFINE Sizes == {Cardinality(T) : T \in (SUBSET S) \ G}
<1> SUFFICES ASSUME NEW W \in SUBSET S, W \notin G PROVE FALSE
  OBVIOUS
<1>1. \A T \in SUBSET S : IsFiniteSet(T) /\ Cardinality(T) \in Nat
  BY FS_Subset, FS_CardinalityType
<1>2. Sizes \subseteq Nat /\ Sizes # {}
  BY <1>1
<1>3. PICK n \in Sizes : \A m \in Sizes : n <= m
  BY <1>2, LeastNumber
<1>4. PICK T \in SUBSET S : T \notin G /\ n = Cardinality(T)
  BY <1>3
<1>5. PICK x \in T : T \ {x} \notin G
  BY <1>4
<1>6. Cardinality(T \ {x}) = Cardinality(T) - 1
  BY <1>1, FS_RemoveElement
<1>7. Cardinality(T) <= Cardinality(T \ {x})
  BY <1>3, <1>4, <1>5
<1>8. QED
  BY <1>1, <1>6, <1>7

-----------------------------------------------------------------------------
(* The fold behind SumFunctionOnSet.                                       *)

Pick(s) == CHOOSE x \in s : TRUE

Add(f, g, s) == IF s = {} THEN 0 ELSE f[Pick(s)] + g[s \ {Pick(s)}]

Iter(f, S) == CHOOSE g : g = [s \in SUBSET S |-> Add(f, g, s)]

LEMMA SumIsIter ==
  ASSUME NEW f, NEW S
  PROVE  SumFunctionOnSet(f, S) = Iter(f, S)[S]
  BY DEF SumFunctionOnSet, FoldFunctionOnSet, MapThenFoldSet, Iter, Add, Pick

(* The recursion has a solution: one for subsets of at most n elements     *)
(* extends to n + 1.                                                       *)
LEMMA IterDefined ==
  ASSUME NEW f, NEW S, IsFiniteSet(S)
  PROVE  \A s \in SUBSET S : Iter(f, S)[s] = Add(f, Iter(f, S), s)
<1> DEFINE Sub(n) == {s \in SUBSET S : Cardinality(s) <= n}
           Solves(g, n) == g = [s \in Sub(n) |-> Add(f, g, s)]
           Bad == {n \in Nat : ~ \E g : Solves(g, n)}
<1>1. \A s \in SUBSET S : IsFiniteSet(s) /\ Cardinality(s) \in Nat
  BY FS_Subset, FS_CardinalityType
<1>2. Bad = {}
  <2> SUFFICES ASSUME Bad # {} PROVE FALSE
    OBVIOUS
  <2>1. PICK n \in Bad : \A m \in Bad : n <= m
    <3>1. Bad \in SUBSET Nat
      OBVIOUS
    <3> HIDE DEF Bad
    <3>2. QED
      BY <3>1, LeastNumber
  <2>2. CASE n = 0
    <3>1. \A s \in Sub(0) : s = {}
      BY <1>1, FS_EmptySet
    <3> DEFINE g == [s \in Sub(0) |-> 0]
    <3>2. g = [s \in Sub(0) |-> Add(f, g, s)]
      BY <3>1 DEF Add
    <3>3. QED
      BY <2>1, <2>2, <3>2
  <2>3. CASE n # 0
    <3>1. n - 1 \in Nat /\ ~(n <= n - 1) /\ n \in Nat
      BY <2>1, <2>3
    <3>2. PICK h : Solves(h, n - 1)
      BY <2>1, <3>1
    <3> DEFINE g == [s \in Sub(n) |-> Add(f, h, s)]
    <3>3. ASSUME NEW s \in Sub(n) PROVE Add(f, h, s) = Add(f, g, s)
      <4>1. CASE s = {}
        BY <4>1 DEF Add
      <4>2. CASE s # {}
        <5> DEFINE r == s \ {Pick(s)}
        <5>1. Pick(s) \in s
          BY <4>2 DEF Pick
        <5>2. Cardinality(r) = Cardinality(s) - 1
          BY <1>1, <5>1, FS_RemoveElement
        <5>3. r \in Sub(n - 1) /\ r \in Sub(n)
          BY <1>1, <3>1, <5>2
        <5>4. h[r] = Add(f, h, r)
          BY <3>2, <5>3
        <5>5. g[r] = Add(f, h, r)
          BY <5>3
        <5>6. QED
          BY <4>2, <5>4, <5>5 DEF Add
      <4>3. QED
        BY <4>1, <4>2
    <3>4. Solves(g, n)
      BY <3>3
    <3>5. QED
      BY <2>1, <3>4
  <2>4. QED
    BY <2>2, <2>3
<1>3. PICK g : Solves(g, Cardinality(S))
  BY <1>1, <1>2
<1>4. Sub(Cardinality(S)) = SUBSET S
  BY FS_Subset
<1>5. g = [s \in SUBSET S |-> Add(f, g, s)]
  BY <1>3, <1>4
<1>6. Iter(f, S) = [s \in SUBSET S |-> Add(f, Iter(f, S), s)]
  BY <1>5 DEF Iter
<1>7. QED
  BY <1>6

(* Summing within a larger set gives the same sum.                         *)
LEMMA IterSubset ==
  ASSUME NEW f, NEW S, IsFiniteSet(S), NEW T \in SUBSET S
  PROVE  Iter(f, S)[T] = SumFunctionOnSet(f, T)
<1> DEFINE G == {U \in SUBSET T : Iter(f, S)[U] = Iter(f, T)[U]}
<1>1. IsFiniteSet(T)
  BY FS_Subset
<1>2. \A U \in SUBSET T : /\ Iter(f, S)[U] = Add(f, Iter(f, S), U)
                          /\ Iter(f, T)[U] = Add(f, Iter(f, T), U)
  BY <1>1, IterDefined
<1>3. {} \in G
  BY <1>2 DEF Add
<1>4. ASSUME NEW U \in SUBSET T, U # {}, \A x \in U : U \ {x} \in G
      PROVE  U \in G
  <2>1. Pick(U) \in U
    BY <1>4 DEF Pick
  <2>2. Iter(f, S)[U \ {Pick(U)}] = Iter(f, T)[U \ {Pick(U)}]
    BY <1>4, <2>1
  <2>3. QED
    BY <1>2, <1>4, <2>2 DEF Add
<1>5. \A U \in SUBSET T : U \in G
  <2> HIDE DEF G
  <2>1. QED
    BY <1>1, <1>3, <1>4, SubsetInduction
<1>6. QED
  BY <1>5, SumIsIter


LEMMA SumStep ==
  ASSUME NEW f, NEW S, IsFiniteSet(S)
  PROVE  SumFunctionOnSet(f, S)
           = IF S = {} THEN 0
             ELSE f[Pick(S)] + SumFunctionOnSet(f, S \ {Pick(S)})
<1>1. SumFunctionOnSet(f, S) = Add(f, Iter(f, S), S)
  BY IterDefined, SumIsIter
<1>2. S # {} => Iter(f, S)[S \ {Pick(S)}] = SumFunctionOnSet(f, S \ {Pick(S)})
  BY IterSubset
<1>3. QED
  BY <1>1, <1>2 DEF Add

-----------------------------------------------------------------------------
(* Sums of natural numbers.                                                *)

LEMMA SumEmpty == ASSUME NEW f PROVE SumFunctionOnSet(f, {}) = 0
  BY SumStep, FS_EmptySet

LEMMA SumType ==
  ASSUME NEW f, NEW S, IsFiniteSet(S), \A x \in S : f[x] \in Nat
  PROVE  SumFunctionOnSet(f, S) \in Nat
<1> DEFINE G == {T \in SUBSET S : SumFunctionOnSet(f, T) \in Nat}
<1>1. {} \in G
  BY SumEmpty
<1>2. ASSUME NEW T \in SUBSET S, T # {}, \A x \in T : T \ {x} \in G
      PROVE  T \in G
  <2> DEFINE c == Pick(T)
  <2>1. c \in T /\ IsFiniteSet(T)
    BY <1>2, FS_Subset DEF Pick
  <2>2. T \ {c} \in G
    BY <1>2, <2>1
  <2>3. SumFunctionOnSet(f, T) = f[c] + SumFunctionOnSet(f, T \ {c})
    BY <1>2, <2>1, SumStep
  <2>4. f[c] \in Nat /\ SumFunctionOnSet(f, T \ {c}) \in Nat
    BY <2>1, <2>2
  <2>5. QED
    BY <2>3, <2>4
<1>3. \A T \in SUBSET S : T \in G
  <2> HIDE DEF G
  <2>1. QED
    BY <1>1, <1>2, SubsetInduction
<1>4. QED
  BY <1>3

(* Any element can be taken out of a sum first.                            *)
LEMMA SumRemove ==
  ASSUME NEW f, NEW S, IsFiniteSet(S), \A x \in S : f[x] \in Nat, NEW a \in S
  PROVE  SumFunctionOnSet(f, S) = f[a] + SumFunctionOnSet(f, S \ {a})
<1> DEFINE Holds(T) == \A x \in T : SumFunctionOnSet(f, T)
                                      = f[x] + SumFunctionOnSet(f, T \ {x})
           G == {T \in SUBSET S : Holds(T)}
<1>1. {} \in G
  OBVIOUS
<1>2. ASSUME NEW T \in SUBSET S, T # {}, \A x \in T : T \ {x} \in G
      PROVE  T \in G
  <2> SUFFICES ASSUME NEW x \in T
               PROVE  SumFunctionOnSet(f, T) = f[x] + SumFunctionOnSet(f, T \ {x})
    OBVIOUS
  <2> DEFINE c == Pick(T)
  <2>1. IsFiniteSet(T) /\ c \in T
    BY <1>2, FS_Subset DEF Pick
  <2>2. SumFunctionOnSet(f, T) = f[c] + SumFunctionOnSet(f, T \ {c})
    BY <1>2, <2>1, SumStep
  <2>3. CASE x = c
    BY <2>2, <2>3
  <2>4. CASE x # c
    <3>1. Holds(T \ {c}) /\ Holds(T \ {x})
      BY <1>2, <2>1
    <3> HIDE DEF c
    <3>2. /\ SumFunctionOnSet(f, T \ {c}) = f[x] + SumFunctionOnSet(f, (T \ {c}) \ {x})
          /\ SumFunctionOnSet(f, T \ {x}) = f[c] + SumFunctionOnSet(f, (T \ {x}) \ {c})
      BY <2>1, <2>4, <3>1
    <3>3. (T \ {c}) \ {x} = (T \ {x}) \ {c}
      OBVIOUS
    <3>4. IsFiniteSet((T \ {x}) \ {c})
      BY <2>1, FS_Subset
    <3>5. f[x] \in Nat /\ f[c] \in Nat /\ SumFunctionOnSet(f, (T \ {x}) \ {c}) \in Nat
      BY <2>1, <3>4, SumType
    <3>6. QED
      BY <2>2, <3>2, <3>3, <3>5
  <2>5. QED
    BY <2>3, <2>4
<1>3. \A T \in SUBSET S : T \in G
  <2> HIDE DEF G
  <2>1. QED
    BY <1>1, <1>2, SubsetInduction
<1>4. QED
  BY <1>3

(* Functions that agree on the set have the same sum, smaller ones one     *)
(* that is not larger.                                                     *)
LEMMA SumSame ==
  ASSUME NEW f, NEW g, NEW S, IsFiniteSet(S), \A x \in S : f[x] = g[x]
  PROVE  SumFunctionOnSet(f, S) = SumFunctionOnSet(g, S)
<1> DEFINE G == {T \in SUBSET S : SumFunctionOnSet(f, T) = SumFunctionOnSet(g, T)}
<1>1. {} \in G
  BY SumEmpty
<1>2. ASSUME NEW T \in SUBSET S, T # {}, \A x \in T : T \ {x} \in G
      PROVE  T \in G
  <2> DEFINE c == Pick(T)
  <2>1. c \in T /\ IsFiniteSet(T)
    BY <1>2, FS_Subset DEF Pick
  <2>2. T \ {c} \in G
    BY <1>2, <2>1
  <2>3. /\ SumFunctionOnSet(f, T) = f[c] + SumFunctionOnSet(f, T \ {c})
        /\ SumFunctionOnSet(g, T) = g[c] + SumFunctionOnSet(g, T \ {c})
    BY <1>2, <2>1, SumStep
  <2>4. QED
    BY <2>1, <2>2, <2>3
<1>3. \A T \in SUBSET S : T \in G
  <2> HIDE DEF G
  <2>1. QED
    BY <1>1, <1>2, SubsetInduction
<1>4. QED
  BY <1>3


LEMMA SumMonotone ==
  ASSUME NEW f, NEW g, NEW S, IsFiniteSet(S),
         \A x \in S : f[x] \in Nat /\ g[x] \in Nat /\ f[x] <= g[x]
  PROVE  SumFunctionOnSet(f, S) <= SumFunctionOnSet(g, S)
<1> DEFINE G == {T \in SUBSET S : SumFunctionOnSet(f, T) <= SumFunctionOnSet(g, T)}
<1>1. {} \in G
  BY SumEmpty
<1>2. ASSUME NEW T \in SUBSET S, T # {}, \A x \in T : T \ {x} \in G
      PROVE  T \in G
  <2> DEFINE c == Pick(T)
  <2>1. c \in T /\ IsFiniteSet(T)
    BY <1>2, FS_Subset DEF Pick
  <2>2. T \ {c} \in G
    BY <1>2, <2>1
  <2>3. /\ SumFunctionOnSet(f, T) = f[c] + SumFunctionOnSet(f, T \ {c})
        /\ SumFunctionOnSet(g, T) = g[c] + SumFunctionOnSet(g, T \ {c})
    BY <1>2, <2>1, SumStep
  <2>4. /\ SumFunctionOnSet(f, T \ {c}) \in Nat
        /\ SumFunctionOnSet(g, T \ {c}) \in Nat
    BY <2>1, FS_Subset, SumType
  <2>5. f[c] \in Nat /\ g[c] \in Nat /\ f[c] <= g[c]
    BY <2>1
  <2>6. QED
    BY <2>2, <2>3, <2>4, <2>5
<1>3. \A T \in SUBSET S : T \in G
  <2> HIDE DEF G
  <2>1. QED
    BY <1>1, <1>2, SubsetInduction
<1>4. QED
  BY <1>3

(* Changing one summand changes the sum by as much.                        *)
LEMMA SumChange ==
  ASSUME NEW f, NEW g, NEW S, IsFiniteSet(S), NEW a \in S,
         \A x \in S : f[x] \in Nat /\ g[x] \in Nat,
         \A x \in S : x # a => f[x] = g[x]
  PROVE  SumFunctionOnSet(g, S) + f[a] = SumFunctionOnSet(f, S) + g[a]
<1>1. IsFiniteSet(S \ {a})
  BY FS_Subset
<1>2. SumFunctionOnSet(f, S \ {a}) = SumFunctionOnSet(g, S \ {a})
  BY <1>1, SumSame
<1>3. SumFunctionOnSet(f, S \ {a}) \in Nat
  BY <1>1, SumType
<1>4. /\ SumFunctionOnSet(f, S) = f[a] + SumFunctionOnSet(f, S \ {a})
      /\ SumFunctionOnSet(g, S) = g[a] + SumFunctionOnSet(g, S \ {a})
  BY SumRemove
<1>5. QED
  BY <1>2, <1>3, <1>4

(* No summand exceeds the sum; a sum is zero only if they all are.         *)
LEMMA SumBounds ==
  ASSUME NEW f, NEW S, IsFiniteSet(S), \A x \in S : f[x] \in Nat, NEW a \in S
  PROVE  f[a] <= SumFunctionOnSet(f, S)
<1>1. IsFiniteSet(S \ {a})
  BY FS_Subset
<1>2. SumFunctionOnSet(f, S \ {a}) \in Nat
  BY <1>1, SumType
<1>3. QED
  BY <1>2, SumRemove

LEMMA SumZero ==
  ASSUME NEW f, NEW S, IsFiniteSet(S), \A x \in S : f[x] = 0
  PROVE  SumFunctionOnSet(f, S) = 0
<1> DEFINE G == {T \in SUBSET S : SumFunctionOnSet(f, T) = 0}
<1>1. {} \in G
  BY SumEmpty
<1>2. ASSUME NEW T \in SUBSET S, T # {}, \A x \in T : T \ {x} \in G
      PROVE  T \in G
  <2> DEFINE c == Pick(T)
  <2>1. c \in T /\ IsFiniteSet(T)
    BY <1>2, FS_Subset DEF Pick
  <2>2. T \ {c} \in G
    BY <1>2, <2>1
  <2>3. SumFunctionOnSet(f, T) = f[c] + SumFunctionOnSet(f, T \ {c})
    BY <1>2, <2>1, SumStep
  <2>4. f[c] = 0
    BY <2>1
  <2>5. QED
    BY <2>2, <2>3, <2>4
<1>3. \A T \in SUBSET S : T \in G
  <2> HIDE DEF G
  <2>1. QED
    BY <1>1, <1>2, SubsetInduction
<1>4. QED
  BY <1>3

(* What is added in proportion to a weight adds up to the proportion of    *)
(* the sum of the weights.                                                 *)
LEMMA SumLinear ==
  ASSUME NEW f, NEW g, NEW w, NEW S, IsFiniteSet(S), NEW k \in Nat,
         \A x \in S : /\ f[x] \in Nat /\ g[x] \in Nat /\ w[x] \in Nat
                     /\ g[x] = f[x] + k * w[x]
  PROVE  SumFunctionOnSet(g, S) = SumFunctionOnSet(f, S) + k * SumFunctionOnSet(w, S)
<1> DEFINE Linear(T) == SumFunctionOnSet(g, T)
                          = SumFunctionOnSet(f, T) + k * SumFunctionOnSet(w, T)
           G == {T \in SUBSET S : Linear(T)}
<1>1. {} \in G
  <2>1. 0 = 0 + k * 0
    OBVIOUS
  <2>2. QED
    BY <2>1, SumEmpty
<1>2. ASSUME NEW T \in SUBSET S, T # {}, \A x \in T : T \ {x} \in G
      PROVE  T \in G
  <2> DEFINE c == Pick(T)
             F == SumFunctionOnSet(f, T \ {c})
             H == SumFunctionOnSet(g, T \ {c})
             W == SumFunctionOnSet(w, T \ {c})
  <2>1. c \in T /\ IsFiniteSet(T)
    BY <1>2, FS_Subset DEF Pick
  <2>2. H = F + k * W
    BY <1>2, <2>1
  <2>3. /\ SumFunctionOnSet(f, T) = f[c] + F
        /\ SumFunctionOnSet(g, T) = g[c] + H
        /\ SumFunctionOnSet(w, T) = w[c] + W
    BY <1>2, <2>1, SumStep
  <2>4. F \in Nat /\ H \in Nat /\ W \in Nat
    BY <2>1, FS_Subset, SumType
  <2>5. /\ f[c] \in Nat /\ g[c] \in Nat /\ w[c] \in Nat
        /\ g[c] = f[c] + k * w[c]
    BY <2>1
  <2> HIDE DEF F, H, W, c
  <2>6. k * (w[c] + W) = k * w[c] + k * W
    BY <2>4, <2>5
  <2>7. k * w[c] \in Nat /\ k * W \in Nat
    BY <2>4, <2>5
  <2>8. g[c] + H = (f[c] + F) + k * (w[c] + W)
    BY <2>2, <2>4, <2>5, <2>6, <2>7
  <2>9. Linear(T)
    BY <2>3, <2>8
  <2>10. QED
    BY <2>9
<1>3. \A T \in SUBSET S : T \in G
  <2> HIDE DEF G
  <2>1. QED
    BY <1>1, <1>2, SubsetInduction
<1>4. QED
  BY <1>3

LEMMA SumAtMost ==
  ASSUME NEW f, NEW S, IsFiniteSet(S), NEW k \in Nat,
         \A x \in S : f[x] \in Nat /\ f[x] <= k
  PROVE  SumFunctionOnSet(f, S) <= k * Cardinality(S)
<1> DEFINE Below(T) == SumFunctionOnSet(f, T) <= k * Cardinality(T)
           G == {T \in SUBSET S : Below(T)}
<1>1. {} \in G
  <2>1. 0 <= k * 0
    OBVIOUS
  <2>2. QED
    BY <2>1, SumEmpty, FS_EmptySet
<1>2. ASSUME NEW T \in SUBSET S, T # {}, \A x \in T : T \ {x} \in G
      PROVE  T \in G
  <2> DEFINE c == Pick(T)
             F == SumFunctionOnSet(f, T \ {c})
             n == Cardinality(T \ {c})
  <2>1. c \in T /\ IsFiniteSet(T) /\ IsFiniteSet(T \ {c})
    BY <1>2, FS_Subset DEF Pick
  <2>2. F <= k * n
    BY <1>2, <2>1
  <2>3. SumFunctionOnSet(f, T) = f[c] + F
    BY <1>2, <2>1, SumStep
  <2>4. F \in Nat /\ f[c] \in Nat /\ f[c] <= k
    BY <2>1, SumType
  <2>5. n \in Nat /\ Cardinality(T) = n + 1
    BY <2>1, FS_RemoveElement, FS_CardinalityType
  <2> HIDE DEF F, n, c
  <2>6. k * (n + 1) = k * n + k /\ k * n \in Nat
    BY <2>5
  <2>7. f[c] + F <= k * (n + 1)
    BY <2>2, <2>4, <2>6
  <2>8. Below(T)
    BY <2>3, <2>5, <2>7
  <2>9. QED
    BY <2>8
<1>3. \A T \in SUBSET S : T \in G
  <2> HIDE DEF G
  <2>1. QED
    BY <1>1, <1>2, SubsetInduction
<1>4. QED
  BY <1>3
=============================================================================
