-------------------------------- MODULE Sums --------------------------------
(***************************************************************************)
(* Sums over finite sets: what the proofs about totals need to know of the *)
(* library's MapThenSumSet, which adds the elements in an order it         *)
(* chooses.  SumOf takes the addends as a function; a sum of a model is    *)
(* one of these by its definition.  Induction over a finite set is by a    *)
(* smallest counterexample.                                                *)
(***************************************************************************)
EXTENDS Integers, FiniteSetsExt, FiniteSetTheorems, WellFoundedInduction, TLAPS

SumOf(f, S) == MapThenSumSet(LAMBDA k : f[k], S)

AnyOf(T) == CHOOSE x \in T : TRUE

\* g gives the sum of every subset of S.
SumIter(f, S, g) ==
  g = [T \in SUBSET S |-> IF T = {} THEN 0 ELSE f[AnyOf(T)] + g[T \ {AnyOf(T)}]]

LEMMA SumUnfold == ASSUME NEW f, NEW S PROVE SumOf(f, S) = (CHOOSE g : SumIter(f, S, g))[S]
BY DEF SumOf, MapThenSumSet, MapThenFoldSet, SumIter, AnyOf

-----------------------------------------------------------------------------
\* A set of subsets of a finite set has one that includes no other.
LEMMA SmallestOf ==
  ASSUME NEW S, IsFiniteSet(S), NEW B \in SUBSET (SUBSET S), B # {}
  PROVE  \E X \in B : \A Y \in B : Y \subseteq X => Y = X
<1>1. PICK R : R = StrictSubsetOrdering(S)
  OBVIOUS
<1>2. IsWellFoundedOn(R, SUBSET S)
  BY <1>1, FS_StrictSubsetOrderingWellFounded, FS_FiniteSubsetsOfFinite
<1>3. PICK X \in B : \A Y \in B : ~(<<Y, X>> \in R)
  <2>1. B \subseteq SUBSET S /\ B # {}
    OBVIOUS
  <2> QED BY <1>2, <2>1, WFMin
<1>4. ASSUME NEW Y \in B, Y \subseteq X, Y # X PROVE FALSE
  <2>1. <<Y, X>> \in (SUBSET S) \X (SUBSET S)
    BY <1>4
  <2>2. <<Y, X>> \in R
    BY <1>1, <1>4, <2>1 DEF StrictSubsetOrdering
  <2> QED BY <1>3, <2>2
<1> QED BY <1>4

\* What holds of the empty set, and of a set once it holds of all its parts.
LEMMA SubsetInduction ==
  ASSUME NEW S, IsFiniteSet(S), NEW C \in SUBSET (SUBSET S),
         \A X \in SUBSET S : (\A Y \in SUBSET X : Y # X => Y \in C) => X \in C
  PROVE  C = SUBSET S
<1> SUFFICES ASSUME C # SUBSET S PROVE FALSE
  OBVIOUS
<1>1. PICK B : B = (SUBSET S) \ C
  OBVIOUS
<1>2. B \in SUBSET (SUBSET S) /\ B # {}
  <2>1. \E X \in SUBSET S : X \notin C
    OBVIOUS
  <2> QED BY <1>1, <2>1
<1>3. PICK X \in B : \A Y \in B : Y \subseteq X => Y = X
  BY <1>2, SmallestOf
<1>4. \A Y \in SUBSET X : Y # X => Y \in C
  BY <1>1, <1>3
<1> QED BY <1>1, <1>3, <1>4

LEMMA AnyOfIs == ASSUME NEW T, T # {} PROVE AnyOf(T) \in T
BY DEF AnyOf

-----------------------------------------------------------------------------
\* Two that give the sums of subsets agree on those they both have.
LEMMA SumsAgree ==
  ASSUME NEW f, NEW S, IsFiniteSet(S), NEW A, NEW B, S \subseteq A, S \subseteq B,
         NEW g, SumIter(f, A, g), NEW h, SumIter(f, B, h)
  PROVE  g[S] = h[S]
<1>1. PICK C \in SUBSET (SUBSET S) : C = {T \in SUBSET S : g[T] = h[T]}
  OBVIOUS
<1>2. ASSUME NEW X \in SUBSET S, \A Y \in SUBSET X : Y # X => Y \in C PROVE X \in C
  <2>1. CASE X = {}
    BY <1>1, <2>1 DEF SumIter
  <2>2. CASE X # {}
    <3>1. PICK y : y = AnyOf(X)
      OBVIOUS
    <3>2. y \in X
      BY <2>2, <3>1, AnyOfIs
    <3>3. g[X \ {y}] = h[X \ {y}]
      BY <1>1, <1>2, <3>2
    <3>4. g[X] = f[y] + g[X \ {y}]
      BY <2>2, <3>1 DEF SumIter
    <3>5. h[X] = f[y] + h[X \ {y}]
      BY <2>2, <3>1 DEF SumIter
    <3> QED BY <1>1, <3>3, <3>4, <3>5
  <2> QED BY <2>1, <2>2
<1>3. C = SUBSET S
  BY <1>2, SubsetInduction
<1> QED BY <1>1, <1>3

LEMMA SumsRestrict ==
  ASSUME NEW f, NEW S, NEW T \in SUBSET S, NEW g, SumIter(f, S, g)
  PROVE  SumIter(f, T, [U \in SUBSET T |-> g[U]])
<1>1. PICK h : h = [U \in SUBSET T |-> g[U]]
  OBVIOUS
<1>2. ASSUME NEW U \in SUBSET T
      PROVE  h[U] = IF U = {} THEN 0 ELSE f[AnyOf(U)] + h[U \ {AnyOf(U)}]
  BY <1>1 DEF SumIter
<1>3. h = [U \in SUBSET T |-> IF U = {} THEN 0 ELSE f[AnyOf(U)] + h[U \ {AnyOf(U)}]]
  BY <1>1, <1>2
<1> QED BY <1>1, <1>3 DEF SumIter

\* What the sums of a set give for a subset is the subset's sum.
LEMMA SumIs ==
  ASSUME NEW f, NEW S, NEW T \in SUBSET S, IsFiniteSet(T), NEW g, SumIter(f, S, g)
  PROVE  SumOf(f, T) = g[T]
<1>1. PICK h : h = CHOOSE i : SumIter(f, T, i)
  OBVIOUS
<1>2. SumIter(f, T, h)
  BY <1>1, SumsRestrict
<1>3. T \subseteq S /\ T \subseteq T
  OBVIOUS
<1>4. h[T] = g[T]
  BY <1>2, <1>3, SumsAgree
<1> QED BY <1>1, <1>4, SumUnfold

\* Of a set and its sums: one adds AnyOf.
LEMMA SumStep ==
  ASSUME NEW f, NEW S, IsFiniteSet(S), S # {}, NEW g, SumIter(f, S, g)
  PROVE  SumOf(f, S) = f[AnyOf(S)] + SumOf(f, S \ {AnyOf(S)})
<1>1. PICK T \in SUBSET S : T = S \ {AnyOf(S)}
  OBVIOUS
<1>2. SumOf(f, S) = g[S] /\ SumOf(f, T) = g[T]
  BY <1>1, SumIs, FS_Subset
<1>3. g[S] = f[AnyOf(S)] + g[S \ {AnyOf(S)}]
  BY DEF SumIter
<1> QED BY <1>1, <1>2, <1>3

LEMMA SumIterEmpty ==
  ASSUME NEW f PROVE SumIter(f, {}, [T \in SUBSET {} |-> 0])
BY DEF SumIter

LEMMA SumsExist ==
  ASSUME NEW f, NEW S, IsFiniteSet(S) PROVE \E g : SumIter(f, S, g)
<1>1. PICK C \in SUBSET (SUBSET S) : C = {T \in SUBSET S : \E g : SumIter(f, T, g)}
  OBVIOUS
<1>2. ASSUME NEW X \in SUBSET S, \A Y \in SUBSET X : Y # X => Y \in C PROVE X \in C
  <2>1. CASE X = {}
    BY <1>1, <2>1, SumIterEmpty
  <2>2. CASE X # {}
    <3>1. PICK y : y = AnyOf(X)
      OBVIOUS
    <3>2. y \in X
      BY <2>2, <3>1, AnyOfIs
    <3>3. PICK g : g = [T \in SUBSET X |-> IF T = X THEN f[y] + SumOf(f, X \ {y}) ELSE SumOf(f, T)]
      OBVIOUS
    <3>4. ASSUME NEW T \in SUBSET X
          PROVE  g[T] = IF T = {} THEN 0 ELSE f[AnyOf(T)] + g[T \ {AnyOf(T)}]
      <4>1. CASE T = X
        BY <2>2, <3>1, <3>2, <3>3, <4>1
      <4>2. CASE T # X /\ T = {}
        <5>1. SumOf(f, {}) = [U \in SUBSET {} |-> 0][{}]
          BY SumIterEmpty, SumIs, FS_EmptySet
        <5> QED BY <3>3, <4>2, <5>1
      <4>3. CASE T # X /\ T # {}
        <5>1. T \in C /\ IsFiniteSet(T)
          BY <1>2, <4>3, FS_Subset
        <5>2. SumOf(f, T) = f[AnyOf(T)] + SumOf(f, T \ {AnyOf(T)})
          BY <1>1, <4>3, <5>1, SumStep
        <5>3. AnyOf(T) \in T
          BY <4>3, AnyOfIs
        <5>4. T \ {AnyOf(T)} \in SUBSET X /\ T \ {AnyOf(T)} # X
          BY <5>3
        <5> QED BY <3>3, <4>3, <5>2, <5>4
      <4> QED BY <4>1, <4>2, <4>3
    <3>5. g = [T \in SUBSET X |-> IF T = {} THEN 0 ELSE f[AnyOf(T)] + g[T \ {AnyOf(T)}]]
      BY <3>3, <3>4
    <3> QED BY <1>1, <3>5 DEF SumIter
  <2> QED BY <2>1, <2>2
<1>3. C = SUBSET S
  BY <1>2, SubsetInduction
<1> QED BY <1>1, <1>3

-----------------------------------------------------------------------------
(* What the proofs about the models use                                    *)

LEMMA SumEmpty == ASSUME NEW f PROVE SumOf(f, {}) = 0
<1>1. PICK g : g = [T \in SUBSET {} |-> 0]
  OBVIOUS
<1>2. SumIter(f, {}, g) /\ g[{}] = 0
  BY <1>1, SumIterEmpty
<1>3. {} \in SUBSET {} /\ IsFiniteSet({})
  BY FS_EmptySet
<1> QED BY <1>2, <1>3, SumIs

LEMMA SumAny ==
  ASSUME NEW f, NEW S, IsFiniteSet(S), S # {}
  PROVE  SumOf(f, S) = f[AnyOf(S)] + SumOf(f, S \ {AnyOf(S)})
BY SumsExist, SumStep

LEMMA SumType ==
  ASSUME NEW f, NEW S, IsFiniteSet(S), NEW N \in {Nat, Int}, \A x \in S : f[x] \in N
  PROVE  SumOf(f, S) \in N
<1>1. PICK C \in SUBSET (SUBSET S) : C = {T \in SUBSET S : SumOf(f, T) \in N}
  OBVIOUS
<1>2. ASSUME NEW X \in SUBSET S, \A Y \in SUBSET X : Y # X => Y \in C PROVE X \in C
  <2>1. CASE X = {}
    BY <1>1, <2>1, SumEmpty
  <2>2. CASE X # {}
    <3>1. PICK y \in X : y = AnyOf(X)
      BY <2>2, AnyOfIs
    <3>2. SumOf(f, X) = f[y] + SumOf(f, X \ {y})
      BY <2>2, <3>1, FS_Subset, SumAny
    <3>3. SumOf(f, X \ {y}) \in N /\ f[y] \in N
      BY <1>1, <1>2
    <3>4. \A a, b \in N : a + b \in N
      OBVIOUS
    <3> QED BY <1>1, <3>2, <3>3, <3>4
  <2> QED BY <2>1, <2>2
<1>3. C = SUBSET S
  BY <1>2, SubsetInduction
<1> QED BY <1>1, <1>3

\* A sum is the same in every order: any element can be the last one added.
LEMMA SumLess ==
  ASSUME NEW f, NEW S, IsFiniteSet(S), \A x \in S : f[x] \in Int, NEW x \in S
  PROVE  SumOf(f, S) = f[x] + SumOf(f, S \ {x})
<1>1. PICK C \in SUBSET (SUBSET S) :
        C = {T \in SUBSET S : \A z \in T : SumOf(f, T) = f[z] + SumOf(f, T \ {z})}
  OBVIOUS
<1>2. ASSUME NEW X \in SUBSET S, \A Y \in SUBSET X : Y # X => Y \in C PROVE X \in C
  <2> SUFFICES ASSUME NEW z \in X PROVE SumOf(f, X) = f[z] + SumOf(f, X \ {z})
    BY <1>1
  <2>1. PICK y \in X : y = AnyOf(X)
    BY AnyOfIs
  <2>2. SumOf(f, X) = f[y] + SumOf(f, X \ {y})
    BY <2>1, FS_Subset, SumAny
  <2>3. CASE y = z
    BY <2>2, <2>3
  <2>4. CASE y # z
    <3>1. SumOf(f, X \ {y}) = f[z] + SumOf(f, (X \ {y}) \ {z})
      BY <1>1, <1>2, <2>4
    <3>2. SumOf(f, X \ {z}) = f[y] + SumOf(f, (X \ {z}) \ {y})
      BY <1>1, <1>2, <2>4
    <3>3. (X \ {y}) \ {z} = (X \ {z}) \ {y}
      OBVIOUS
    <3>4. SumOf(f, (X \ {z}) \ {y}) \in Int
      <4>1. PICK T \in SUBSET S : T = (X \ {z}) \ {y}
        OBVIOUS
      <4>2. IsFiniteSet(T) /\ \A w \in T : f[w] \in Int
        BY FS_Subset
      <4> QED BY <4>1, <4>2, SumType
    <3>5. PICK c \in Int : c = SumOf(f, (X \ {z}) \ {y})
      BY <3>4
    <3>6. SumOf(f, X) = f[y] + (f[z] + c) /\ SumOf(f, X \ {z}) = f[y] + c
      BY <2>2, <3>1, <3>2, <3>3, <3>5
    <3>7. f[y] \in Int /\ f[z] \in Int
      OBVIOUS
    <3>8. f[y] + (f[z] + c) = f[z] + (f[y] + c)
      BY <3>7
    <3> QED BY <3>6, <3>8
  <2> QED BY <2>3, <2>4
<1>3. C = SUBSET S
  BY <1>2, SubsetInduction
<1> QED BY <1>1, <1>3

LEMMA SumMore ==
  ASSUME NEW f, NEW S, IsFiniteSet(S), NEW x, x \notin S, \A y \in S \cup {x} : f[y] \in Int
  PROVE  SumOf(f, S \cup {x}) = f[x] + SumOf(f, S)
<1>1. PICK T : T = S \cup {x}
  OBVIOUS
<1>2. IsFiniteSet(T) /\ x \in T /\ T \ {x} = S /\ \A y \in T : f[y] \in Int
  BY <1>1, FS_AddElement
<1>3. SumOf(f, T) = f[x] + SumOf(f, T \ {x})
  BY <1>2, SumLess
<1> QED BY <1>1, <1>2, <1>3

LEMMA SumSame ==
  ASSUME NEW f, NEW g, NEW S, IsFiniteSet(S), \A x \in S : f[x] = g[x]
  PROVE  SumOf(f, S) = SumOf(g, S)
<1>1. PICK C \in SUBSET (SUBSET S) : C = {T \in SUBSET S : SumOf(f, T) = SumOf(g, T)}
  OBVIOUS
<1>2. ASSUME NEW X \in SUBSET S, \A Y \in SUBSET X : Y # X => Y \in C PROVE X \in C
  <2>1. CASE X = {}
    BY <1>1, <2>1, SumEmpty
  <2>2. CASE X # {}
    <3>1. PICK y \in X : y = AnyOf(X)
      BY <2>2, AnyOfIs
    <3>2. SumOf(f, X) = f[y] + SumOf(f, X \ {y}) /\ SumOf(g, X) = g[y] + SumOf(g, X \ {y})
      BY <2>2, <3>1, FS_Subset, SumAny
    <3>3. SumOf(f, X \ {y}) = SumOf(g, X \ {y}) /\ f[y] = g[y]
      BY <1>1, <1>2
    <3> QED BY <1>1, <3>2, <3>3
  <2> QED BY <2>1, <2>2
<1>3. C = SUBSET S
  BY <1>2, SubsetInduction
<1> QED BY <1>1, <1>3

\* Two sums are ordered as their addends.
LEMMA SumOrder ==
  ASSUME NEW f, NEW g, NEW S, IsFiniteSet(S),
         \A x \in S : f[x] \in Int /\ g[x] \in Int /\ f[x] <= g[x]
  PROVE  SumOf(f, S) <= SumOf(g, S)
<1>1. PICK C \in SUBSET (SUBSET S) : C = {T \in SUBSET S : SumOf(f, T) <= SumOf(g, T)}
  OBVIOUS
<1>2. ASSUME NEW X \in SUBSET S, \A Y \in SUBSET X : Y # X => Y \in C PROVE X \in C
  <2>1. CASE X = {}
    BY <1>1, <2>1, SumEmpty
  <2>2. CASE X # {}
    <3>1. PICK y \in X : y = AnyOf(X)
      BY <2>2, AnyOfIs
    <3>2. SumOf(f, X) = f[y] + SumOf(f, X \ {y}) /\ SumOf(g, X) = g[y] + SumOf(g, X \ {y})
      BY <2>2, <3>1, FS_Subset, SumAny
    <3>3. PICK T \in SUBSET S : T = X \ {y}
      OBVIOUS
    <3>4. SumOf(f, T) <= SumOf(g, T)
      BY <1>1, <1>2, <3>3
    <3>5. SumOf(f, T) \in Int /\ SumOf(g, T) \in Int
      BY <3>3, FS_Subset, SumType
    <3> QED BY <1>1, <3>2, <3>3, <3>4, <3>5
  <2> QED BY <2>1, <2>2
<1>3. C = SUBSET S
  BY <1>2, SubsetInduction
<1> QED BY <1>1, <1>3

\* The sum of sums.
LEMMA SumPlus ==
  ASSUME NEW f, NEW g, NEW h, NEW S, IsFiniteSet(S),
         \A x \in S : f[x] \in Int /\ g[x] \in Int /\ h[x] = f[x] + g[x]
  PROVE  SumOf(h, S) = SumOf(f, S) + SumOf(g, S)
<1>1. PICK C \in SUBSET (SUBSET S) :
        C = {T \in SUBSET S : SumOf(h, T) = SumOf(f, T) + SumOf(g, T)}
  OBVIOUS
<1>2. ASSUME NEW X \in SUBSET S, \A Y \in SUBSET X : Y # X => Y \in C PROVE X \in C
  <2>1. CASE X = {}
    BY <1>1, <2>1, SumEmpty
  <2>2. CASE X # {}
    <3>1. PICK y \in X : y = AnyOf(X)
      BY <2>2, AnyOfIs
    <3>2. /\ SumOf(f, X) = f[y] + SumOf(f, X \ {y})
          /\ SumOf(g, X) = g[y] + SumOf(g, X \ {y})
          /\ SumOf(h, X) = h[y] + SumOf(h, X \ {y})
      BY <2>2, <3>1, FS_Subset, SumAny
    <3>3. PICK T \in SUBSET S : T = X \ {y}
      OBVIOUS
    <3>4. SumOf(h, T) = SumOf(f, T) + SumOf(g, T)
      BY <1>1, <1>2, <3>3
    <3>5. SumOf(f, T) \in Int /\ SumOf(g, T) \in Int
      BY <3>3, FS_Subset, SumType
    <3>6. h[y] = f[y] + g[y] /\ f[y] \in Int /\ g[y] \in Int
      OBVIOUS
    <3> QED BY <1>1, <3>2, <3>3, <3>4, <3>5, <3>6
  <2> QED BY <2>1, <2>2
<1>3. C = SUBSET S
  BY <1>2, SubsetInduction
<1> QED BY <1>1, <1>3

\* The sum of two sets that have nothing in common.
LEMMA SumUnion ==
  ASSUME NEW f, NEW S, NEW R, IsFiniteSet(S), IsFiniteSet(R), S \cap R = {},
         \A x \in S \cup R : f[x] \in Int
  PROVE  SumOf(f, S \cup R) = SumOf(f, S) + SumOf(f, R)
<1>1. PICK C \in SUBSET (SUBSET S) :
        C = {T \in SUBSET S : SumOf(f, T \cup R) = SumOf(f, T) + SumOf(f, R)}
  OBVIOUS
<1>2. ASSUME NEW X \in SUBSET S, \A Y \in SUBSET X : Y # X => Y \in C PROVE X \in C
  <2>1. SumOf(f, R) \in Int
    BY SumType
  <2>2. CASE X = {}
    <3>1. X \cup R = R
      BY <2>2
    <3> QED BY <1>1, <2>1, <2>2, <3>1, SumEmpty
  <2>3. CASE X # {}
    <3>1. PICK y : y \in X
      BY <2>3
    <3>2. PICK T \in SUBSET S : T = X \ {y}
      OBVIOUS
    <3>3. IsFiniteSet(T) /\ IsFiniteSet(T \cup R) /\ y \notin T \cup R
      BY <3>1, <3>2, FS_Subset, FS_Union
    <3>4. T \cup {y} = X /\ (T \cup R) \cup {y} = X \cup R
      BY <3>1, <3>2
    <3>5. SumOf(f, T \cup {y}) = f[y] + SumOf(f, T)
      BY <3>1, <3>2, <3>3, SumMore
    <3>6. SumOf(f, (T \cup R) \cup {y}) = f[y] + SumOf(f, T \cup R)
      BY <3>1, <3>2, <3>3, SumMore
    <3>7. SumOf(f, T \cup R) = SumOf(f, T) + SumOf(f, R)
      BY <1>1, <1>2, <3>1, <3>2
    <3>8. SumOf(f, T) \in Int /\ f[y] \in Int
      BY <3>1, <3>2, <3>3, SumType
    <3>9. PICK a \in Int, b \in Int : a = SumOf(f, T) /\ b = SumOf(f, R)
      BY <2>1, <3>8
    <3>10. SumOf(f, X \cup R) = f[y] + (a + b) /\ SumOf(f, X) = f[y] + a
      BY <3>4, <3>5, <3>6, <3>7, <3>9
    <3>11. f[y] + (a + b) = (f[y] + a) + b
      BY <3>8
    <3> QED BY <1>1, <3>9, <3>10, <3>11
  <2> QED BY <2>2, <2>3
<1>3. C = SUBSET S
  BY <1>2, SubsetInduction
<1> QED BY <1>1, <1>3

\* Of natural numbers, a part's sum is at most the whole's.
LEMMA SumPart ==
  ASSUME NEW f, NEW S, IsFiniteSet(S), NEW T \in SUBSET S, \A x \in S : f[x] \in Nat
  PROVE  SumOf(f, T) <= SumOf(f, S)
<1>1. PICK R \in SUBSET S : R = S \ T
  OBVIOUS
<1>2. IsFiniteSet(T) /\ IsFiniteSet(R) /\ T \cup R = S /\ T \cap R = {}
  BY <1>1, FS_Subset
<1>3. SumOf(f, T \cup R) = SumOf(f, T) + SumOf(f, R)
  BY <1>2, SumUnion
<1>4. SumOf(f, T) \in Nat /\ SumOf(f, R) \in Nat
  BY <1>2, SumType
<1>5. PICK a \in Nat, b \in Nat : a = SumOf(f, T) /\ b = SumOf(f, R)
  BY <1>4
<1>6. SumOf(f, S) = a + b
  BY <1>2, <1>3, <1>5
<1> QED BY <1>5, <1>6

LEMMA SumOne ==
  ASSUME NEW f, NEW x, f[x] \in Int PROVE SumOf(f, {x}) = f[x]
<1>1. SumOf(f, {x}) = f[x] + SumOf(f, {x} \ {x}) /\ {x} \ {x} = {}
  BY SumLess, FS_Singleton
<1> QED BY <1>1, SumEmpty

\* Each addend of a sum is at most one of its own of the other sum.
LEMMA SumInject ==
  ASSUME NEW f, NEW g, NEW P, NEW A, IsFiniteSet(A), NEW w \in [P -> A],
         \A p, q \in P : w[p] = w[q] => p = q,
         \A a \in A : f[a] \in Nat,
         \A p \in P : g[p] \in Int /\ g[p] <= f[w[p]]
  PROVE  IsFiniteSet(P) /\ SumOf(g, P) <= SumOf(f, A)
<1>1. IsFiniteSet(P)
  <2>1. w \in Injection(P, A)
    BY DEF Injection, IsInjective
  <2> QED BY <2>1, FS_Injection
<1>2. PICK C \in SUBSET (SUBSET P) :
        C = {T \in SUBSET P : SumOf(g, T) <= SumOf(f, {w[p] : p \in T})}
  OBVIOUS
<1>3. ASSUME NEW X \in SUBSET P, \A Y \in SUBSET X : Y # X => Y \in C PROVE X \in C
  <2>1. CASE X = {}
    <3>1. {w[p] : p \in X} = {}
      BY <2>1
    <3> QED BY <1>2, <2>1, <3>1, SumEmpty
  <2>2. CASE X # {}
    <3>1. PICK y : y \in X
      BY <2>2
    <3>2. PICK T \in SUBSET P : T = X \ {y}
      OBVIOUS
    <3>3. PICK R : R = {w[p] : p \in T}
      OBVIOUS
    <3>4. /\ IsFiniteSet(T) /\ y \notin T /\ T \cup {y} = X
          /\ IsFiniteSet(R) /\ R \subseteq A
      BY <1>1, <3>1, <3>2, <3>3, FS_Subset
    <3>5. w[y] \notin R /\ w[y] \in A /\ R \cup {w[y]} = {w[p] : p \in X}
      BY <3>1, <3>2, <3>3, <3>4
    <3>6. SumOf(g, T \cup {y}) = g[y] + SumOf(g, T)
      BY <3>1, <3>2, <3>4, SumMore
    <3>7. SumOf(f, R \cup {w[y]}) = f[w[y]] + SumOf(f, R)
      <4>1. \A x \in R \cup {w[y]} : f[x] \in Int
        BY <3>4, <3>5
      <4> QED BY <3>4, <3>5, <4>1, SumMore
    <3>8. SumOf(g, T) <= SumOf(f, R)
      BY <1>2, <1>3, <3>1, <3>2, <3>3
    <3>9. SumOf(g, T) \in Int /\ SumOf(f, R) \in Int
      BY <3>4, SumType
    <3>10. PICK a \in Int, b \in Int : a = SumOf(g, T) /\ b = SumOf(f, R)
      BY <3>9
    <3>11. /\ SumOf(g, X) = g[y] + a
           /\ SumOf(f, {w[p] : p \in X}) = f[w[y]] + b
           /\ a <= b
      BY <3>4, <3>5, <3>6, <3>7, <3>8, <3>10
    <3>12. g[y] \in Int /\ f[w[y]] \in Int /\ g[y] <= f[w[y]]
      BY <3>1, <3>5
    <3>13. g[y] + a <= f[w[y]] + b
      BY <3>11, <3>12
    <3> QED BY <1>2, <3>11, <3>13
  <2> QED BY <2>1, <2>2
<1>4. C = SUBSET P
  BY <1>1, <1>3, SubsetInduction
<1>5. PICK R : R = {w[p] : p \in P}
  OBVIOUS
<1>6. R \in SUBSET A
  BY <1>5
<1>7. SumOf(g, P) <= SumOf(f, R) /\ SumOf(f, R) <= SumOf(f, A)
  BY <1>2, <1>4, <1>5, <1>6, SumPart
<1>8. SumOf(g, P) \in Int /\ SumOf(f, R) \in Int /\ SumOf(f, A) \in Int
  <2>1. IsFiniteSet(R) /\ \A x \in R : f[x] \in Int
    BY <1>6, FS_Subset
  <2> QED BY <1>1, <2>1, SumType
<1> QED BY <1>1, <1>7, <1>8

\* The addends of h are c times those of f, and d.
IsAffine(f, h, S, c, d) == \A x \in S : f[x] \in Int /\ h[x] = c * f[x] + d

LEMMA SumAffine ==
  ASSUME NEW f, NEW h, NEW S, IsFiniteSet(S), NEW c \in Int, NEW d \in Int,
         IsAffine(f, h, S, c, d)
  PROVE  SumOf(h, S) = c * SumOf(f, S) + d * Cardinality(S)
<1>1. PICK C \in SUBSET (SUBSET S) :
        C = {T \in SUBSET S : SumOf(h, T) = c * SumOf(f, T) + d * Cardinality(T)}
  OBVIOUS
<1>2. ASSUME NEW X \in SUBSET S, \A Y \in SUBSET X : Y # X => Y \in C PROVE X \in C
  <2>1. CASE X = {}
    <3>1. SumOf(h, X) = 0 /\ SumOf(f, X) = 0 /\ Cardinality(X) = 0
      BY <2>1, SumEmpty, FS_EmptySet
    <3> QED BY <1>1, <3>1
  <2>2. CASE X # {}
    <3>1. PICK y : y \in X
      BY <2>2
    <3>2. PICK T \in SUBSET S : T = X \ {y}
      OBVIOUS
    <3>3. IsFiniteSet(T) /\ y \notin T /\ T \cup {y} = X
      BY <3>1, <3>2, FS_Subset
    <3>4. \A x \in X : f[x] \in Int /\ h[x] = c * f[x] + d /\ h[x] \in Int
      BY DEF IsAffine
    <3>5. /\ SumOf(f, T \cup {y}) = f[y] + SumOf(f, T)
          /\ SumOf(h, T \cup {y}) = h[y] + SumOf(h, T)
      BY <3>1, <3>2, <3>3, <3>4, SumMore
    <3>6. Cardinality(T) \in Nat /\ Cardinality(X) = Cardinality(T) + 1
      BY <3>3, FS_AddElement, FS_CardinalityType
    <3>7. SumOf(h, T) = c * SumOf(f, T) + d * Cardinality(T)
      BY <1>1, <1>2, <3>1, <3>2
    <3>8. PICK a \in Int, n \in Int, u \in Int :
            a = SumOf(f, T) /\ n = Cardinality(T) /\ u = f[y]
      <4>1. SumOf(f, T) \in Int
        BY <3>2, <3>3, <3>4, SumType
      <4> QED BY <3>1, <3>4, <3>6, <4>1
    <3>9. /\ SumOf(h, X) = (c * u + d) + (c * a + d * n)
          /\ SumOf(f, X) = u + a /\ Cardinality(X) = n + 1
      BY <3>1, <3>3, <3>4, <3>5, <3>6, <3>7, <3>8
    <3>10. (c * u + d) + (c * a + d * n) = c * (u + a) + d * (n + 1)
      <4>1. c * (u + a) = c * u + c * a /\ d * (n + 1) = d * n + d
        BY <3>8
      <4>2. c * u \in Int /\ c * a \in Int /\ d * n \in Int
        BY <3>8
      <4> QED BY <4>1, <4>2
    <3> QED BY <1>1, <3>9, <3>10
  <2> QED BY <2>1, <2>2
<1>3. C = SUBSET S
  BY <1>2, SubsetInduction
<1> QED BY <1>1, <1>3

-----------------------------------------------------------------------------
\* A set of natural numbers has a least one, a set of positions a last one.
LEMMA LeastOf ==
  ASSUME NEW T \in SUBSET Nat, T # {}
  PROVE  \E x \in T : \A y \in T : x <= y
<1>1. IsWellFoundedOn(OpToRel(<, Nat), Nat)
  BY NatLessThanWellFounded
<1>2. PICK R : R = OpToRel(<, Nat)
  OBVIOUS
<1>3. \A x, y \in Nat : y < x => <<y, x>> \in R
  BY <1>2 DEF OpToRel
<1>4. IsWellFoundedOn(R, Nat)
  BY <1>1, <1>2
<1>5. PICK x \in T : \A y \in T : ~ (<<y, x>> \in R)
  BY <1>4, WFMin
<1>6. \A y \in T : ~ (y < x)
  BY <1>3, <1>5
<1> QED BY <1>6

LEMMA LastOfSet ==
  ASSUME NEW n \in Nat, NEW S \in SUBSET (1..n), S # {}
  PROVE  \E k \in S : \A j \in S : j <= k
<1>1. PICK T : T = {n - k : k \in S}
  OBVIOUS
<1>2. T \in SUBSET Nat
  BY <1>1
<1>3. T # {}
  BY <1>1
<1>4. PICK x \in T : \A y \in T : x <= y
  BY <1>2, <1>3, LeastOf
<1>5. PICK k \in S : x = n - k
  BY <1>1, <1>4
<1>6. \A j \in S : n - j \in T
  BY <1>1
<1>7. \A j \in S : j <= k
  BY <1>4, <1>5, <1>6
<1> QED BY <1>7
=============================================================================
