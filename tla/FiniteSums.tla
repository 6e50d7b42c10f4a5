----------------------------- MODULE FiniteSums -----------------------------
(***************************************************************************)
(* What the sums of the models are, for finite sets: SumFunctionOnSet is a *)
(* recursive function on sets, and these are the facts about it that the   *)
(* proofs use.  Induction is on finite sets, in the form that a set of     *)
(* subsets that is not empty has a smallest one.                           *)
(***************************************************************************)
EXTENDS Integers, Functions, FiniteSets, FiniteSetTheorems, WellFoundedInduction, TLAPS

\* Of the subsets that are bad, one has no bad subset but itself.
LEMMA SmallestBad ==
    ASSUME NEW S, IsFiniteSet(S), NEW Bad, Bad \subseteq SUBSET S, Bad # {}
    PROVE  \E T \in Bad : \A U \in Bad : U \subseteq T => U = T
  <1>1. IsWellFoundedOn(StrictSubsetOrdering(S), FiniteSubsetsOf(S))
    BY FS_StrictSubsetOrderingWellFounded
  <1>2. FiniteSubsetsOf(S) = SUBSET S
    BY FS_FiniteSubsetsOfFinite
  <1>3. PICK T \in Bad : \A U \in Bad : <<U, T>> \notin StrictSubsetOrdering(S)
    BY <1>1, <1>2, WFMin
  <1> QED BY <1>3 DEF StrictSubsetOrdering

-----------------------------------------------------------------------------
(* The recursion is well defined.                                          *)

First(S) == CHOOSE x \in S : TRUE

\* g holds the sums of f over the subsets of S.
HoldsSums(g, f, S) ==
    g = [T \in SUBSET S |-> IF T = {} THEN 0 ELSE f[First(T)] + g[T \ {First(T)}]]

LEMMA FirstIsElement ==
    ASSUME NEW S, S # {}
    PROVE  First(S) \in S
  BY DEF First

LEMMA SumsAreUnique ==
    ASSUME NEW f, NEW S, NEW T, IsFiniteSet(S), T \subseteq S,
           NEW g, HoldsSums(g, f, S), NEW h, HoldsSums(h, f, T)
    PROVE  \A U \in SUBSET T : g[U] = h[U]
  <1> DEFINE Bad == {U \in SUBSET T : g[U] # h[U]}
  <1> SUFFICES ASSUME Bad # {} PROVE FALSE
    OBVIOUS
  <1>1. PICK U \in Bad : \A V \in Bad : V \subseteq U => V = U
    <2>1. IsFiniteSet(T) /\ Bad \subseteq SUBSET T
      BY FS_Subset
    <2> HIDE DEF Bad
    <2> QED BY <2>1, SmallestBad
  <1>2. g[{}] = h[{}]
    BY DEF HoldsSums
  <1>3. U # {}
    BY <1>2
  <1> PICK x : x = First(U)
    OBVIOUS
  <1>4. x \in U
    BY <1>3, FirstIsElement
  <1>5. U \ {x} \in SUBSET T /\ U \ {x} \subseteq U /\ U \ {x} # U
    BY <1>4
  <1>6. g[U \ {x}] = h[U \ {x}]
    BY <1>1, <1>5
  <1>7. g[U] = f[x] + g[U \ {x}] /\ h[U] = f[x] + h[U \ {x}]
    BY <1>3 DEF HoldsSums
  <1> QED BY <1>6, <1>7

\* What SumFunctionOnSet abbreviates.
LEMMA SumIsChosen ==
    ASSUME NEW f, NEW S
    PROVE  SumFunctionOnSet(f, S) = (CHOOSE g : HoldsSums(g, f, S))[S]
  BY DEF SumFunctionOnSet, FoldFunctionOnSet, MapThenFoldSet, HoldsSums, First

LEMMA SumsExist ==
    ASSUME NEW f, NEW S, IsFiniteSet(S)
    PROVE  HoldsSums([T \in SUBSET S |-> SumFunctionOnSet(f, T)], f, S)
  <1> DEFINE Sums(T) == [U \in SUBSET T |-> SumFunctionOnSet(f, U)]
             Bad == {T \in SUBSET S : ~HoldsSums(Sums(T), f, T)}
  <1> SUFFICES ASSUME Bad # {} PROVE FALSE
    OBVIOUS
  <1>1. PICK T \in Bad : \A U \in Bad : U \subseteq T => U = T
    <2>1. Bad \subseteq SUBSET S
      OBVIOUS
    <2> HIDE DEF Bad
    <2> QED BY <2>1, SmallestBad
  <1> DEFINE x == First(T)
             rest == T \ {x}
             g == [U \in SUBSET T |-> IF U # T THEN SumFunctionOnSet(f, U)
                                       ELSE IF T = {} THEN 0
                                       ELSE f[x] + SumFunctionOnSet(f, rest)]
  <1>2. \A U \in SUBSET T : U # T => HoldsSums(Sums(U), f, U)
    BY <1>1
  <1>3. HoldsSums(g, f, T)
    <2> SUFFICES ASSUME NEW U \in SUBSET T
                 PROVE  g[U] = IF U = {} THEN 0 ELSE f[First(U)] + g[U \ {First(U)}]
      BY DEF HoldsSums
    <2>1. CASE U = T
      <3>1. CASE T = {}
        BY <2>1, <3>1
      <3>2. CASE T # {}
        <4>1. rest # T
          BY <3>2, FirstIsElement
        <4> QED BY <2>1, <3>2, <4>1
      <3> QED BY <3>1, <3>2
    <2>2. CASE U # T
      <3>1. HoldsSums(Sums(U), f, U)
        BY <1>2, <2>2
      <3>2. Sums(U)[U] = IF U = {} THEN 0 ELSE f[First(U)] + Sums(U)[U \ {First(U)}]
        BY <3>1 DEF HoldsSums
      <3>3. U \ {First(U)} \in SUBSET U /\ U \ {First(U)} # T
        BY <2>2
      <3>4. g[U \ {First(U)}] = Sums(U)[U \ {First(U)}] /\ g[U] = Sums(U)[U]
        BY <2>2, <3>3
      <3> QED BY <3>2, <3>4
    <2> QED BY <2>1, <2>2
  <1>4. SumFunctionOnSet(f, T) = g[T]
    <2> PICK h : h = CHOOSE k : HoldsSums(k, f, T)
      OBVIOUS
    <2>1. HoldsSums(h, f, T)
      BY <1>3
    <2>2. IsFiniteSet(T) /\ T \subseteq T
      BY FS_Subset
    <2>3. g[T] = h[T]
      <3> HIDE DEF g
      <3> QED BY <1>3, <2>1, <2>2, SumsAreUnique
    <2> QED BY <2>3, SumIsChosen
  <1>5. g = Sums(T)
    BY <1>4
  <1> QED BY <1>3, <1>5

-----------------------------------------------------------------------------
(* The facts.                                                              *)

LEMMA SumEmpty ==
    ASSUME NEW f
    PROVE  SumFunctionOnSet(f, {}) = 0
  <1>1. HoldsSums([T \in SUBSET {} |-> SumFunctionOnSet(f, T)], f, {})
    BY SumsExist, FS_EmptySet
  <1> QED BY <1>1 DEF HoldsSums

LEMMA SumOfFirst ==
    ASSUME NEW f, NEW S, IsFiniteSet(S), S # {}
    PROVE  SumFunctionOnSet(f, S) = f[First(S)] + SumFunctionOnSet(f, S \ {First(S)})
  <1> PICK x : x = First(S)
    OBVIOUS
  <1> DEFINE g == [T \in SUBSET S |-> SumFunctionOnSet(f, T)]
  <1>1. HoldsSums(g, f, S)
    BY SumsExist
  <1>2. g[S] = f[x] + g[S \ {x}]
    BY <1>1 DEF HoldsSums
  <1> QED BY <1>2

\* A sum of integers is one.
LEMMA SumIsInteger ==
    ASSUME NEW f, NEW S, IsFiniteSet(S), \A x \in S : f[x] \in Int
    PROVE  SumFunctionOnSet(f, S) \in Int
  <1> DEFINE Bad == {T \in SUBSET S : SumFunctionOnSet(f, T) \notin Int}
  <1> SUFFICES ASSUME Bad # {} PROVE FALSE
    OBVIOUS
  <1>1. PICK T \in Bad : \A U \in Bad : U \subseteq T => U = T
    <2>1. Bad \subseteq SUBSET S
      OBVIOUS
    <2> HIDE DEF Bad
    <2> QED BY <2>1, SmallestBad
  <1>2. IsFiniteSet(T)
    BY FS_Subset
  <1>3. T # {}
    BY SumEmpty
  <1> PICK x : x = First(T)
    OBVIOUS
  <1>4. x \in T
    BY <1>3, FirstIsElement
  <1>5. SumFunctionOnSet(f, T \ {x}) \in Int
    BY <1>1, <1>4
  <1>6. SumFunctionOnSet(f, T) = f[x] + SumFunctionOnSet(f, T \ {x})
    BY <1>2, <1>3, SumOfFirst
  <1> QED BY <1>4, <1>5, <1>6

\* Any element may be taken out of a sum.
LEMMA SumTakesOut ==
    ASSUME NEW f, NEW S, IsFiniteSet(S), \A x \in S : f[x] \in Int, NEW a \in S
    PROVE  SumFunctionOnSet(f, S) = f[a] + SumFunctionOnSet(f, S \ {a})
  <1> DEFINE Bad == {T \in SUBSET S : \E y \in T :
                        SumFunctionOnSet(f, T) # f[y] + SumFunctionOnSet(f, T \ {y})}
  <1> SUFFICES ASSUME Bad # {} PROVE FALSE
    OBVIOUS
  <1>1. PICK T \in Bad : \A U \in Bad : U \subseteq T => U = T
    <2>1. Bad \subseteq SUBSET S
      OBVIOUS
    <2> HIDE DEF Bad
    <2> QED BY <2>1, SmallestBad
  <1>2. PICK y \in T : SumFunctionOnSet(f, T) # f[y] + SumFunctionOnSet(f, T \ {y})
    OBVIOUS
  <1> PICK x : x = First(T)
    OBVIOUS
  <1>3. IsFiniteSet(T) /\ x \in T
    BY FS_Subset, FirstIsElement
  <1>4. SumFunctionOnSet(f, T) = f[x] + SumFunctionOnSet(f, T \ {x})
    BY <1>3, SumOfFirst
  <1>5. x # y
    BY <1>2, <1>4
  <1> PICK rest : rest = SumFunctionOnSet(f, (T \ {x}) \ {y})
    OBVIOUS
  <1>6. SumFunctionOnSet(f, T \ {x}) = f[y] + rest
    <2>1. T \ {x} \notin Bad
      BY <1>1, <1>3
    <2> QED BY <1>5, <2>1
  <1>7. SumFunctionOnSet(f, T \ {y}) = f[x] + rest
    <2>1. T \ {y} \notin Bad
      BY <1>1
    <2>2. (T \ {y}) \ {x} = (T \ {x}) \ {y}
      OBVIOUS
    <2>3. SumFunctionOnSet(f, T \ {y}) = f[x] + SumFunctionOnSet(f, (T \ {y}) \ {x})
      BY <1>3, <1>5, <2>1
    <2> QED BY <2>2, <2>3
  <1>8. rest \in Int
    <2>1. IsFiniteSet((T \ {x}) \ {y}) /\ \A z \in (T \ {x}) \ {y} : f[z] \in Int
      BY <1>3, FS_Subset
    <2> QED BY <2>1, SumIsInteger
  <1>9. f[x] \in Int /\ f[y] \in Int
    BY <1>3
  <1> QED BY <1>2, <1>4, <1>6, <1>7, <1>8, <1>9

\* Functions that agree on a set have one sum over it.
LEMMA SumsAgree ==
    ASSUME NEW f, NEW g, NEW S, IsFiniteSet(S), \A x \in S : f[x] = g[x]
    PROVE  SumFunctionOnSet(f, S) = SumFunctionOnSet(g, S)
  <1> DEFINE Bad == {T \in SUBSET S : SumFunctionOnSet(f, T) # SumFunctionOnSet(g, T)}
  <1> SUFFICES ASSUME Bad # {} PROVE FALSE
    OBVIOUS
  <1>1. PICK T \in Bad : \A U \in Bad : U \subseteq T => U = T
    <2>1. Bad \subseteq SUBSET S
      OBVIOUS
    <2> HIDE DEF Bad
    <2> QED BY <2>1, SmallestBad
  <1>2. IsFiniteSet(T) /\ T # {}
    BY FS_Subset, SumEmpty
  <1> PICK x : x = First(T)
    OBVIOUS
  <1>3. x \in T
    BY <1>2, FirstIsElement
  <1>4. SumFunctionOnSet(f, T \ {x}) = SumFunctionOnSet(g, T \ {x})
    BY <1>1, <1>3
  <1> QED BY <1>2, <1>3, <1>4, SumOfFirst

\* Functions that differ in one place have sums that differ as much.
LEMMA SumsDiffer ==
    ASSUME NEW S, IsFiniteSet(S), NEW f, NEW g, NEW a \in S,
           \A x \in S : f[x] \in Int /\ g[x] \in Int,
           \A x \in S \ {a} : f[x] = g[x]
    PROVE  SumFunctionOnSet(f, S) = SumFunctionOnSet(g, S) + (f[a] - g[a])
  <1>1. IsFiniteSet(S \ {a})
    BY FS_Subset
  <1>2. SumFunctionOnSet(f, S \ {a}) = SumFunctionOnSet(g, S \ {a})
    BY <1>1, SumsAgree
  <1>3. SumFunctionOnSet(g, S \ {a}) \in Int
    BY <1>1, SumIsInteger
  <1>4. /\ SumFunctionOnSet(f, S) = f[a] + SumFunctionOnSet(f, S \ {a})
        /\ SumFunctionOnSet(g, S) = g[a] + SumFunctionOnSet(g, S \ {a})
    BY SumTakesOut
  <1> QED BY <1>2, <1>3, <1>4

LEMMA SumOfNothing ==
    ASSUME NEW S, IsFiniteSet(S), NEW f, \A x \in S : f[x] = 0
    PROVE  SumFunctionOnSet(f, S) = 0
  <1> DEFINE Bad == {T \in SUBSET S : SumFunctionOnSet(f, T) # 0}
  <1> SUFFICES ASSUME Bad # {} PROVE FALSE
    OBVIOUS
  <1>1. PICK T \in Bad : \A U \in Bad : U \subseteq T => U = T
    <2>1. Bad \subseteq SUBSET S
      OBVIOUS
    <2> HIDE DEF Bad
    <2> QED BY <2>1, SmallestBad
  <1>2. IsFiniteSet(T) /\ T # {}
    BY FS_Subset, SumEmpty
  <1> PICK x : x = First(T)
    OBVIOUS
  <1>3. x \in T
    BY <1>2, FirstIsElement
  <1>4. SumFunctionOnSet(f, T \ {x}) = 0
    BY <1>1, <1>3
  <1> QED BY <1>2, <1>3, <1>4, SumOfFirst

\* A sum of naturals is one, and none of them is more than it.
LEMMA SumIsNatural ==
    ASSUME NEW S, IsFiniteSet(S), NEW f, \A x \in S : f[x] \in Nat
    PROVE  /\ SumFunctionOnSet(f, S) \in Nat
           /\ \A x \in S : f[x] <= SumFunctionOnSet(f, S)
  <1>1. \A T \in SUBSET S : SumFunctionOnSet(f, T) \in Nat
    <2> DEFINE Bad == {T \in SUBSET S : SumFunctionOnSet(f, T) \notin Nat}
    <2> SUFFICES ASSUME Bad # {} PROVE FALSE
      OBVIOUS
    <2>1. PICK T \in Bad : \A U \in Bad : U \subseteq T => U = T
      <3>1. Bad \subseteq SUBSET S
        OBVIOUS
      <3> HIDE DEF Bad
      <3> QED BY <3>1, SmallestBad
    <2>2. IsFiniteSet(T)
      BY FS_Subset
    <2>6. T # {}
      <3>1. SumFunctionOnSet(f, {}) \in Nat
        BY SumEmpty
      <3> QED BY <3>1
    <2> PICK x : x = First(T)
      OBVIOUS
    <2>3. x \in T
      BY <2>2, <2>6, FirstIsElement
    <2>4. SumFunctionOnSet(f, T \ {x}) \in Nat
      BY <2>1, <2>3
    <2>5. SumFunctionOnSet(f, T) = f[x] + SumFunctionOnSet(f, T \ {x})
      <3>1. \A y \in T : f[y] \in Int
        OBVIOUS
      <3> QED BY <2>2, <2>6, <3>1, SumOfFirst
    <2> QED BY <2>3, <2>4, <2>5
  <1>2. ASSUME NEW x \in S PROVE f[x] <= SumFunctionOnSet(f, S)
    <2>1. SumFunctionOnSet(f, S \ {x}) \in Nat
      BY <1>1
    <2>2. SumFunctionOnSet(f, S) = f[x] + SumFunctionOnSet(f, S \ {x})
      BY SumTakesOut
    <2> QED BY <2>1, <2>2
  <1> QED BY <1>1, <1>2

\* What is nothing everywhere else sums to what it is here.
LEMMA SumOfOne ==
    ASSUME NEW S, IsFiniteSet(S), NEW f, NEW a \in S, f[a] \in Int,
           \A x \in S \ {a} : f[x] = 0
    PROVE  SumFunctionOnSet(f, S) = f[a]
  <1>1. SumFunctionOnSet(f, S) = f[a] + SumFunctionOnSet(f, S \ {a})
    BY SumTakesOut
  <1>2. SumFunctionOnSet(f, S \ {a}) = 0
    BY FS_Subset, SumOfNothing
  <1> QED BY <1>1, <1>2

LEMMA SumOfFunction ==
    ASSUME NEW S, NEW f, DOMAIN f = S
    PROVE  SumFunction(f) = SumFunctionOnSet(f, S)
  BY DEF SumFunction

\* A function of finite domain that changes in one place changes its sum as much.
LEMMA SumChanges ==
    ASSUME NEW S, IsFiniteSet(S), NEW f \in [S -> Int], NEW g \in [S -> Int],
           NEW a \in S, \A x \in S \ {a} : g[x] = f[x]
    PROVE  /\ SumFunction(f) \in Int /\ SumFunction(g) \in Int
           /\ SumFunction(g) = SumFunction(f) + (g[a] - f[a])
  <1>1. /\ SumFunction(f) = SumFunctionOnSet(f, S)
        /\ SumFunction(g) = SumFunctionOnSet(g, S)
    BY SumOfFunction
  <1>2. SumFunctionOnSet(f, S) \in Int /\ SumFunctionOnSet(g, S) \in Int
    BY SumIsInteger
  <1>3. SumFunctionOnSet(g, S) = SumFunctionOnSet(f, S) + (g[a] - f[a])
    BY SumsDiffer
  <1> QED BY <1>1, <1>2, <1>3

\* Functions that are ordered pointwise have sums that are.
LEMMA SumGrows ==
    ASSUME NEW S, IsFiniteSet(S), NEW f \in [S -> Int], NEW g \in [S -> Int],
           \A x \in S : f[x] <= g[x]
    PROVE  SumFunction(f) <= SumFunction(g)
  <1>1. \A T \in SUBSET S : SumFunctionOnSet(f, T) <= SumFunctionOnSet(g, T)
    <2> DEFINE Bad == {T \in SUBSET S : ~(SumFunctionOnSet(f, T) <= SumFunctionOnSet(g, T))}
    <2> SUFFICES ASSUME Bad # {} PROVE FALSE
      OBVIOUS
    <2>1. PICK T \in Bad : \A U \in Bad : U \subseteq T => U = T
      <3>1. Bad \subseteq SUBSET S
        OBVIOUS
      <3> HIDE DEF Bad
      <3> QED BY <3>1, SmallestBad
    <2>2. IsFiniteSet(T)
      BY FS_Subset
    <2>3. T # {}
      <3>1. SumFunctionOnSet(f, {}) <= SumFunctionOnSet(g, {})
        BY SumEmpty
      <3> QED BY <3>1
    <2> PICK x : x = First(T)
      OBVIOUS
    <2>4. x \in T /\ x \in S
      BY <2>3, FirstIsElement
    <2> PICK F, G : F = SumFunctionOnSet(f, T \ {x}) /\ G = SumFunctionOnSet(g, T \ {x})
      OBVIOUS
    <2>5. F <= G
      BY <2>1, <2>4
    <2>6. F \in Int /\ G \in Int
      <3>1. IsFiniteSet(T \ {x}) /\ \A y \in T \ {x} : f[y] \in Int /\ g[y] \in Int
        BY <2>2, FS_Subset
      <3> QED BY <3>1, SumIsInteger
    <2>7. SumFunctionOnSet(f, T) = f[x] + F /\ SumFunctionOnSet(g, T) = g[x] + G
      BY <2>2, <2>3, SumOfFirst
    <2>8. f[x] \in Int /\ g[x] \in Int /\ f[x] <= g[x]
      BY <2>4
    <2> QED BY <2>5, <2>6, <2>7, <2>8
  <1> QED BY <1>1, SumOfFunction

\* What is nothing outside of a part sums to what the part does.
LEMMA SumSkipsZeros ==
    ASSUME NEW S, IsFiniteSet(S), NEW f, \A x \in S : f[x] \in Int,
           NEW T \in SUBSET S, \A x \in S \ T : f[x] = 0
    PROVE  SumFunctionOnSet(f, S) = SumFunctionOnSet(f, T)
  <1> DEFINE Bad == {U \in SUBSET S : T \subseteq U /\ SumFunctionOnSet(f, U) # SumFunctionOnSet(f, T)}
  <1> SUFFICES ASSUME Bad # {} PROVE FALSE
    OBVIOUS
  <1>1. Bad \subseteq SUBSET S
    OBVIOUS
  <1> HIDE DEF Bad
  <1>2. PICK U \in Bad : \A V \in Bad : V \subseteq U => V = U
    BY <1>1, SmallestBad
  <1> USE DEF Bad
  <1>3. U \in SUBSET S /\ T \subseteq U /\ SumFunctionOnSet(f, U) # SumFunctionOnSet(f, T)
    BY <1>2
  <1>4. PICK a \in U : a \notin T
    BY <1>3
  <1>5. SumFunctionOnSet(f, U \ {a}) = SumFunctionOnSet(f, T)
    BY <1>2, <1>3, <1>4
  <1>6. SumFunctionOnSet(f, U) = f[a] + SumFunctionOnSet(f, U \ {a})
    BY <1>3, <1>4, SumTakesOut, FS_Subset
  <1>7. SumFunctionOnSet(f, U \ {a}) \in Int
    BY <1>3, SumIsInteger, FS_Subset
  <1> QED BY <1>3, <1>4, <1>5, <1>6, <1>7

-----------------------------------------------------------------------------
(* Images and partitions.                                                  *)

LEMMA ImageIsFinite ==
    ASSUME NEW S, IsFiniteSet(S), NEW g
    PROVE  IsFiniteSet({g[x] : x \in S})
  <1> DEFINE T == {g[x] : x \in S}
  <1> PICK f : f = [x \in S |-> g[x]]
    OBVIOUS
  <1>1. f \in Surjection(S, T)
    BY DEF Surjection
  <1> HIDE DEF T
  <1>2. IsFiniteSet(T)
    BY <1>1, FS_Surjection
  <1> QED BY <1>2 DEF T

\* f holds the sizes of the sets of A, which have nothing in common.
SizesOfParts(f, A, R) ==
    /\ IsFiniteSet(R)
    /\ \A r \in R : IsFiniteSet(A[r]) /\ f[r] = Cardinality(A[r])
    /\ \A q, r \in R : q # r => A[q] \cap A[r] = {}

Joined(A, R) == UNION {A[r] : r \in R}

\* The sizes of sets that have nothing in common sum to the size of their union.
LEMMA SumOfParts ==
    ASSUME NEW R, NEW f, NEW A, SizesOfParts(f, A, R)
    PROVE  IsFiniteSet(Joined(A, R)) /\ SumFunctionOnSet(f, R) = Cardinality(Joined(A, R))
  <1> DEFINE Join(T) == UNION {A[r] : r \in T}
             Bad == {T \in SUBSET R : ~(/\ IsFiniteSet(Join(T))
                                        /\ SumFunctionOnSet(f, T) = Cardinality(Join(T)))}
  <1> SUFFICES ASSUME Bad # {} PROVE FALSE
    BY DEF Joined
  <1> USE DEF SizesOfParts
  <1>1. PICK T \in Bad : \A V \in Bad : V \subseteq T => V = T
    <2>1. Bad \subseteq SUBSET R
      OBVIOUS
    <2> HIDE DEF Bad, Join
    <2> QED BY <2>1, SmallestBad
  <1>2. T # {}
    <2>1. Join({}) = {}
      OBVIOUS
    <2>2. IsFiniteSet(Join({})) /\ SumFunctionOnSet(f, {}) = Cardinality(Join({}))
      BY <2>1, SumEmpty, FS_EmptySet
    <2> QED BY <2>2
  <1> PICK x : x \in T
    BY <1>2
  <1> PICK rest, joined, part : rest = T \ {x} /\ joined = Join(rest) /\ part = A[x]
    OBVIOUS
  <1>3. IsFiniteSet(joined) /\ SumFunctionOnSet(f, rest) = Cardinality(joined)
    BY <1>1
  <1>4. SumFunctionOnSet(f, T) = f[x] + SumFunctionOnSet(f, rest)
    <2>1. IsFiniteSet(T)
      BY FS_Subset
    <2>2. \A r \in T : f[r] \in Int
      BY FS_CardinalityType
    <2> QED BY <2>1, <2>2, SumTakesOut
  <1>5. IsFiniteSet(part) /\ f[x] = Cardinality(part) /\ part \cap joined = {}
    OBVIOUS
  <1>6. Join(T) = part \cup joined
    OBVIOUS
  <1> HIDE DEF Join
  <1>7. Cardinality(part \cap joined) = 0
    BY <1>5, FS_EmptySet
  <1>8. /\ IsFiniteSet(part \cup joined)
        /\ Cardinality(part \cup joined) = Cardinality(part) + Cardinality(joined) - 0
    BY <1>3, <1>5, <1>7, FS_Union
  <1>9. Cardinality(part) \in Nat /\ Cardinality(joined) \in Nat
    BY <1>3, <1>5, FS_CardinalityType
  <1>10. SumFunctionOnSet(f, T) = Cardinality(Join(T)) /\ IsFiniteSet(Join(T))
    <2> HIDE DEF Bad
    <2>1. SumFunctionOnSet(f, T) = Cardinality(part) + Cardinality(joined)
      BY <1>3, <1>4, <1>5
    <2>2. Cardinality(Join(T)) = Cardinality(part) + Cardinality(joined)
      BY <1>6, <1>8, <1>9
    <2> QED BY <1>6, <1>8, <2>1, <2>2
  <1>11. ~(IsFiniteSet(Join(T)) /\ SumFunctionOnSet(f, T) = Cardinality(Join(T)))
    OBVIOUS
  <1> QED BY <1>10, <1>11
=============================================================================
