------------------------------ MODULE SumProofs ------------------------------
(***************************************************************************)
(* Lemmas about SumFunctionOnSet of the community modules, with which the  *)
(* models add up balances, debts and shares.  None of them takes an        *)
(* operator as a parameter: what is proved by induction over a finite set  *)
(* is that every set of subsets that is closed under a step has the set in *)
(* it, so each use of it names the set of the subsets it holds for.        *)
(***************************************************************************)
EXTENDS Integers, FiniteSets, Functions, FiniteSetTheorems,
        WellFoundedInduction, TLAPS

-----------------------------------------------------------------------------
(* Induction.                                                               *)

\* Numbers: what holds for 0, and for the next number, holds for all.
LEMMA NumbersInduction ==
  ASSUME NEW T, 0 \in T, \A n \in Nat : n \in T => n + 1 \in T
  PROVE  Nat \subseteq T
<1> DEFINE Bad == Nat \ T
<1> SUFFICES ASSUME Bad # {} PROVE FALSE
  OBVIOUS
<1>1. PICK n \in Bad : \A m \in Bad : ~(<<m, n>> \in OpToRel(<, Nat))
  <2>1. Bad \subseteq Nat
    OBVIOUS
  <2>2. QED
    BY ONLY WFMin, NatLessThanWellFounded, <2>1, Bad # {}, Zenon
<1>2. n \in Nat /\ n - 1 \in Nat /\ n - 1 < n
  OBVIOUS
<1>3. <<n - 1, n>> \in OpToRel(<, Nat)
  BY <1>1, <1>2 DEF OpToRel
<1>4. n - 1 \in T
  BY <1>1, <1>2, <1>3
<1>5. n \in T
  BY <1>2, <1>4, n - 1 + 1 = n, <1>1
<1> QED
  BY <1>1, <1>5

\* Finite sets: what holds for a set when it holds for all its proper subsets.
LEMMA SubsetsInduction ==
  ASSUME NEW S, IsFiniteSet(S), NEW T,
         \A U \in SUBSET S : (\A V \in SUBSET U : V # U => V \in T) => U \in T
  PROVE  \A U \in SUBSET S : U \in T
<1> DEFINE Bad == {U \in SUBSET S : U \notin T}
<1> SUFFICES ASSUME Bad # {} PROVE FALSE
  OBVIOUS
<1>1. IsWellFoundedOn(StrictSubsetOrdering(S), SUBSET S)
  <2>1. FiniteSubsetsOf(S) = SUBSET S
    BY FS_FiniteSubsetsOfFinite
  <2>2. IsWellFoundedOn(StrictSubsetOrdering(S), FiniteSubsetsOf(S))
    BY FS_StrictSubsetOrderingWellFounded
  <2> QED
    BY <2>1, <2>2, Zenon
<1>2. PICK U \in Bad : \A V \in Bad : ~(<<V, U>> \in StrictSubsetOrdering(S))
  <2>1. Bad \subseteq SUBSET S
    OBVIOUS
  <2>2. QED
    BY ONLY WFMin, <1>1, <2>1, Bad # {}, Zenon
<1>3. ASSUME NEW V \in SUBSET U, V # U PROVE V \in T
  BY <1>2, <1>3 DEF StrictSubsetOrdering
<1> QED
  BY <1>2, <1>3

\* The same one element at a time.
LEMMA ElementsInduction ==
  ASSUME NEW S, IsFiniteSet(S), NEW T, {} \in T,
         \A U \in SUBSET S : \A x \in S \ U : U \in T => U \cup {x} \in T
  PROVE  S \in T
<1>1. ASSUME NEW U \in SUBSET S, \A V \in SUBSET U : V # U => V \in T
      PROVE  U \in T
  <2>1. CASE U = {}
    BY <2>1
  <2>2. CASE U # {}
    <3>1. PICK x \in U : TRUE
      BY <2>2
    <3>2. U \ {x} \in T
      BY <1>1, <3>1
    <3>3. (U \ {x}) \cup {x} = U /\ U \ {x} \in SUBSET S /\ x \in S \ (U \ {x})
      BY <3>1
    <3> QED
      BY <3>2, <3>3
  <2> QED
    BY <2>1, <2>2
<1>2. \A U \in SUBSET S : U \in T
  BY ONLY <1>1, SubsetsInduction, IsFiniteSet(S)
<1> QED
  BY <1>2

-----------------------------------------------------------------------------
(* The fold is the function that its recursive definition asks for.         *)

Pick(s) == CHOOSE x \in s : TRUE

Step(f, s, g) == IF s = {} THEN 0 ELSE f[Pick(s)] + g[s \ {Pick(s)}]

Iterates(f, S, g) == g = [s \in SUBSET S |-> Step(f, s, g)]

\* A function that takes the step on all sets of up to n elements.
IteratesUpTo(f, S, n, g) ==
  /\ g = [s \in SUBSET S |-> g[s]]
  /\ \A s \in SUBSET S : Cardinality(s) <= n => g[s] = Step(f, s, g)

LEMMA PartialIteration ==
  ASSUME NEW f, NEW S, IsFiniteSet(S)
  PROVE  \A n \in Nat : \E g : IteratesUpTo(f, S, n, g)
<1> DEFINE T == {n \in Nat : \E g : IteratesUpTo(f, S, n, g)}
<1>1. \A s \in SUBSET S : /\ IsFiniteSet(s) /\ Cardinality(s) \in Nat
                          /\ Cardinality(s) = 0 <=> s = {}
  BY FS_Subset, FS_CardinalityType, FS_EmptySet
<1>2. \A s \in SUBSET S : s # {} => /\ Pick(s) \in s
                                    /\ Cardinality(s \ {Pick(s)}) = Cardinality(s) - 1
  BY <1>1, FS_RemoveElement DEF Pick
<1>3. 0 \in T
  <2> DEFINE g == [s \in SUBSET S |-> 0]
  <2>1. IteratesUpTo(f, S, 0, g)
    BY <1>1 DEF Step, IteratesUpTo
  <2> QED
    BY <2>1
<1>4. ASSUME NEW n \in Nat, n \in T PROVE n + 1 \in T
  <2>1. PICK g : IteratesUpTo(f, S, n, g)
    BY <1>4
  <2> DEFINE h == [s \in SUBSET S |-> Step(f, s, g)]
  <2>2. \A s \in SUBSET S : h[s] = Step(f, s, g)
    OBVIOUS
  <2>3. \A s \in SUBSET S : Cardinality(s) <= n => h[s] = g[s]
    BY <2>1, <2>2 DEF IteratesUpTo
  <2>4. ASSUME NEW s \in SUBSET S, Cardinality(s) <= n + 1
        PROVE  h[s] = Step(f, s, h)
    <3>1. CASE s = {}
      BY <2>2, <3>1 DEF Step
    <3>2. CASE s # {}
      <4>1. s \ {Pick(s)} \in SUBSET S /\ Cardinality(s \ {Pick(s)}) <= n
        BY <1>1, <1>2, <2>4, <3>2
      <4>2. h[s \ {Pick(s)}] = g[s \ {Pick(s)}]
        BY <2>3, <4>1
      <4> QED
        BY <2>2, <4>2 DEF Step
    <3> QED
      BY <3>1, <3>2
  <2>5. h = [s \in SUBSET S |-> h[s]]
    BY <2>2
  <2>6. IteratesUpTo(f, S, n + 1, h)
    BY <2>4, <2>5 DEF IteratesUpTo
  <2> HIDE DEF h
  <2> QED
    BY <2>6
<1>5. Nat \subseteq T
  BY ONLY <1>3, <1>4, NumbersInduction
<1> QED
  BY <1>5

LEMMA Iteration ==
  ASSUME NEW f, NEW S, IsFiniteSet(S)
  PROVE  \E g : Iterates(f, S, g) /\ SumFunctionOnSet(f, S) = g[S]
<1>1. PICK g : IteratesUpTo(f, S, Cardinality(S), g)
  BY FS_CardinalityType, PartialIteration
<1>2. \A s \in SUBSET S : Cardinality(s) <= Cardinality(S)
  BY FS_Subset
<1>3. g = [s \in SUBSET S |-> Step(f, s, g)]
  BY <1>1, <1>2 DEF IteratesUpTo
<1> DEFINE iter == CHOOSE h : h = [s \in SUBSET S |-> Step(f, s, h)]
<1>4. iter = [s \in SUBSET S |-> Step(f, s, iter)]
  BY <1>3
<1>5. SumFunctionOnSet(f, S) = iter[S]
  BY DEF SumFunctionOnSet, FoldFunctionOnSet, MapThenFoldSet, Step, Pick
<1> QED
  BY <1>4, <1>5 DEF Iterates

\* Two such functions agree where what they add does.
LEMMA SameIteration ==
  ASSUME NEW f, NEW S, NEW g, Iterates(f, S, g),
         NEW e, NEW R, NEW h, Iterates(e, R, h),
         NEW Q, IsFiniteSet(Q), Q \subseteq S, Q \subseteq R,
         \A x \in Q : f[x] = e[x]
  PROVE  g[Q] = h[Q]
<1> DEFINE T == {U \in SUBSET Q : g[U] = h[U]}
<1>1. /\ \A s \in SUBSET S : g[s] = Step(f, s, g)
      /\ \A s \in SUBSET R : h[s] = Step(e, s, h)
  BY DEF Iterates
<1>2. ASSUME NEW U \in SUBSET Q, \A V \in SUBSET U : V # U => V \in T
      PROVE  U \in T
  <2>1. CASE U = {}
    BY <1>1, <2>1 DEF Step
  <2>2. CASE U # {}
    <3>1. Pick(U) \in U
      BY <2>2 DEF Pick
    <3>2. U \ {Pick(U)} \in T
      BY <1>2, <3>1
    <3>3. f[Pick(U)] = e[Pick(U)]
      BY <3>1
    <3> QED
      BY <1>1, <2>2, <3>2, <3>3 DEF Step
  <2> QED
    BY <2>1, <2>2
<1> HIDE DEF T
<1>3. \A U \in SUBSET Q : U \in T
  BY ONLY <1>2, SubsetsInduction, IsFiniteSet(Q)
<1>4. Q \in T
  BY <1>3
<1> QED
  BY <1>4 DEF T

-----------------------------------------------------------------------------
(* Sums, whatever the order in which they are added up.                     *)

\* A sum over no element is 0.
LEMMA SumOfNothing ==
  ASSUME NEW f
  PROVE  SumFunctionOnSet(f, {}) = 0
<1>1. IsFiniteSet({})
  BY FS_EmptySet
<1>2. PICK g : Iterates(f, {}, g) /\ SumFunctionOnSet(f, {}) = g[{}]
  BY <1>1, Iteration
<1> QED
  BY <1>2 DEF Iterates, Step

\* It depends on the values of the elements only.
LEMMA SumOfSame ==
  ASSUME NEW S, IsFiniteSet(S), NEW f, NEW g, \A x \in S : f[x] = g[x]
  PROVE  SumFunctionOnSet(f, S) = SumFunctionOnSet(g, S)
<1>1. PICK i : Iterates(f, S, i) /\ SumFunctionOnSet(f, S) = i[S]
  BY Iteration
<1>2. PICK j : Iterates(g, S, j) /\ SumFunctionOnSet(g, S) = j[S]
  BY Iteration
<1>3. i[S] = j[S]
  BY <1>1, <1>2, SameIteration
<1> QED
  BY <1>1, <1>2, <1>3

LEMMA SumPicked ==
  ASSUME NEW S, IsFiniteSet(S), S # {}, NEW f
  PROVE  /\ Pick(S) \in S
         /\ SumFunctionOnSet(f, S) = f[Pick(S)] + SumFunctionOnSet(f, S \ {Pick(S)})
<1> DEFINE R == S \ {Pick(S)}
<1>1. PICK i : Iterates(f, S, i) /\ SumFunctionOnSet(f, S) = i[S]
  BY Iteration
<1>2. IsFiniteSet(R) /\ R \subseteq S
  BY FS_Subset
<1>3. PICK j : Iterates(f, R, j) /\ SumFunctionOnSet(f, R) = j[R]
  BY <1>2, Iteration
<1>4. i[R] = j[R]
  BY <1>1, <1>2, <1>3, SameIteration
<1>5. i[S] = f[Pick(S)] + i[R]
  BY <1>1 DEF Iterates, Step
<1> QED
  BY <1>1, <1>3, <1>4, <1>5 DEF Pick

\* A sum of integers is one.
LEMMA SumInt ==
  ASSUME NEW S, IsFiniteSet(S), NEW f, \A x \in S : f[x] \in Int
  PROVE  SumFunctionOnSet(f, S) \in Int
<1> DEFINE T == {U \in SUBSET S : SumFunctionOnSet(f, U) \in Int}
<1>1. ASSUME NEW U \in SUBSET S, \A V \in SUBSET U : V # U => V \in T
      PROVE  U \in T
  <2>1. CASE U = {}
    BY <2>1, SumOfNothing
  <2>2. CASE U # {}
    <3>1. /\ Pick(U) \in U
          /\ SumFunctionOnSet(f, U) = f[Pick(U)] + SumFunctionOnSet(f, U \ {Pick(U)})
      BY <2>2, SumPicked, FS_Subset
    <3>2. U \ {Pick(U)} \in T
      BY <1>1, <3>1
    <3>3. f[Pick(U)] \in Int /\ SumFunctionOnSet(f, U \ {Pick(U)}) \in Int
      BY <3>1, <3>2
    <3> QED
      BY <3>1, <3>3
  <2> QED
    BY <2>1, <2>2
<1>2. \A U \in SUBSET S : U \in T
  BY ONLY <1>1, SubsetsInduction, IsFiniteSet(S)
<1> QED
  BY <1>2

\* Any element may be the one taken out first.
LEMMA SumWithout ==
  ASSUME NEW S, IsFiniteSet(S), NEW f, \A x \in S : f[x] \in Int, NEW y \in S
  PROVE  SumFunctionOnSet(f, S) = f[y] + SumFunctionOnSet(f, S \ {y})
<1> DEFINE T == {U \in SUBSET S : \A z \in U :
                   SumFunctionOnSet(f, U) = f[z] + SumFunctionOnSet(f, U \ {z})}
<1>1. ASSUME NEW U \in SUBSET S, \A V \in SUBSET U : V # U => V \in T
      PROVE  U \in T
  <2> SUFFICES ASSUME NEW z \in U
               PROVE  SumFunctionOnSet(f, U) = f[z] + SumFunctionOnSet(f, U \ {z})
    OBVIOUS
  <2> DEFINE p == Pick(U)
  <2>1. p \in U /\ SumFunctionOnSet(f, U) = f[p] + SumFunctionOnSet(f, U \ {p})
    BY SumPicked, FS_Subset
  <2> HIDE DEF p
  <2>2. CASE z = p
    BY <2>1, <2>2
  <2>3. CASE z # p
    <3>1. U \ {p} \in T /\ z \in U \ {p}
      BY <1>1, <2>1, <2>3
    <3>2. U \ {z} \in T /\ p \in U \ {z}
      BY <1>1, <2>1, <2>3
    <3> DEFINE R == (U \ {p}) \ {z}
    <3>3. R = (U \ {z}) \ {p}
      OBVIOUS
    <3>4. SumFunctionOnSet(f, U \ {p}) = f[z] + SumFunctionOnSet(f, R)
      BY <3>1
    <3>5. SumFunctionOnSet(f, U \ {z}) = f[p] + SumFunctionOnSet(f, R)
      BY <3>2, <3>3
    <3>6. IsFiniteSet(R) /\ (\A x \in R : f[x] \in Int)
      BY FS_Subset
    <3>7. SumFunctionOnSet(f, R) \in Int /\ f[p] \in Int /\ f[z] \in Int
      BY <2>1, <3>6, SumInt
    <3> QED
      BY <2>1, <3>4, <3>5, <3>7
  <2> QED
    BY <2>2, <2>3
<1>2. \A U \in SUBSET S : U \in T
  <2> HIDE DEF T
  <2> QED
    BY ONLY <1>1, SubsetsInduction, IsFiniteSet(S)
<1> QED
  BY <1>2

\* Adding an element adds its value.
LEMMA SumWith ==
  ASSUME NEW S, IsFiniteSet(S), NEW y, y \notin S,
         NEW f, \A x \in S \cup {y} : f[x] \in Int
  PROVE  /\ SumFunctionOnSet(f, S) \in Int
         /\ SumFunctionOnSet(f, S \cup {y}) = SumFunctionOnSet(f, S) + f[y]
<1>1. IsFiniteSet(S \cup {y}) /\ (S \cup {y}) \ {y} = S
  BY FS_AddElement
<1>2. SumFunctionOnSet(f, S \cup {y}) = f[y] + SumFunctionOnSet(f, S)
  BY <1>1, SumWithout
<1>3. SumFunctionOnSet(f, S) \in Int
  BY SumInt
<1> QED
  BY <1>2, <1>3

LEMMA SumOfOne ==
  ASSUME NEW y, NEW f, f[y] \in Int
  PROVE  SumFunctionOnSet(f, {y}) = f[y]
BY SumWith, SumOfNothing, FS_EmptySet, {} \cup {y} = {y}

\* Two sets with nothing in common are added up one after the other.
LEMMA SumOfUnion ==
  ASSUME NEW S, IsFiniteSet(S), NEW R, IsFiniteSet(R), S \cap R = {},
         NEW f, \A x \in S \cup R : f[x] \in Int
  PROVE  /\ SumFunctionOnSet(f, S) \in Int /\ SumFunctionOnSet(f, R) \in Int
         /\ SumFunctionOnSet(f, S \cup R) = SumFunctionOnSet(f, S) + SumFunctionOnSet(f, R)
<1> DEFINE T == {U \in SUBSET R : SumFunctionOnSet(f, S \cup U)
                                    = SumFunctionOnSet(f, S) + SumFunctionOnSet(f, U)}
<1>0. SumFunctionOnSet(f, S) \in Int /\ SumFunctionOnSet(f, R) \in Int
  BY SumInt
<1>1. {} \in T
  BY <1>0, SumOfNothing, S \cup {} = S
<1>2. ASSUME NEW U \in SUBSET R, NEW x \in R \ U, U \in T PROVE U \cup {x} \in T
  <2>1. IsFiniteSet(U) /\ IsFiniteSet(S \cup U) /\ S \cup (U \cup {x}) = (S \cup U) \cup {x}
    BY FS_Subset, FS_Union
  <2>2. SumFunctionOnSet(f, U \cup {x}) = SumFunctionOnSet(f, U) + f[x]
    BY <2>1, SumWith
  <2>3. SumFunctionOnSet(f, (S \cup U) \cup {x}) = SumFunctionOnSet(f, S \cup U) + f[x]
    BY <2>1, SumWith
  <2>4. SumFunctionOnSet(f, U) \in Int /\ f[x] \in Int
    BY <2>1, SumInt
  <2>5. SumFunctionOnSet(f, S \cup U) = SumFunctionOnSet(f, S) + SumFunctionOnSet(f, U)
    BY <1>2
  <2>6. SumFunctionOnSet(f, (S \cup U) \cup {x})
          = SumFunctionOnSet(f, S) + SumFunctionOnSet(f, U \cup {x})
    BY <1>0, <2>2, <2>3, <2>4, <2>5
  <2> QED
    BY <2>1, <2>6
<1>3. R \in T
  BY ONLY <1>1, <1>2, ElementsInduction, IsFiniteSet(R)
<1> QED
  BY <1>0, <1>3

\* Larger values add up to no smaller a sum.
LEMMA SumOfLarger ==
  ASSUME NEW S, IsFiniteSet(S), NEW f, NEW g,
         \A x \in S : f[x] \in Int /\ g[x] \in Int /\ f[x] <= g[x]
  PROVE  SumFunctionOnSet(f, S) <= SumFunctionOnSet(g, S)
<1> DEFINE T == {U \in SUBSET S : SumFunctionOnSet(f, U) <= SumFunctionOnSet(g, U)}
<1>1. {} \in T
  BY SumOfNothing
<1>2. ASSUME NEW U \in SUBSET S, NEW x \in S \ U, U \in T PROVE U \cup {x} \in T
  <2>1. IsFiniteSet(U)
    BY FS_Subset
  <2>2. /\ SumFunctionOnSet(f, U) \in Int
        /\ SumFunctionOnSet(f, U \cup {x}) = SumFunctionOnSet(f, U) + f[x]
    BY <2>1, SumWith
  <2>3. /\ SumFunctionOnSet(g, U) \in Int
        /\ SumFunctionOnSet(g, U \cup {x}) = SumFunctionOnSet(g, U) + g[x]
    BY <2>1, SumWith
  <2> QED
    BY <1>2, <2>2, <2>3
<1>3. S \in T
  BY ONLY <1>1, <1>2, ElementsInduction, IsFiniteSet(S)
<1> QED
  BY <1>3

\* The sum of a difference is the difference of the sums.
LEMMA SumOfMinus ==
  ASSUME NEW S, IsFiniteSet(S), NEW f, NEW g, NEW h,
         \A x \in S : f[x] \in Int /\ g[x] \in Int /\ h[x] = f[x] - g[x]
  PROVE  /\ SumFunctionOnSet(f, S) \in Int /\ SumFunctionOnSet(g, S) \in Int
         /\ SumFunctionOnSet(h, S) = SumFunctionOnSet(f, S) - SumFunctionOnSet(g, S)
<1> DEFINE T == {U \in SUBSET S : SumFunctionOnSet(h, U)
                                    = SumFunctionOnSet(f, U) - SumFunctionOnSet(g, U)}
<1>1. {} \in T
  BY SumOfNothing
<1>2. ASSUME NEW U \in SUBSET S, NEW x \in S \ U, U \in T PROVE U \cup {x} \in T
  <2>1. IsFiniteSet(U)
    BY FS_Subset
  <2>2. /\ SumFunctionOnSet(f, U) \in Int
        /\ SumFunctionOnSet(f, U \cup {x}) = SumFunctionOnSet(f, U) + f[x]
    BY <2>1, SumWith
  <2>3. /\ SumFunctionOnSet(g, U) \in Int
        /\ SumFunctionOnSet(g, U \cup {x}) = SumFunctionOnSet(g, U) + g[x]
    BY <2>1, SumWith
  <2>4. \A y \in U \cup {x} : h[y] \in Int
    OBVIOUS
  <2>5. SumFunctionOnSet(h, U \cup {x}) = SumFunctionOnSet(h, U) + h[x]
    BY <2>1, <2>4, SumWith
  <2> QED
    BY <1>2, <2>2, <2>3, <2>5
<1>3. S \in T
  BY ONLY <1>1, <1>2, ElementsInduction, IsFiniteSet(S)
<1> QED
  BY <1>3, SumInt

\* The same value everywhere.
LEMMA SumOfConstant ==
  ASSUME NEW S, IsFiniteSet(S), NEW k \in Int, NEW f, \A x \in S : f[x] = k
  PROVE  SumFunctionOnSet(f, S) = Cardinality(S) * k
<1> DEFINE T == {U \in SUBSET S : SumFunctionOnSet(f, U) = Cardinality(U) * k}
<1>1. {} \in T
  BY SumOfNothing, FS_EmptySet
<1>2. ASSUME NEW U \in SUBSET S, NEW x \in S \ U, U \in T PROVE U \cup {x} \in T
  <2>1. IsFiniteSet(U) /\ Cardinality(U) \in Nat
    BY FS_Subset, FS_CardinalityType
  <2>2. Cardinality(U \cup {x}) = Cardinality(U) + 1
    BY <2>1, FS_AddElement
  <2>3. SumFunctionOnSet(f, U \cup {x}) = SumFunctionOnSet(f, U) + k
    BY <2>1, SumWith
  <2>4. (Cardinality(U) + 1) * k = Cardinality(U) * k + k
    BY <2>1
  <2> QED
    BY <1>2, <2>2, <2>3, <2>4
<1>3. S \in T
  BY ONLY <1>1, <1>2, ElementsInduction, IsFiniteSet(S)
<1> QED
  BY <1>3

LEMMA SumOfZeros ==
  ASSUME NEW S, IsFiniteSet(S), NEW f, \A x \in S : f[x] = 0
  PROVE  SumFunctionOnSet(f, S) = 0
BY SumOfConstant, FS_CardinalityType

\* The values multiplied by the same factor.
LEMMA SumOfTimes ==
  ASSUME NEW S, IsFiniteSet(S), NEW k \in Int, NEW f, NEW g,
         \A x \in S : f[x] \in Int /\ g[x] = k * f[x]
  PROVE  SumFunctionOnSet(g, S) = k * SumFunctionOnSet(f, S)
<1> DEFINE T == {U \in SUBSET S : SumFunctionOnSet(g, U) = k * SumFunctionOnSet(f, U)}
<1>1. {} \in T
  BY SumOfNothing
<1>2. ASSUME NEW U \in SUBSET S, NEW x \in S \ U, U \in T PROVE U \cup {x} \in T
  <2>1. IsFiniteSet(U)
    BY FS_Subset
  <2>2. /\ SumFunctionOnSet(f, U) \in Int
        /\ SumFunctionOnSet(f, U \cup {x}) = SumFunctionOnSet(f, U) + f[x]
    BY <2>1, SumWith
  <2>3. \A y \in U \cup {x} : g[y] \in Int
    OBVIOUS
  <2>4. SumFunctionOnSet(g, U \cup {x}) = SumFunctionOnSet(g, U) + k * f[x]
    BY <2>1, <2>3, SumWith
  <2>5. f[x] \in Int
    OBVIOUS
  <2>6. k * (SumFunctionOnSet(f, U) + f[x]) = k * SumFunctionOnSet(f, U) + k * f[x]
    BY <2>2, <2>5
  <2> QED
    BY <1>2, <2>2, <2>4, <2>6
<1>3. S \in T
  BY ONLY <1>1, <1>2, ElementsInduction, IsFiniteSet(S)
<1> QED
  BY <1>3

\* Rows are added up for each key, and these sums for the keys: it is the sum
\* of the rows, if they have these keys.
LEMMA SumByKey ==
  ASSUME NEW R, IsFiniteSet(R), NEW f, \A r \in R : f[r] \in Int,
         NEW K, IsFiniteSet(K), NEW key, \A r \in R : key[r] \in K,
         NEW of, \A k \in K : of[k] \subseteq R /\ \A r \in R : r \in of[k] <=> key[r] = k,
         NEW g, \A k \in K : g[k] = SumFunctionOnSet(f, of[k])
  PROVE  SumFunctionOnSet(g, K) = SumFunctionOnSet(f, R)
<1> DEFINE Rows(U) == {r \in R : key[r] \in U}
           T == {U \in SUBSET K : SumFunctionOnSet(g, U) = SumFunctionOnSet(f, Rows(U))}
<1>1. {} \in T
  BY SumOfNothing, Rows({}) = {}
<1>2. ASSUME NEW U \in SUBSET K, NEW x \in K \ U, U \in T PROVE U \cup {x} \in T
  <2>1. IsFiniteSet(U)
    BY FS_Subset
  <2>2. Rows(U \cup {x}) = Rows(U) \cup of[x] /\ Rows(U) \cap of[x] = {}
    OBVIOUS
  <2>3. IsFiniteSet(Rows(U)) /\ IsFiniteSet(of[x]) /\ of[x] \subseteq R
    BY FS_Subset
  <2>4. /\ SumFunctionOnSet(f, Rows(U)) \in Int /\ SumFunctionOnSet(f, of[x]) \in Int
        /\ SumFunctionOnSet(f, Rows(U) \cup of[x])
             = SumFunctionOnSet(f, Rows(U)) + SumFunctionOnSet(f, of[x])
    BY <2>2, <2>3, SumOfUnion
  <2>5. \A k \in U \cup {x} : g[k] \in Int
    <3> TAKE k \in U \cup {x}
    <3>1. IsFiniteSet(of[k]) /\ \A r \in of[k] : f[r] \in Int
      BY FS_Subset
    <3>2. SumFunctionOnSet(f, of[k]) \in Int
      BY <3>1, SumInt
    <3>3. g[k] = SumFunctionOnSet(f, of[k])
      OBVIOUS
    <3> QED
      BY <3>2, <3>3
  <2>6. SumFunctionOnSet(g, U \cup {x}) = SumFunctionOnSet(g, U) + g[x]
    <3>1. x \notin U
      BY <1>2
    <3> QED
      BY ONLY <2>1, <2>5, <3>1, SumWith
  <2>7. g[x] = SumFunctionOnSet(f, of[x])
    OBVIOUS
  <2> QED
    BY <1>2, <2>2, <2>4, <2>6, <2>7
<1>3. K \in T
  BY ONLY <1>1, <1>2, ElementsInduction, IsFiniteSet(K)
<1>4. Rows(K) = R
  OBVIOUS
<1> QED
  BY <1>3, <1>4

\* Values that are not negative add up to no less than any of them,
LEMMA SumOfNats ==
  ASSUME NEW S, IsFiniteSet(S), NEW f, \A x \in S : f[x] \in Int /\ f[x] >= 0
  PROVE  /\ SumFunctionOnSet(f, S) \in Nat
         /\ \A y \in S : f[y] <= SumFunctionOnSet(f, S)
<1> DEFINE z == [x \in S |-> 0]
<1>1. ASSUME NEW R \in SUBSET S PROVE SumFunctionOnSet(f, R) \in Int /\ SumFunctionOnSet(f, R) >= 0
  <2>1. IsFiniteSet(R)
    BY FS_Subset
  <2>2. \A x \in R : f[x] \in Int /\ z[x] \in Int /\ z[x] = 0 /\ z[x] <= f[x]
    OBVIOUS
  <2> HIDE DEF z
  <2>3. SumFunctionOnSet(z, R) = 0
    BY <2>1, <2>2, SumOfZeros
  <2>4. SumFunctionOnSet(z, R) <= SumFunctionOnSet(f, R)
    BY <2>1, <2>2, SumOfLarger
  <2>5. SumFunctionOnSet(f, R) \in Int
    BY <2>1, SumInt
  <2> QED
    BY <2>3, <2>4, <2>5
<1>2. ASSUME NEW y \in S PROVE f[y] <= SumFunctionOnSet(f, S)
  <2>1. SumFunctionOnSet(f, S) = f[y] + SumFunctionOnSet(f, S \ {y})
    BY SumWithout
  <2>2. SumFunctionOnSet(f, S \ {y}) \in Int /\ SumFunctionOnSet(f, S \ {y}) >= 0
    BY <1>1
  <2>3. f[y] \in Int
    OBVIOUS
  <2> QED
    BY <2>1, <2>2, <2>3
<1> QED
  BY <1>1, <1>2

\* and values that are not positive to no more.
LEMMA SumOfNegatives ==
  ASSUME NEW S, IsFiniteSet(S), NEW f, \A x \in S : f[x] \in Int /\ f[x] <= 0
  PROVE  /\ SumFunctionOnSet(f, S) \in Int
         /\ \A y \in S : SumFunctionOnSet(f, S) <= f[y]
<1> DEFINE g == [x \in S |-> (-1) * f[x]]
<1>1. \A x \in S : g[x] = (-1) * f[x] /\ g[x] \in Int /\ g[x] >= 0
  OBVIOUS
<1> HIDE DEF g
<1>2. SumFunctionOnSet(g, S) = (-1) * SumFunctionOnSet(f, S)
  BY <1>1, SumOfTimes
<1>3. \A y \in S : g[y] <= SumFunctionOnSet(g, S)
  BY <1>1, SumOfNats
<1>4. SumFunctionOnSet(f, S) \in Int
  BY SumInt
<1> QED
  BY <1>1, <1>2, <1>3, <1>4

\* If there are values of one sign only, and they add up to 0, all are 0.
LEMMA SumIsZero ==
  ASSUME NEW S, IsFiniteSet(S), NEW f, \A x \in S : f[x] \in Int,
         SumFunctionOnSet(f, S) = 0,
         (\A x \in S : f[x] >= 0) \/ (\A x \in S : f[x] <= 0)
  PROVE  \A x \in S : f[x] = 0
<1>1. CASE \A x \in S : f[x] >= 0
  BY <1>1, SumOfNats
<1>2. CASE \A x \in S : f[x] <= 0
  BY <1>2, SumOfNegatives
<1> QED
  BY <1>1, <1>2
=============================================================================
