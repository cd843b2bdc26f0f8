---------------------------- MODULE LedgerProofs ----------------------------
(***************************************************************************)
(* Theorems about Ledger: types, who shares in what is stored, that it is  *)
(* what was asked for, how shares and balances add up, and what clients    *)
(* see when all announcements are out.                                     *)
(***************************************************************************)
EXTENDS Ledger, SumProofs

-----------------------------------------------------------------------------
(* The arithmetic of int64s, of which a float's conversion yields one.      *)

LEMMA Width ==
  /\ Modulus \in Nat \ {0} /\ Modulus \div 2 \in Nat /\ Modulus = 2 * (Modulus \div 2)
  /\ Modulus \div 2 > 10000
  <1> QED BY SplitsAssumption

\* What wraps around is an int64 that differs by a multiple of Modulus,
LEMMA WrapIsInt64 ==
  ASSUME NEW n \in Int
  PROVE  /\ Wrap(n) \in Int64
         /\ \E k \in Int : Wrap(n) = n + k * Modulus
  <1> DEFINE H == Modulus \div 2
             q == (n + H) \div Modulus
             r == (n + H) % Modulus
  <1>1. H \in Nat /\ Modulus = 2 * H /\ Modulus \in Nat \ {0}
    BY Width
  <1>2. n + H \in Int
    BY <1>1
  <1>3. q \in Int /\ r \in 0 .. Modulus - 1 /\ n + H = Modulus * q + r
    BY <1>1, <1>2
  <1>4. Wrap(n) = r - H
    BY DEF Wrap
  <1> HIDE DEF q, r, H
  <1>5. Wrap(n) = n + (-q) * Modulus
    BY <1>1, <1>3, <1>4
  <1>6. r - H \in -H .. H - 1
    BY <1>1, <1>3
  <1> QED BY <1>3, <1>4, <1>5, <1>6 DEF Int64, H

\* and there is one of those only.
LEMMA WrapIsUnique ==
  ASSUME NEW n \in Int64, NEW k \in Int
  PROVE  Wrap(n + k * Modulus) = n
  <1> DEFINE H == Modulus \div 2
             m == n + k * Modulus + H
  <1>1. H \in Nat /\ Modulus = 2 * H /\ Modulus \in Nat \ {0}
    BY Width
  <1>2. n + H \in 0 .. Modulus - 1 /\ n \in Int
    BY <1>1 DEF Int64
  <1>3. m = Modulus * k + (n + H) /\ m \in Int
    BY <1>1, <1>2
  <1>4. Wrap(n + k * Modulus) = (m % Modulus) - H
    BY DEF Wrap
  <1> HIDE DEF m, H
  <1>5. (m % Modulus) = n + H
    BY <1>1, <1>2, <1>3
  <1> QED BY <1>1, <1>2, <1>4, <1>5

LEMMA WrapSame ==
  ASSUME NEW n \in Int64
  PROVE  Wrap(n) = n
  <1>1. n + 0 * Modulus = n
    BY Width DEF Int64
  <1>2. Wrap(n + 0 * Modulus) = n
    BY WrapIsUnique
  <1> QED BY <1>1, <1>2

\* A sum may wrap around before or after a number is added.
LEMMA WrapTwice ==
  ASSUME NEW m \in Int, NEW n \in Int
  PROVE  Wrap(m + Wrap(n)) = Wrap(m + n)
  <1>1. PICK k \in Int : Wrap(n) = n + k * Modulus
    BY WrapIsInt64
  <1>2. PICK j \in Int : Wrap(m + Wrap(n)) = m + Wrap(n) + j * Modulus
    <2>1. m + Wrap(n) \in Int
      BY WrapIsInt64, Width DEF Int64
    <2> QED BY <2>1, WrapIsInt64
  <1> DEFINE v == Wrap(m + Wrap(n))
  <1>3. v \in Int64
    BY WrapIsInt64, <1>1, Width
  <1>4. m + n = v + (-(j + k)) * Modulus
    BY <1>1, <1>2, Width
  <1> HIDE DEF v
  <1>5. Wrap(v + (-(j + k)) * Modulus) = v
    BY <1>1, <1>2, <1>3, WrapIsUnique
  <1> QED BY <1>4, <1>5 DEF v

LEMMA ToInt64Type ==
  ASSUME NEW n \in Int
  PROVE  /\ ToInt64(n) \in Int64
         /\ n \in Int64 => ToInt64(n) = n
  <1> DEFINE H == Modulus \div 2
  <1>1. H \in Nat /\ H > 10000
    BY Width
  <1>2. TooLarge \in {-H, H - 1}
    BY SplitsAssumption
  <1> HIDE DEF H
  <1>3. -H \in -H .. H - 1 /\ TooLarge \in -H .. H - 1
    BY <1>1, <1>2
  <1>4. n < -H \/ n \in -H .. H - 1 \/ n > H - 1
    BY <1>1
  <1>5. ~(n \in -H .. H - 1 /\ (n < -H \/ n > H - 1))
    BY <1>1
  <1> QED BY <1>3, <1>4, <1>5 DEF ToInt64, Int64, H

\* Rounding is off by half a unit at most.
LEMMA RoundDivError ==
  ASSUME NEW n \in Int, NEW d \in Nat \ {0}
  PROVE  /\ RoundDiv(n, d) \in Int
         /\ -d <= 2 * (d * RoundDiv(n, d) - n) /\ 2 * (d * RoundDiv(n, d) - n) <= d
  <1>1. ASSUME NEW m \in Int
        PROVE  /\ (2 * m + d) \div (2 * d) \in Int
               /\ 2 * d * ((2 * m + d) \div (2 * d)) <= 2 * m + d
               /\ 2 * m + d < 2 * d * ((2 * m + d) \div (2 * d)) + 2 * d
    <2> DEFINE a == 2 * m + d
               b == 2 * d
    <2>1. a \in Int /\ b \in Nat \ {0}
      OBVIOUS
    <2> HIDE DEF a, b
    <2>2. a \div b \in Int /\ (a % b) \in 0 .. b - 1 /\ a = b * (a \div b) + (a % b)
      BY <2>1
    <2>3. b * (a \div b) <= a /\ a < b * (a \div b) + b
      BY <2>1, <2>2
    <2> QED BY <2>2, <2>3 DEF a, b
  <1>2. CASE n >= 0
    <2> DEFINE r == (2 * n + d) \div (2 * d)
    <2>1. RoundDiv(n, d) = r
      BY <1>2 DEF RoundDiv
    <2>2. r \in Int /\ 2 * d * r <= 2 * n + d /\ 2 * n + d < 2 * d * r + 2 * d
      BY <1>1
    <2> HIDE DEF r
    <2>3. d * r \in Int /\ 2 * d * r = 2 * (d * r)
      BY <2>2
    <2> QED BY <2>1, <2>2, <2>3
  <1>3. CASE ~(n >= 0)
    <2> DEFINE r == (2 * (-n) + d) \div (2 * d)
    <2>1. RoundDiv(n, d) = -r
      BY <1>3 DEF RoundDiv
    <2>2. r \in Int /\ 2 * d * r <= 2 * (-n) + d /\ 2 * (-n) + d < 2 * d * r + 2 * d
      <3>1. -n \in Int
        OBVIOUS
      <3> QED BY ONLY <3>1, <1>1
    <2> HIDE DEF r
    <2>3. d * r \in Int /\ 2 * d * r = 2 * (d * r) /\ d * (-r) = -(d * r)
      BY <2>2
    <2> QED BY <2>1, <2>2, <2>3
  <1> QED BY <1>2, <1>3
-----------------------------------------------------------------------------
(* The results of computeSplits.                                            *)

\* What the handler passes on: int64s, for finitely many people.
Converted(in) ==
  /\ in.amount \in Int64 /\ IsFiniteSet(DOMAIN in.splits)
  /\ \A u \in DOMAIN in.splits : in.splits[u] \in Int64

LEMMA Int64IsInt == \A n \in Int64 : n \in Int
  <1> QED BY Width DEF Int64

\* Everybody pays the share, and one pays the remainder too.
LEMMA EqualSharesAddUp ==
  ASSUME NEW a \in Nat, NEW M, IsFiniteSet(M), NEW last \in M
  PROVE  LET s == EqualShares(a, M, last)
             n == Cardinality(M)
         IN /\ DOMAIN s = M /\ n \in Nat \ {0}
            /\ \A u \in M : s[u] \in 0 .. a
            /\ \A u \in M \ {last} : n * s[u] <= a /\ a <= n * s[u] + n
            /\ n * s[last] - a \in 0 .. n * n
            /\ SumFunction(s) = a
  <1> DEFINE s == EqualShares(a, M, last)
             n == Cardinality(M)
             q == a \div n
             r == a % n
  <1>1. n \in Nat \ {0}
    BY FS_CardinalityType, FS_EmptySet
  <1>2. q \in Int /\ r \in 0 .. n - 1 /\ a = n * q + r
    BY <1>1
  <1>3. DOMAIN s = M /\ s[last] = q + r /\ \A u \in M \ {last} : s[u] = q + 0
    BY DEF EqualShares
  <1> HIDE DEF s, n, q, r
  <1>4. q >= 0 /\ n * q >= 0
    <2>1. CASE q < 0
      <3>1. n * q <= n * (-1)
        BY <2>1, <1>1, <1>2
      <3> QED BY <3>1, <1>1, <1>2
    <2> QED BY <2>1, <1>1, <1>2
  <1>5. q <= n * q
    <2>1. n - 1 \in Nat /\ q \in Nat
      BY <1>1, <1>2, <1>4
    <2>2. (n - 1) * q \in Nat
      BY <2>1
    <2>3. n * q = (n - 1) * q + q
      BY <1>1, <1>2
    <2> QED BY <1>2, <2>2, <2>3
  <1>6. q + r \in 0 .. a /\ q \in 0 .. a
    BY <1>1, <1>2, <1>4, <1>5
  <1>7. n * (q + r) = n * q + n * r /\ n * r >= r /\ n * r <= n * n
    BY <1>1, <1>2
  <1>8. n * s[last] - a \in 0 .. n * n
    BY <1>1, <1>2, <1>3, <1>7
  <1>9. SumFunctionOnSet(s, M) = s[last] + SumFunctionOnSet(s, M \ {last})
    BY <1>2, <1>3, SumWithout
  <1>10. Cardinality(M \ {last}) = n - 1 /\ IsFiniteSet(M \ {last})
    BY FS_RemoveElement DEF n
  <1>11. SumFunctionOnSet(s, M \ {last}) = (n - 1) * q
    BY <1>2, <1>3, <1>10, SumOfConstant
  <1>12. (n - 1) * q + (q + r) = a
    <2>1. (n - 1) * q = n * q - q
      BY <1>1, <1>2
    <2> QED BY <2>1, <1>1, <1>2
  <1>13. SumFunction(s) = a
    <2>1. (n - 1) * q \in Int
      BY <1>1, <1>2
    <2> QED BY <2>1, <1>2, <1>3, <1>9, <1>11, <1>12 DEF SumFunction
  <1>14. \A u \in M : s[u] \in 0 .. a
    BY <1>2, <1>3, <1>6
  <1>15. \A u \in M \ {last} : n * s[u] <= a /\ a <= n * s[u] + n
    BY <1>1, <1>2, <1>3
  <1> QED BY <1>1, <1>3, <1>8, <1>13, <1>14, <1>15 DEF s, n

\* One of finitely many percentages is the largest.
LEMMA SomeLargest ==
  ASSUME NEW bp, IsFiniteSet(DOMAIN bp), DOMAIN bp # {},
         \A u \in DOMAIN bp : bp[u] \in Int64
  PROVE  Largest(bp) # {}
  <1> DEFINE D == DOMAIN bp
             T == {U \in SUBSET D : U # {} => \E u \in U : \A v \in U : bp[v] <= bp[u]}
  <1>0. \A u \in D : bp[u] \in Int
    BY Int64IsInt
  <1>1. {} \in T
    OBVIOUS
  <1>2. ASSUME NEW U \in SUBSET D, NEW x \in D \ U, U \in T PROVE U \cup {x} \in T
    <2>1. CASE U = {}
      BY <1>0, <2>1
    <2>2. CASE U # {}
      <3>1. PICK u \in U : \A v \in U : bp[v] <= bp[u]
        BY <1>2, <2>2
      <3>2. CASE bp[u] <= bp[x]
        <4>1. \A v \in U \cup {x} : bp[v] <= bp[x]
          BY <1>0, <3>1, <3>2
        <4> QED BY <4>1
      <3>3. CASE bp[x] <= bp[u]
        BY <3>1, <3>3
      <3> QED BY <1>0, <3>2, <3>3
    <2> QED BY <2>1, <2>2
  <1>3. D \in T
    BY ONLY <1>1, <1>2, ElementsInduction, IsFiniteSet(D)
  <1> QED BY <1>3 DEF Largest

LEMMA RoundedType ==
  ASSUME NEW a \in Int64, NEW bp, \A u \in DOMAIN bp : bp[u] \in Int64
  PROVE  /\ DOMAIN Rounded(a, bp) = DOMAIN bp
         /\ \A u \in DOMAIN bp : /\ Rounded(a, bp)[u] \in Int64
                                 /\ Rounded(a, bp)[u] = ToInt64(RoundDiv(a * bp[u], 10000))
  <1>1. ASSUME NEW u \in DOMAIN bp
        PROVE  ToInt64(RoundDiv(a * bp[u], 10000)) \in Int64
    <2>1. a \in Int /\ bp[u] \in Int
      BY Int64IsInt
    <2>3. a * bp[u] \in Int
      BY <2>1
    <2>2. RoundDiv(a * bp[u], 10000) \in Int
      BY <2>3, RoundDivError
    <2> QED BY <2>2, ToInt64Type
  <1> QED BY <1>1 DEF Rounded

\* All but one pay what is rounded, and that one pays the rest.
LEMMA PercentageForm ==
  ASSUME NEW a \in Int64, NEW bp, IsFiniteSet(DOMAIN bp),
         \A u \in DOMAIN bp : bp[u] \in Int64, NEW top \in DOMAIN bp
  PROVE  LET s == PercentageShares(a, bp, top)
             R == Rounded(a, bp)
             Rest == SumFunctionOnSet(R, DOMAIN bp \ {top})
         IN /\ DOMAIN s = DOMAIN bp /\ Rest \in Int
            /\ \A u \in DOMAIN bp \ {top} : s[u] = R[u]
            /\ s[top] = Wrap(a - Rest)
            /\ SumFunction(s) = s[top] + Rest
            /\ Wrap(SumFunction(s)) = a
            /\ \A u \in DOMAIN bp : s[u] \in Int64
  <1> DEFINE s == PercentageShares(a, bp, top)
             R == Rounded(a, bp)
             D == DOMAIN bp
             Rest == SumFunctionOnSet(R, D \ {top})
  <1>1. DOMAIN R = D /\ \A u \in D : R[u] \in Int64 /\ R[u] \in Int
    <2>1. DOMAIN R = D /\ \A u \in D : R[u] \in Int64
      BY RoundedType
    <2> HIDE DEF R, D
    <2> QED BY <2>1, Int64IsInt
  <1>2. SumFunction(R) = R[top] + Rest
    BY <1>1, SumWithout DEF SumFunction
  <1>3. Rest \in Int /\ IsFiniteSet(D \ {top})
    BY <1>1, SumInt, FS_Subset
  <1>4. /\ DOMAIN s = D /\ s[top] = Wrap(R[top] + a - SumFunction(R))
        /\ \A u \in D \ {top} : s[u] = R[u]
    BY <1>1 DEF PercentageShares
  <1> HIDE DEF s, R, Rest
  <1>0. a \in Int
    BY Int64IsInt
  <1>5. s[top] = Wrap(a - Rest)
    <2>1. R[top] + a - SumFunction(R) = a - Rest
      BY <1>0, <1>1, <1>2, <1>3
    <2> QED BY <1>4, <2>1
  <1>6. s[top] \in Int64
    BY <1>0, <1>3, <1>5, WrapIsInt64
  <1>7. \A u \in D : s[u] \in Int64 /\ s[u] \in Int
    BY <1>1, <1>4, <1>6, Int64IsInt
  <1>8. SumFunctionOnSet(s, D \ {top}) = Rest
    BY <1>3, <1>4, SumOfSame DEF Rest
  <1>9. SumFunction(s) = s[top] + Rest
    BY <1>4, <1>7, <1>8, SumWithout DEF SumFunction
  <1>10. Wrap(SumFunction(s)) = a
    <2>1. SumFunction(s) = Rest + Wrap(a - Rest)
      BY <1>3, <1>5, <1>6, <1>7, <1>9
    <2>2. Wrap(Rest + Wrap(a - Rest)) = Wrap(Rest + (a - Rest))
      BY <1>0, <1>3, WrapTwice
    <2>3. Rest + (a - Rest) = a
      BY <1>0, <1>3
    <2> QED BY <2>1, <2>2, <2>3, WrapSame
  <1> QED BY <1>3, <1>4, <1>5, <1>7, <1>9, <1>10 DEF s, R, Rest

\* Whatever the method, the shares are int64s that add up to the amount in the
\* arithmetic of int64s.
LEMMA SharesSum ==
  ASSUME NEW in, Converted(in), in.amount > 0, NEW M \in SUBSET Users,
         NEW s \in Shares(in, M)
  PROVE  /\ IsFiniteSet(DOMAIN s) /\ \A u \in DOMAIN s : s[u] \in Int64
         /\ Wrap(SumFunction(s)) = in.amount
         /\ in.method = "equal" => SumFunction(s) = in.amount
  <1> DEFINE a == in.amount
             bp == in.splits
  <1>0. a \in Nat /\ a \in Int64
    <2>1. a \in Int64
      BY DEF Converted
    <2>2. a \in Int
      BY <2>1, Int64IsInt
    <2> QED BY <2>1, <2>2
  <1>1. CASE in.method = "equal"
    <2>1. PICK last \in M : s = EqualShares(in.amount, M, last)
      BY <1>1 DEF Shares
    <2>2. IsFiniteSet(M)
      BY LedgerAssumption, FS_Subset
    <2>3. /\ DOMAIN s = M /\ \A u \in M : s[u] \in 0 .. in.amount
          /\ SumFunction(s) = in.amount
      BY <1>0, <2>1, <2>2, EqualSharesAddUp
    <2>4. \A u \in M : s[u] \in Int64
      BY <1>0, <2>3, Width DEF Int64
    <2> QED BY <1>0, <2>2, <2>3, <2>4, WrapSame
  <1>2. CASE in.method = "exact"
    <2>1. s = in.splits /\ Wrap(SumFunction(s)) = in.amount
      BY <1>2 DEF Shares
    <2> QED BY <1>2, <2>1 DEF Converted
  <1>3. CASE in.method = "percentage"
    <2>1. PICK top \in Largest(in.splits) : s = PercentageShares(in.amount, in.splits, top)
      BY <1>3 DEF Shares
    <2>2. top \in DOMAIN in.splits
      BY DEF Largest
    <2>3. IsFiniteSet(DOMAIN bp) /\ \A u \in DOMAIN bp : bp[u] \in Int64
      BY DEF Converted
    <2>4. s = PercentageShares(a, bp, top) /\ top \in DOMAIN bp
      BY <2>1, <2>2
    <2> HIDE DEF a, bp
    <2>5. /\ DOMAIN s = DOMAIN bp /\ \A u \in DOMAIN bp : s[u] \in Int64
          /\ Wrap(SumFunction(s)) = a
      BY <1>0, <2>3, <2>4, PercentageForm
    <2> QED BY <1>3, <2>3, <2>5 DEF a
  <1>4. in.method \in {"equal", "exact", "percentage"}
    BY DEF Shares
  <1> QED BY <1>1, <1>2, <1>3, <1>4
\* The largest of n percentages is at least a hundred n-th.
LEMMA LargestPercentage ==
  ASSUME NEW bp, IsFiniteSet(DOMAIN bp), \A u \in DOMAIN bp : bp[u] \in Int,
         SumFunction(bp) = 10000, NEW top \in Largest(bp)
  PROVE  /\ top \in DOMAIN bp /\ Cardinality(DOMAIN bp) \in Nat \ {0}
         /\ Cardinality(DOMAIN bp) * bp[top] >= 10000 /\ bp[top] > 0
  <1> DEFINE D == DOMAIN bp
             n == Cardinality(D)
             k == bp[top]
             same == [u \in D |-> k]
  <1>1. top \in D /\ \A u \in D : bp[u] <= k
    BY DEF Largest
  <1>2. n \in Nat \ {0}
    BY <1>1, FS_CardinalityType, FS_EmptySet
  <1>3. k \in Int /\ \A u \in D : same[u] = k
    BY <1>1
  <1> HIDE DEF n, k, same
  <1>4. SumFunctionOnSet(bp, D) <= SumFunctionOnSet(same, D)
    BY <1>1, <1>3, SumOfLarger
  <1>5. SumFunctionOnSet(same, D) = n * k
    BY <1>3, SumOfConstant DEF n
  <1>6. n * k >= 10000
    BY <1>2, <1>3, <1>4, <1>5 DEF SumFunction
  <1>7. k > 0
    <2>1. CASE k <= 0
      <3>1. n * k <= 0
        BY <2>1, <1>2, <1>3
      <3> QED BY <3>1, <1>6, <1>2, <1>3
    <2> QED BY <2>1, <1>3
  <1> QED BY <1>1, <1>2, <1>6, <1>7 DEF n, k

\* A share that is not too large for an int64 is off by half a unit at most,
LEMMA ShareError ==
  ASSUME NEW a \in Int64, NEW bp, \A u \in DOMAIN bp : bp[u] \in Int64,
         NEW u \in DOMAIN bp, RoundDiv(a * bp[u], 10000) \in Int64
  PROVE  LET R == Rounded(a, bp)
         IN /\ R[u] \in Int /\ a * bp[u] \in Int
            /\ -10000 <= 2 * (10000 * R[u] - a * bp[u])
            /\ 2 * (10000 * R[u] - a * bp[u]) <= 10000
  <1> DEFINE R == Rounded(a, bp)
  <1>1. R[u] = ToInt64(RoundDiv(a * bp[u], 10000))
    BY RoundedType
  <1>2. a \in Int /\ bp[u] \in Int
    BY Int64IsInt
  <1>3. a * bp[u] \in Int
    BY <1>2
  <1>4. RoundDiv(a * bp[u], 10000) \in Int
    BY <1>3, RoundDivError
  <1>5. R[u] = RoundDiv(a * bp[u], 10000)
    BY <1>1, <1>4, ToInt64Type
  <1> QED BY <1>3, <1>4, <1>5, RoundDivError

\* and so, if none but the largest is, the others are by as many halves.
LEMMA RestError ==
  ASSUME NEW a \in Int64, NEW bp, IsFiniteSet(DOMAIN bp),
         \A u \in DOMAIN bp : bp[u] \in Int64, SumFunction(bp) = 10000,
         NEW top \in DOMAIN bp,
         \A u \in DOMAIN bp \ {top} : RoundDiv(a * bp[u], 10000) \in Int64
  PROVE  LET R == Rounded(a, bp)
             Rest == SumFunctionOnSet(R, DOMAIN bp \ {top})
             n == Cardinality(DOMAIN bp)
             Error == 2 * (10000 * Rest - a * (10000 - bp[top]))
         IN /\ Rest \in Int /\ n \in Nat \ {0}
            /\ (n - 1) * (-10000) <= Error /\ Error <= (n - 1) * 10000
  <1> DEFINE R == Rounded(a, bp)
             D == DOMAIN bp
             O == D \ {top}
             n == Cardinality(D)
             Rest == SumFunctionOnSet(R, O)
             due == [u \in O |-> a * bp[u]]
             paid == [u \in O |-> 10000 * R[u]]
             half == [u \in O |-> paid[u] - due[u]]
             error == [u \in O |-> 2 * half[u]]
             low == [u \in O |-> -10000]
             high == [u \in O |-> 10000]
  <1>1. a \in Int /\ \A u \in D : bp[u] \in Int
    BY Int64IsInt
  <1>2. IsFiniteSet(O) /\ n \in Nat \ {0} /\ Cardinality(O) = n - 1
    BY FS_Subset, FS_RemoveElement, FS_CardinalityType, FS_EmptySet
  <1>3. ASSUME NEW u \in O
        PROVE  /\ R[u] \in Int /\ a * bp[u] \in Int
               /\ -10000 <= 2 * (10000 * R[u] - a * bp[u])
               /\ 2 * (10000 * R[u] - a * bp[u]) <= 10000
    BY ShareError
  <1> HIDE DEF R, n, Rest
  <1>4. \A u \in O : /\ due[u] = a * bp[u] /\ due[u] \in Int
                    /\ paid[u] = 10000 * R[u] /\ paid[u] \in Int
                    /\ half[u] = paid[u] - due[u] /\ half[u] \in Int
                    /\ error[u] = 2 * half[u] /\ error[u] \in Int
                    /\ low[u] = -10000 /\ low[u] \in Int /\ low[u] <= error[u]
                    /\ high[u] = 10000 /\ high[u] \in Int /\ error[u] <= high[u]
    BY <1>3
  <1> HIDE DEF due, paid, half, error, low, high
  <1>5. SumFunctionOnSet(bp, O) = 10000 - bp[top]
    <2>1. SumFunctionOnSet(bp, D) = bp[top] + SumFunctionOnSet(bp, O)
      BY <1>1, SumWithout
    <2>2. SumFunctionOnSet(bp, O) \in Int /\ bp[top] \in Int
      BY <1>1, <1>2, SumInt
    <2> QED BY <2>1, <2>2 DEF SumFunction
  <1>6. SumFunctionOnSet(due, O) = a * (10000 - bp[top])
    BY <1>1, <1>2, <1>4, <1>5, SumOfTimes
  <1>7. Rest \in Int /\ SumFunctionOnSet(paid, O) = 10000 * Rest
    BY <1>2, <1>3, <1>4, SumOfTimes, SumInt DEF Rest
  <1>8. SumFunctionOnSet(half, O) = 10000 * Rest - a * (10000 - bp[top])
    BY <1>2, <1>4, <1>6, <1>7, SumOfMinus
  <1>9. SumFunctionOnSet(error, O) = 2 * (10000 * Rest - a * (10000 - bp[top]))
    BY <1>2, <1>4, <1>8, SumOfTimes
  <1>10. SumFunctionOnSet(low, O) = (n - 1) * (-10000)
    BY <1>2, <1>4, SumOfConstant
  <1>11. SumFunctionOnSet(high, O) = (n - 1) * 10000
    BY <1>2, <1>4, SumOfConstant
  <1>12. /\ SumFunctionOnSet(low, O) <= SumFunctionOnSet(error, O)
         /\ SumFunctionOnSet(error, O) <= SumFunctionOnSet(high, O)
    BY <1>2, <1>4, SumOfLarger
  <1> QED BY <1>2, <1>3, <1>7, <1>9, <1>10, <1>11, <1>12 DEF R, n, Rest

\* Percentages of enough money give nobody a negative share.
LEMMA PercentagesSuffice ==
  ASSUME NEW a \in Int64, a > 0, NEW bp, IsFiniteSet(DOMAIN bp),
         \A u \in DOMAIN bp : bp[u] \in Int64 /\ bp[u] >= 0,
         SumFunction(bp) = 10000, NEW top \in Largest(bp),
         2 * a >= Cardinality(DOMAIN bp) * (Cardinality(DOMAIN bp) + 1)
  PROVE  \A u \in DOMAIN bp : PercentageShares(a, bp, top)[u] >= 0
  <1> DEFINE s == PercentageShares(a, bp, top)
             R == Rounded(a, bp)
             D == DOMAIN bp
             n == Cardinality(D)
             k == bp[top]
             Rest == SumFunctionOnSet(R, D \ {top})
  <1>1. a \in Int /\ \A u \in D : bp[u] \in Int /\ bp[u] >= 0 /\ bp[u] \in Int64
    <2>1. \A u \in D : bp[u] \in Int64 /\ bp[u] >= 0
      OBVIOUS
    <2> QED BY <2>1, Int64IsInt
  <1>2. top \in D /\ n \in Nat \ {0} /\ n * k >= 10000 /\ k > 0
    BY <1>1, LargestPercentage
  <1>3. ASSUME NEW u \in D
        PROVE  RoundDiv(a * bp[u], 10000) \in Int64 /\ R[u] >= 0
    <2> DEFINE b == bp[u]
               r == RoundDiv(a * b, 10000)
    <2>1. b \in Int /\ b >= 0 /\ b <= 10000
      BY <1>1, SumOfNats DEF SumFunction
    <2> HIDE DEF b
    <2>2. a * b \in Int /\ a * b >= 0 /\ a * b <= a * 10000
      BY <1>1, <2>1
    <2>3. r \in Int /\ -10000 <= 2 * (10000 * r - a * b) /\ 2 * (10000 * r - a * b) <= 10000
      BY <2>2, RoundDivError
    <2> HIDE DEF r
    <2>4. 0 <= r /\ r <= a
      BY <2>2, <2>3, <1>1
    <2>5. r \in Int64
      BY <2>3, <2>4, Width DEF Int64
    <2>6. R[u] = r
      <3>1. R[u] = ToInt64(r)
        BY <1>1, RoundedType DEF r, b
      <3> QED BY <3>1, <2>3, <2>5, ToInt64Type
    <2> QED BY <2>4, <2>5, <2>6 DEF r, b
  <1>4. /\ Rest \in Int /\ \A u \in D \ {top} : s[u] = R[u]
        /\ s[top] = Wrap(a - Rest)
    <2>1. \A u \in DOMAIN bp : bp[u] \in Int64
      OBVIOUS
    <2>2. top \in DOMAIN bp /\ a \in Int64 /\ IsFiniteSet(DOMAIN bp)
      BY <1>2
    <2> QED BY ONLY <2>1, <2>2, PercentageForm
  <1>5. 2 * (10000 * Rest - a * (10000 - k)) <= (n - 1) * 10000
    <2>1. \A u \in DOMAIN bp : bp[u] \in Int64
      OBVIOUS
    <2>2. \A u \in DOMAIN bp \ {top} : RoundDiv(a * bp[u], 10000) \in Int64
      BY <1>3
    <2> QED BY ONLY <1>2, <2>1, <2>2, a \in Int64, IsFiniteSet(DOMAIN bp),
                    SumFunction(bp) = 10000, RestError
  <1>6. Rest >= 0
    <2>1. IsFiniteSet(D \ {top}) /\ \A u \in D \ {top} : R[u] \in Int /\ R[u] >= 0
      <3>1. \A u \in D : R[u] \in Int64
        BY <1>1, RoundedType
      <3>2. IsFiniteSet(D \ {top})
        BY FS_Subset
      <3> HIDE DEF R, D
      <3> QED BY <3>1, <3>2, <1>3, Int64IsInt
    <2> HIDE DEF R
    <2> QED BY <2>1, SumOfNats
  <1>7. k \in Int /\ 2 * a >= n * (n + 1)
    BY <1>1, <1>2
  <1> HIDE DEF s, R, D, n, k, Rest
  <1>8. a - Rest >= 0
    <2> DEFINE x == a - Rest
    <2>1. x \in Int /\ 20000 * x >= 2 * (a * k) - 10000 * (n - 1)
      <3>1. a * (10000 - k) = 10000 * a - a * k /\ a * k \in Int
        BY <1>1, <1>7
      <3> QED BY <3>1, <1>1, <1>2, <1>4, <1>5
    <2> HIDE DEF x
    <2>2. CASE x < 0
      <3>1. 2 * (a * k) - 10000 * (n - 1) < 0
        BY <2>1, <2>2, <1>1, <1>2, <1>7
      <3>2. n * (2 * (a * k) - 10000 * (n - 1)) <= 0
        <4> DEFINE y == 2 * (a * k) - 10000 * (n - 1)
        <4>1. y \in Int /\ y < 0
          BY <3>1, <1>1, <1>2, <1>7
        <4> HIDE DEF y
        <4>2. n * y <= 0
          BY <4>1, <1>2
        <4> QED BY <4>2 DEF y
      <3>3. n * (2 * (a * k) - 10000 * (n - 1)) = 2 * (a * (n * k)) - 10000 * (n * (n - 1))
        BY <1>1, <1>2, <1>7
      <3>4. a * (n * k) >= a * 10000
        <4> DEFINE y == n * k
        <4>1. y \in Int /\ y >= 10000
          BY <1>2, <1>7
        <4> HIDE DEF y
        <4>2. a * y >= a * 10000
          BY <4>1, <1>1
        <4> QED BY <4>2 DEF y
      <3>5. n * (n + 1) = n * n + n /\ n * (n - 1) = n * n - n /\ n * n \in Int
        BY <1>2
      <3> QED BY <3>2, <3>3, <3>4, <3>5, <1>1, <1>2, <1>7
    <2> QED BY <2>1, <2>2 DEF x
  <1>9. Wrap(a - Rest) = a - Rest
    <2>1. a - Rest \in Int64
      BY <1>1, <1>4, <1>6, <1>8, Width DEF Int64
    <2> QED BY <2>1, WrapSame
  <1>10. \A u \in D : s[u] >= 0
    BY <1>3, <1>4, <1>8, <1>9
  <1> QED BY <1>10 DEF s, D

\* If percentages add up to 100 and nobody's share is negative, no share but
\* the largest was too large for an int64.
LEMMA OthersFit ==
  ASSUME NEW a \in Int64, a > 0, NEW bp, IsFiniteSet(DOMAIN bp),
         \A u \in DOMAIN bp : bp[u] \in Int64, SumFunction(bp) = 10000,
         NEW top \in Largest(bp), Cardinality(DOMAIN bp) < Modulus \div 2,
         \A u \in DOMAIN bp \ {top} : Rounded(a, bp)[u] >= 0
  PROVE  \A u \in DOMAIN bp \ {top} : RoundDiv(a * bp[u], 10000) \in Int64
  <1> DEFINE D == DOMAIN bp
             n == Cardinality(D)
             H == Modulus \div 2
             due == [u \in D |-> a * bp[u]]
             Round(u) == RoundDiv(a * bp[u], 10000)
  <1>0. H \in Nat /\ H > 10000 /\ a \in 1 .. H - 1
    BY Width DEF Int64
  <1>1. a \in Int /\ \A u \in D : bp[u] \in Int
    BY Int64IsInt
  <1>2. /\ top \in D /\ n \in Nat \ {0} /\ n < H
        /\ \A u \in D : bp[u] <= bp[top]
    BY <1>1, LargestPercentage DEF Largest
  <1>3. \A u \in D : /\ due[u] = a * bp[u] /\ due[u] \in Int
    BY <1>1
  <1>4. \A u \in D : due[u] <= due[top]
    <2> TAKE u \in D
    <2> DEFINE k == bp[u]
               l == bp[top]
    <2>1. k \in Int /\ l \in Int /\ k <= l
      BY <1>1, <1>2
    <2> HIDE DEF k, l
    <2>2. a * k <= a * l
      BY <2>1, <1>0
    <2> QED BY <2>2, <1>2 DEF k, l
  <1>5. \A u \in D : /\ Round(u) \in Int
                    /\ 2 * (10000 * Round(u) - due[u]) <= 10000
    BY <1>3, RoundDivError
  <1>6. ASSUME NEW u \in D \ {top}
        PROVE  Round(u) >= 0
    <2>1. Rounded(a, bp)[u] = ToInt64(Round(u)) /\ ToInt64(Round(u)) >= 0
      BY RoundedType
    <2>2. Round(u) \in Int
      BY <1>5
    <2> HIDE DEF Round
    <2>3. CASE Round(u) < -H
      BY <2>1, <2>2, <2>3, <1>0 DEF ToInt64, Int64, H
    <2>4. CASE Round(u) \in -H .. H - 1
      <3>1. ToInt64(Round(u)) = Round(u)
        BY <2>2, <2>4, ToInt64Type DEF Int64, H
      <3> QED BY <3>1, <2>1
    <2>5. CASE Round(u) > H - 1
      BY <2>5, <2>2, <1>0
    <2> HIDE DEF H
    <2> QED BY <2>2, <2>3, <2>4, <2>5, <1>0
  <1> HIDE DEF due, Round, H, n
  <1>7. \A u \in D \ {top} : due[u] >= -5000
    BY <1>3, <1>5, <1>6
  <1>8. SumFunctionOnSet(due, D) = a * 10000
    <2>1. SumFunctionOnSet(bp, D) = 10000
      BY DEF SumFunction
    <2>2. \A u \in D : bp[u] \in Int /\ due[u] = a * bp[u]
      BY <1>1, <1>3
    <2>3. IsFiniteSet(D)
      OBVIOUS
    <2> HIDE DEF D
    <2>4. SumFunctionOnSet(due, D) = a * SumFunctionOnSet(bp, D)
      BY ONLY <1>1, <2>2, <2>3, SumOfTimes
    <2> QED BY <2>1, <2>4
  <1>9. ASSUME NEW u \in D \ {top}, Round(u) > H - 1 PROVE FALSE
    <2> DEFINE O == D \ {top}
               Q == O \ {u}
               low == [v \in Q |-> -5000]
    <2>1. due[u] >= 10000 * H - 5000
      BY <1>0, <1>3, <1>5, <1>9
    <2>2. due[top] >= due[u]
      BY <1>4
    <2>3. /\ IsFiniteSet(O) /\ IsFiniteSet(Q) /\ Cardinality(Q) = n - 2
      <3>1. IsFiniteSet(D) /\ top \in D /\ u \in O
        BY <1>2
      <3>2. IsFiniteSet(O) /\ Cardinality(O) = n - 1
        BY <3>1, FS_RemoveElement DEF n
      <3> HIDE DEF O
      <3>3. IsFiniteSet(Q) /\ Cardinality(Q) = n - 1 - 1
        BY <3>1, <3>2, FS_RemoveElement
      <3> QED BY <3>2, <3>3, <1>2
    <2>4. SumFunctionOnSet(due, D) = due[top] + SumFunctionOnSet(due, O)
      BY <1>2, <1>3, SumWithout
    <2>5. SumFunctionOnSet(due, O) = due[u] + SumFunctionOnSet(due, Q)
      BY <2>3, <1>3, SumWithout
    <2>6. /\ \A v \in Q : low[v] = -5000 /\ low[v] \in Int /\ due[v] \in Int /\ low[v] <= due[v]
      BY <1>3, <1>7
    <2> HIDE DEF low, O, Q
    <2>7. SumFunctionOnSet(low, Q) = (n - 2) * (-5000)
      BY <2>3, <2>6, SumOfConstant
    <2>8. /\ SumFunctionOnSet(low, Q) <= SumFunctionOnSet(due, Q)
          /\ SumFunctionOnSet(due, Q) \in Int
      BY <2>3, <2>6, SumOfLarger, SumInt
    <2>9. due[u] \in Int /\ due[top] \in Int
      BY <1>2, <1>3
    <2> QED BY <2>1, <2>2, <2>4, <2>5, <2>7, <2>8, <2>9, <1>0, <1>2, <1>8
  <1>10. \A u \in D \ {top} : Round(u) \in 0 .. H - 1
    BY <1>0, <1>5, <1>6, <1>9
  <1>11. \A u \in D \ {top} : Round(u) \in Int64
    BY <1>0, <1>10 DEF Int64, H
  <1> QED BY <1>11 DEF Round

\* Then every share is off by half a unit at most, but for the largest one, off
\* by as many halves as there are others.
LEMMA FairPercentages ==
  ASSUME NEW a \in Int64, a > 0, NEW bp, IsFiniteSet(DOMAIN bp),
         \A u \in DOMAIN bp : bp[u] \in Int64, SumFunction(bp) = 10000,
         NEW top \in Largest(bp), Cardinality(DOMAIN bp) < Modulus \div 2,
         \A u \in DOMAIN bp : PercentageShares(a, bp, top)[u] >= 0
  PROVE  LET s == PercentageShares(a, bp, top)
             n == Cardinality(DOMAIN bp)
         IN /\ top \in DOMAIN bp /\ n \in Nat \ {0}
            /\ \A u \in DOMAIN bp \ {top} :
                 /\ -10000 <= 2 * (10000 * s[u] - a * bp[u])
                 /\ 2 * (10000 * s[u] - a * bp[u]) <= 10000
            /\ -n * 10000 <= 2 * (10000 * s[top] - a * bp[top])
            /\ 2 * (10000 * s[top] - a * bp[top]) <= n * 10000
  <1> DEFINE s == PercentageShares(a, bp, top)
             R == Rounded(a, bp)
             D == DOMAIN bp
             n == Cardinality(D)
             k == bp[top]
             H == Modulus \div 2
             Rest == SumFunctionOnSet(R, D \ {top})
             Error == 2 * (10000 * Rest - a * (10000 - k))
  <1>0. H \in Nat /\ H > 10000 /\ a \in 1 .. H - 1
    BY Width DEF Int64
  <1>1. a \in Int /\ \A u \in D : bp[u] \in Int
    BY Int64IsInt
  <1>2. top \in D /\ n \in Nat \ {0} /\ k > 0 /\ k \in Int /\ n < H
    BY <1>1, LargestPercentage
  <1>3. /\ Rest \in Int /\ \A u \in D \ {top} : s[u] = R[u]
        /\ s[top] = Wrap(a - Rest)
    <2>1. \A u \in DOMAIN bp : bp[u] \in Int64
      OBVIOUS
    <2>2. top \in DOMAIN bp /\ a \in Int64 /\ IsFiniteSet(DOMAIN bp)
      BY <1>2
    <2> QED BY ONLY <2>1, <2>2, PercentageForm
  <1>4. \A u \in D \ {top} : R[u] >= 0
    BY <1>3
  <1>5. \A u \in D \ {top} : RoundDiv(a * bp[u], 10000) \in Int64
    BY <1>4, OthersFit
  <1>6. /\ \A u \in D \ {top} : /\ -10000 <= 2 * (10000 * R[u] - a * bp[u])
                                /\ 2 * (10000 * R[u] - a * bp[u]) <= 10000
        /\ (n - 1) * (-10000) <= Error /\ Error <= (n - 1) * 10000
    <2>1. \A u \in DOMAIN bp : bp[u] \in Int64
      OBVIOUS
    <2>2. top \in DOMAIN bp /\ a \in Int64 /\ IsFiniteSet(DOMAIN bp)
      BY <1>2
    <2>3. \A u \in D \ {top} : /\ -10000 <= 2 * (10000 * R[u] - a * bp[u])
                                /\ 2 * (10000 * R[u] - a * bp[u]) <= 10000
      BY <1>5, ShareError
    <2>4. (n - 1) * (-10000) <= Error /\ Error <= (n - 1) * 10000
      BY ONLY <1>5, <2>1, <2>2, SumFunction(bp) = 10000, RestError
    <2> QED BY <2>3, <2>4
  <1>7. Rest >= 0
    <2>1. \A u \in D : R[u] \in Int64
      BY RoundedType
    <2>2. IsFiniteSet(D \ {top})
      BY FS_Subset
    <2> HIDE DEF R, D
    <2>3. \A u \in D \ {top} : R[u] \in Int /\ R[u] >= 0
      BY <2>1, <1>4, Int64IsInt
    <2> QED BY <2>2, <2>3, SumOfNats
  <1> HIDE DEF s, R, D, n, k, H, Rest
  <1>8. a * (10000 - k) = 10000 * a - a * k /\ a * k \in Int /\ a * k > 0
    BY <1>0, <1>2
  <1>9. s[top] = a - Rest
    <2>1. a - Rest \in -H .. H - 1
      BY <1>0, <1>2, <1>3, <1>6, <1>7, <1>8
    <2>2. a - Rest \in Int64
      BY <2>1 DEF Int64, H
    <2> QED BY <2>2, <1>3, WrapSame
  <1>10. 2 * (10000 * s[top] - a * k) = -Error
    BY <1>1, <1>3, <1>8, <1>9
  <1>11. Error \in Int
    BY <1>1, <1>3, <1>8
  <1>12. -n * 10000 <= 2 * (10000 * s[top] - a * k) /\ 2 * (10000 * s[top] - a * k) <= n * 10000
    <2> HIDE DEF Error
    <2> QED BY <1>2, <1>6, <1>10, <1>11
  <1> QED BY <1>2, <1>3, <1>6, <1>12 DEF s, R, D, n, k

-----------------------------------------------------------------------------
(* Types.                                                                   *)

\* The amount is an integer until it is stored, and positive once it has been
\* checked.
Amounts ==
  \A w \in Workers :
    /\ step[w] \in Steps \ {"idle", "reply"} =>
         req[w].caller \in Users /\ req[w].input.amount \in Int
    /\ step[w] \in {"getMembers", "create"} => req[w].input.amount > 0

TypeInv == TypeOK /\ Amounts /\ DOMAIN req = Workers /\ DOMAIN shares = Workers

\* A conversion to minor units yields an int64 (expense.go:93-101).
LEMMA MinorIsInt64 ==
  ASSUME NEW h \in Int, NEW c
  PROVE  ToMinor(h, c) \in Int64
  <1>1. MinorUnitFactor(c) \in {1, 100}
    BY DEF MinorUnitFactor
  <1>2. h * MinorUnitFactor(c) \in Int
    BY <1>1
  <1>3. RoundDiv(h * MinorUnitFactor(c), 100) \in Int
    BY <1>2, RoundDivError
  <1> QED BY <1>3, ToInt64Type DEF ToMinor

\* What ends a request keeps the types.
LEMMA IdleType ==
  ASSUME TypeInv, NEW w \in Workers, Idle(w), UNCHANGED <<alive, currency, members, shown, latest>>,
         made' \in 0 .. MaxExpenses, made <= made', DOMAIN expenses' \subseteq 1 .. made',
         \A id \in DOMAIN expenses' :
           /\ expenses'[id].payer \in Users /\ expenses'[id].amount \in Int
           /\ expenses'[id].amount > 0
           /\ DOMAIN expenses'[id].shares \subseteq Users
  PROVE  TypeInv'
  <1>1. /\ step' \in [Workers -> Steps] /\ step'[w] = "idle"
        /\ \A v \in Workers \ {w} : step'[v] = step[v]
    BY DEF Steps, TypeInv, TypeOK, Idle
  <1>2. /\ DOMAIN req' = Workers /\ DOMAIN shares' = Workers
        /\ shares'[w] = <<>>
        /\ \A v \in Workers \ {w} : req'[v] = req[v] /\ shares'[v] = shares[v]
    BY DEF TypeInv, Idle
  <1>3. /\ DOMAIN push' = DOMAIN push
        /\ \A id \in DOMAIN push :
             /\ push'[id].stage = push[id].stage /\ push'[id].list = push[id].list
             /\ push'[id].context = IF push[id].context = w THEN "cancelled" ELSE push[id].context
    BY DEF Idle, Cancelled
  <1>4. Busy' = Busy \ {w}
    BY <1>1 DEF Busy
  <1>5. Amounts'
    BY <1>1, <1>2 DEF TypeInv, Amounts
  <1>6. \A id \in DOMAIN push' :
          /\ push'[id].stage \in {"read", "send", "sent"}
          /\ push'[id].context \in Busy' \cup {"cancelled"}
          /\ DOMAIN push'[id].list \subseteq Users
    BY <1>3, <1>4 DEF TypeInv, TypeOK
  <1>7. /\ \A v \in Busy' : step'[v] # "reply" =>
             req'[v].caller \in Users /\ req'[v].input.amount \in Int
        /\ \A v \in Workers : step'[v] \in Steps \ {"create"} => shares'[v] = <<>>
    BY <1>1, <1>2, <1>4 DEF TypeInv, TypeOK, Busy
  <1>8. DOMAIN push' \subseteq 1 .. made' /\ touched' \in [Workers -> SUBSET Users]
    BY <1>3, <1>4 DEF TypeInv, TypeOK, Idle
  <1> QED BY <1>1, <1>2, <1>3, <1>5, <1>6, <1>7, <1>8 DEF TypeInv, TypeOK

LEMMA EndType ==
  ASSUME TypeInv, NEW w \in Workers, End(w)
  PROVE  TypeInv'
  <1> QED BY IdleType DEF End, tables, TypeInv, TypeOK

\* A request that goes on to its next statement.
LEMMA GotoType ==
  ASSUME TypeInv, NEW w \in Workers, NEW next \in Steps \ {"idle", "reply"},
         step[w] \in {"isMember", "getCurrency", "getMembers", "getBalances"},
         next \in {"getMembers", "create"} => req[w].input.amount > 0,
         Goto(w, next), UNCHANGED req, DOMAIN shares' = Workers,
         \A v \in Workers : v # w \/ next # "create" => shares'[v] = shares[v]
  PROVE  TypeInv'
  <1>1. /\ step' \in [Workers -> Steps] /\ step'[w] = next
        /\ \A v \in Workers \ {w} : step'[v] = step[v]
    BY DEF TypeInv, TypeOK, Goto
  <1>2. Busy' = Busy /\ w \in Busy
    BY <1>1 DEF Busy
  <1>3. Amounts'
    BY <1>1 DEF TypeInv, Amounts, Steps
  <1>4. \A v \in Workers : step'[v] \in Steps \ {"create"} => shares'[v] = <<>>
    BY <1>1 DEF TypeInv, TypeOK, Steps
  <1>5. \A v \in Busy' : step'[v] # "reply" =>
             req'[v].caller \in Users /\ req'[v].input.amount \in Int
    BY <1>1, <1>3 DEF Busy, Amounts, Steps
  <1>6. UNCHANGED <<tables, push, shown, history>>
    BY DEF Goto
  <1> QED BY <1>1, <1>2, <1>3, <1>4, <1>5, <1>6
          DEF TypeInv, TypeOK, tables, history

LEMMA InitType == Init => TypeInv
  <1> SUFFICES ASSUME Init PROVE TypeInv
    OBVIOUS
  <1> USE DEF Init
  <1>1. Busy = {}
    BY DEF Busy
  <1>2. Amounts
    BY DEF Amounts
  <1>3. DOMAIN expenses = {} /\ DOMAIN push = {}
    OBVIOUS
  <1>4. step \in [Workers -> Steps]
    BY DEF Steps
  <1>5. /\ alive \in BOOLEAN /\ currency \in Currencies /\ members \subseteq Users
        /\ (~alive => members = {})
    OBVIOUS
  <1>0. MaxExpenses \in Nat
    BY LedgerAssumption
  <1>8. made \in 0 .. MaxExpenses
    BY <1>0
  <1>6. shown.id = 0 /\ latest = 0 /\ touched \in [Workers -> SUBSET Users]
    BY DEF None
  <1>7. DOMAIN req = Workers /\ DOMAIN shares = Workers /\ \A w \in Workers : shares[w] = <<>>
    OBVIOUS
  <1> HIDE DEF Init
  <1> QED BY <1>1, <1>2, <1>3, <1>4, <1>5, <1>6, <1>7, <1>8 DEF TypeInv, TypeOK

LEMMA ArriveType ==
  ASSUME TypeInv, NEW w \in Workers, NEW r, r.caller \in Users, r.input.amount \in Int,
         Arrive(w, r)
  PROVE  TypeInv'
  <1>1. /\ step' \in [Workers -> Steps] /\ step'[w] = "isMember"
        /\ \A v \in Workers \ {w} : step'[v] = step[v]
    BY DEF Steps, TypeInv, TypeOK, Arrive
  <1>3. /\ DOMAIN req' = Workers
        /\ req'[w] = r
        /\ \A v \in Workers \ {w} : req'[v] = req[v]
    BY DEF TypeInv, Arrive
  <1>4. Busy' = Busy \cup {w}
    BY <1>1 DEF Busy
  <1>5. Amounts'
    BY <1>1, <1>3 DEF TypeInv, Amounts
  <1>6. /\ DOMAIN push' = DOMAIN push
        /\ \A id \in DOMAIN push' :
             /\ push'[id].stage \in {"read", "send", "sent"}
             /\ push'[id].context \in Busy' \cup {"cancelled"}
             /\ DOMAIN push'[id].list \subseteq Users
    <2>1. CASE UNCHANGED push
      BY <2>1, <1>4 DEF TypeInv, TypeOK
    <2>2. CASE \E id \in DOMAIN push : push' = [push EXCEPT ![id] = Announcement(w)]
      BY <2>2, <1>4 DEF TypeInv, TypeOK, Announcement
    <2> QED BY <2>1, <2>2 DEF Arrive
  <1>7. \A v \in Busy' : step'[v] # "reply" =>
             req'[v].caller \in Users /\ req'[v].input.amount \in Int
    BY <1>1, <1>5 DEF Busy, Amounts, Steps
  <1>8. \A v \in Workers : step'[v] \in Steps \ {"create"} => shares'[v] = <<>>
    BY <1>1 DEF TypeInv, TypeOK, Arrive, Steps
  <1>9. UNCHANGED <<alive, currency, members, expenses, made, shares, shown,
                    touched, latest>>
    BY DEF Arrive, tables, history
  <1> QED BY <1>1, <1>3, <1>4, <1>5, <1>6, <1>7, <1>8, <1>9 DEF TypeInv, TypeOK

LEMMA BeginType ==
  ASSUME TypeInv, NEW w \in Workers, NEW u \in Users,
         Ask(w, u) \/ \E b \in Bodies : Begin(w, u, b)
  PROVE  TypeInv'
  <1>1. CASE Ask(w, u)
    BY <1>1, ArriveType DEF Ask, NoInput
  <1>2. ASSUME NEW b \in Bodies, Begin(w, u, b) PROVE TypeInv'
    <2>1. Minor(b, currency).amount \in Int
      BY LedgerAssumption, MinorIsInt64, Int64IsInt DEF Minor
    <2> QED BY <1>2, <2>1, ArriveType DEF Begin
  <1> QED BY <1>1, <1>2

\* What the transaction writes is of the right type.
LEMMA StoreType ==
  ASSUME TypeInv, NEW w \in Workers, Store(w)
  PROVE  /\ made' = made + 1 /\ made' \in 0 .. MaxExpenses
         /\ DOMAIN expenses' \subseteq 1 .. made'
         /\ \A id \in DOMAIN expenses' :
              /\ expenses'[id].payer \in Users /\ expenses'[id].amount \in Int
              /\ expenses'[id].amount > 0
              /\ DOMAIN expenses'[id].shares \subseteq Users
  <1>1. made' = made + 1 /\ made' \in 0 .. MaxExpenses
    BY LedgerAssumption DEF TypeInv, TypeOK, Store
  <1>2. DOMAIN expenses' = DOMAIN expenses \cup {made + 1}
    BY DEF Store
  <1>3. DOMAIN expenses' \subseteq 1 .. made'
    BY <1>1, <1>2 DEF TypeInv, TypeOK
  <1>4. req[w].caller \in Users /\ req[w].input.amount \in Int /\ req[w].input.amount > 0
    BY DEF TypeInv, Amounts, Store, Steps
  <1>5. ASSUME NEW id \in DOMAIN expenses'
        PROVE  /\ expenses'[id].payer \in Users /\ expenses'[id].amount \in Int
               /\ expenses'[id].amount > 0
               /\ DOMAIN expenses'[id].shares \subseteq Users
    <2>1. CASE id = made + 1
      <3>1. /\ expenses'[id].payer = req[w].caller
            /\ expenses'[id].amount = req[w].input.amount
            /\ expenses'[id].shares = shares[w]
        BY <2>1, <1>2 DEF Store
      <3> QED BY <3>1, <1>4 DEF Store, ConstraintsHold
    <2>2. CASE id # made + 1
      <3>1. id \in DOMAIN expenses /\ expenses'[id] = expenses[id]
        BY <2>2, <1>2 DEF Store
      <3> QED BY <3>1 DEF TypeInv, TypeOK
    <2> QED BY <2>1, <2>2
  <1> QED BY <1>1, <1>3, <1>5

LEMMA CreateType ==
  ASSUME TypeInv, NEW w \in Workers, Create(w)
  PROVE  TypeInv'
  <1> DEFINE id == made + 1
  <1>1. /\ made' = made + 1 /\ made' \in 0 .. MaxExpenses
        /\ DOMAIN expenses' \subseteq 1 .. made'
        /\ \A i \in DOMAIN expenses' :
             /\ expenses'[i].payer \in Users /\ expenses'[i].amount \in Int
             /\ expenses'[i].amount > 0
             /\ DOMAIN expenses'[i].shares \subseteq Users
    BY StoreType DEF Create
  <1>2. /\ step' \in [Workers -> Steps] /\ step'[w] = "reply"
        /\ \A v \in Workers \ {w} : step'[v] = step[v]
    BY DEF TypeInv, TypeOK, Create, Steps
  <1>3. /\ DOMAIN req' = Workers /\ DOMAIN shares' = Workers
        /\ shares'[w] = <<>>
        /\ \A v \in Workers \ {w} : req'[v] = req[v] /\ shares'[v] = shares[v]
    BY DEF TypeInv, Create
  <1>4. Busy' = Busy /\ w \in Busy
    BY <1>2 DEF Busy, Create, Store
  <1>5. Amounts'
    BY <1>2, <1>3 DEF TypeInv, Amounts
  <1>6. /\ DOMAIN push' = DOMAIN push \cup {id} /\ push'[id] = Announcement(w)
        /\ \A i \in DOMAIN push \ {id} : push'[i] = push[i]
    BY DEF Create
  <1>7. DOMAIN push \subseteq 1 .. made /\ DOMAIN push' \subseteq 1 .. made'
    BY <1>1, <1>6 DEF TypeInv, TypeOK
  <1>8. \A i \in DOMAIN push' :
          /\ push'[i].stage \in {"read", "send", "sent"}
          /\ push'[i].context \in Busy' \cup {"cancelled"}
          /\ DOMAIN push'[i].list \subseteq Users
    BY <1>4, <1>6 DEF TypeInv, TypeOK, Announcement
  <1>9. /\ \A v \in Busy' : step'[v] # "reply" =>
             req'[v].caller \in Users /\ req'[v].input.amount \in Int
        /\ \A v \in Workers : step'[v] \in Steps \ {"create"} => shares'[v] = <<>>
    <2>1. \A v \in Busy' : v \in Workers \ {w} \/ step'[v] = "reply"
      BY <1>2 DEF Busy
    <2>2. \A v \in Workers \ {w} : step[v] \in Steps \ {"create"} => shares[v] = <<>>
      BY DEF TypeInv, TypeOK
    <2>3. \A v \in Busy : step[v] # "reply" =>
             req[v].caller \in Users /\ req[v].input.amount \in Int
      BY DEF TypeInv, TypeOK
    <2> QED BY <1>2, <1>3, <1>4, <2>1, <2>2, <2>3
  <1>10. /\ UNCHANGED <<alive, currency, members, shown, latest>>
         /\ touched' = [touched EXCEPT ![w] = {}]
    BY DEF Create, Store
  <1>11. /\ shown'.id \in {0} \cup DOMAIN push' /\ latest' \in {0} \cup DOMAIN push'
         /\ alive' \in BOOLEAN /\ currency' \in Currencies /\ members' \subseteq Users
         /\ (~alive' => members' = {}) /\ touched' \in [Workers -> SUBSET Users]
    BY <1>4, <1>6, <1>10 DEF TypeInv, TypeOK
  <1> QED BY <1>1, <1>2, <1>3, <1>5, <1>7, <1>8, <1>9, <1>11 DEF TypeInv, TypeOK

\* What a goroutine does, to the announcement of an expense.
LEMMA PushType ==
  ASSUME TypeInv, NEW id \in DOMAIN push, NEW p, push' = [push EXCEPT ![id] = p],
         p.stage \in {"read", "send", "sent"}, p.context = "cancelled",
         DOMAIN p.list \subseteq Users, UNCHANGED <<tables, control, touched>>,
         shown'.id \in {shown.id, id}, latest' \in {latest, id}
  PROVE  TypeInv'
  <1>1. Busy' = Busy /\ Amounts'
    BY DEF TypeInv, Amounts, Busy, control
  <1>2. /\ DOMAIN push' = DOMAIN push
        /\ push'[id] = p /\ \A i \in DOMAIN push \ {id} : push'[i] = push[i]
    OBVIOUS
  <1>3. \A i \in DOMAIN push' :
          /\ push'[i].stage \in {"read", "send", "sent"}
          /\ push'[i].context \in Busy' \cup {"cancelled"}
          /\ DOMAIN push'[i].list \subseteq Users
    BY <1>1, <1>2 DEF TypeInv, TypeOK
  <1>4. UNCHANGED <<alive, currency, members, expenses, made, req, shares, step, touched>>
    BY DEF tables, control
  <1>5. shown'.id \in {0} \cup DOMAIN push' /\ latest' \in {0} \cup DOMAIN push'
    BY <1>2 DEF TypeInv, TypeOK
  <1> QED BY <1>1, <1>2, <1>3, <1>4, <1>5 DEF TypeInv, TypeOK

\* Members come and go, and the group itself goes.
LEMMA MembershipType ==
  ASSUME TypeInv, MembershipChanges, alive' \in BOOLEAN, members' \subseteq Users,
         ~alive' => members' = {}, expenses' = expenses \/ expenses' = <<>>
  PROVE  TypeInv'
  <1>1. Busy' = Busy /\ Amounts'
    BY DEF TypeInv, Amounts, Busy, control, MembershipChanges
  <1>2. UNCHANGED <<currency, made, req, shares, step, push, shown>> /\ latest' = 0
    BY DEF MembershipChanges, control
  <1>3. touched' \in [Workers -> SUBSET Users]
    BY DEF MembershipChanges, TypeInv, TypeOK
  <1>4. DOMAIN expenses' \subseteq DOMAIN expenses
        /\ \A id \in DOMAIN expenses' : expenses'[id] = expenses[id]
    OBVIOUS
  <1>5. \A id \in DOMAIN push' : push'[id].context \in Busy' \cup {"cancelled"}
    BY <1>1, <1>2 DEF TypeInv, TypeOK
  <1>6. /\ \A w \in Busy' : step'[w] # "reply" =>
             req'[w].caller \in Users /\ req'[w].input.amount \in Int
        /\ \A w \in Workers : step'[w] \in Steps \ {"create"} => shares'[w] = <<>>
    BY <1>1, <1>2 DEF TypeInv, TypeOK
  <1>7. /\ DOMAIN expenses' \subseteq 1 .. made'
        /\ \A id \in DOMAIN expenses' :
             /\ expenses'[id].payer \in Users /\ expenses'[id].amount \in Int
             /\ expenses'[id].amount > 0
             /\ DOMAIN expenses'[id].shares \subseteq Users
    BY <1>2, <1>4 DEF TypeInv, TypeOK
  <1> QED BY <1>1, <1>2, <1>3, <1>5, <1>6, <1>7 DEF TypeInv, TypeOK

LEMMA NextType == TypeInv /\ [Next]_vars => TypeInv'
  <1> SUFFICES ASSUME TypeInv, [Next]_vars PROVE TypeInv'
    OBVIOUS
  <1>1. CASE UNCHANGED vars
    BY <1>1 DEF vars, tables, control, history, TypeInv, TypeOK, Amounts, Busy
  <1>2. ASSUME NEW w \in Workers, NEW u \in Users,
               Ask(w, u) \/ \E b \in Bodies : Begin(w, u, b)
        PROVE  TypeInv'
    BY <1>2, BeginType
  <1>3. ASSUME NEW w \in Workers, IsMember(w) PROVE TypeInv'
    <2>1. CASE End(w)
      BY <2>1, EndType
    <2>2. CASE Goto(w, "getCurrency") /\ UNCHANGED <<req, shares>>
      BY <2>2, <1>3, GotoType DEF IsMember, Steps, TypeInv
    <2> QED BY <1>3, <2>1, <2>2 DEF IsMember
  <1>4. ASSUME NEW w \in Workers, GetCurrency(w) PROVE TypeInv'
    <2>1. CASE End(w)
      BY <2>1, EndType
    <2>2. CASE /\ req[w].input.amount > 0
               /\ Goto(w, "getMembers") /\ UNCHANGED <<req, shares>>
      BY <2>2, <1>4, GotoType DEF GetCurrency, Steps, TypeInv
    <2>3. CASE Goto(w, "getBalances") /\ UNCHANGED <<req, shares>>
      BY <2>3, <1>4, GotoType DEF GetCurrency, Steps, TypeInv
    <2> QED BY <1>4, <2>1, <2>2, <2>3 DEF GetCurrency
  <1>5. ASSUME NEW w \in Workers, GetMembers(w) PROVE TypeInv'
    <2>1. CASE End(w)
      BY <2>1, EndType
    <2>2. CASE /\ \E s \in Shares(req[w].input, members) : shares' = [shares EXCEPT ![w] = s]
               /\ Goto(w, "create") /\ UNCHANGED req
      <3>1. DOMAIN shares' = Workers /\ \A v \in Workers \ {w} : shares'[v] = shares[v]
        BY <2>2 DEF TypeInv
      <3>2. req[w].input.amount > 0
        BY <1>5 DEF TypeInv, Amounts, GetMembers
      <3>3. "create" \in Steps \ {"idle", "reply"} /\ step[w] = "getMembers"
        BY <1>5 DEF GetMembers, Steps
      <3> QED BY <2>2, <3>1, <3>2, <3>3, GotoType
    <2> QED BY <1>5, <2>1, <2>2 DEF GetMembers
  <1>6. ASSUME NEW w \in Workers, Create(w) PROVE TypeInv'
    BY <1>6, CreateType
  <1>7. ASSUME NEW w \in Workers, CreateUnacknowledged(w) PROVE TypeInv'
    <2>1. made <= made'
      BY <1>7, StoreType DEF CreateUnacknowledged, TypeInv, TypeOK
    <2> QED BY <1>7, <2>1, StoreType, IdleType DEF CreateUnacknowledged, Store
  <1>8. ASSUME NEW w \in Workers, RolledBack(w) \/ Reply(w) \/ Fail(w) \/ GetMyBalance(w)
        PROVE  TypeInv'
    BY <1>8, EndType DEF RolledBack, Reply, Fail, GetMyBalance
  <1>16. ASSUME NEW w \in Workers, GetBalances(w) PROVE TypeInv'
    <2>1. CASE End(w)
      BY <2>1, EndType
    <2>2. CASE Goto(w, "endless") /\ UNCHANGED <<req, shares>>
      BY <2>2, <1>16, GotoType DEF GetBalances, Steps, TypeInv
    <2> QED BY <1>16, <2>1, <2>2 DEF GetBalances
  <1>9. DOMAIN GroupBalances = members /\ members \subseteq Users
    BY DEF GroupBalances, TypeInv, TypeOK
  <1>10. ASSUME NEW id \in DOMAIN push, ReadBalances(id) PROVE TypeInv'
    BY <1>9, <1>10, PushType DEF ReadBalances, ReadAs, BalancesRead
  <1>11. ASSUME NEW id \in DOMAIN push, ReadCutShort(id) PROVE TypeInv'
    <2>1. PICK S \in FirstRows(GroupBalances) : ReadAs(id, Restrict(GroupBalances, S), FALSE)
      BY <1>11 DEF ReadCutShort
    <2>2. DOMAIN Restrict(GroupBalances, S) \subseteq Users
      BY <1>9 DEF Restrict, FirstRows
    <2> QED BY <2>1, <2>2, PushType DEF ReadAs
  <1>12. ASSUME NEW id \in DOMAIN push, ReadCancelled(id) PROVE TypeInv'
    <2>1. DOMAIN <<>> = {}
      OBVIOUS
    <2> QED BY <1>12, <2>1, PushType DEF ReadCancelled, ReadAs
  <1>13. ASSUME NEW id \in DOMAIN push, Broadcast(id) PROVE TypeInv'
    <2>1. DOMAIN Sent.list = {} /\ Sent.stage = "sent" /\ Sent.context = "cancelled"
      BY DEF Sent
    <2> QED BY <1>13, <2>1, PushType DEF Broadcast, history
  <1>14. ASSUME NEW u \in Users, Join(u) \/ Leave(u) PROVE TypeInv'
    BY <1>14, MembershipType DEF Join, Leave, TypeInv, TypeOK
  <1>15. CASE DeleteGroup
    BY <1>15, MembershipType DEF DeleteGroup
  <1> QED BY <1>1, <1>2, <1>3, <1>4, <1>5, <1>6, <1>7, <1>8, <1>10, <1>11, <1>12,
             <1>13, <1>14, <1>15, <1>16 DEF Next

\* Every state is of the right type: only registered users share, amounts are
\* positive, and a goroutine's context is that of a request being served.
THEOREM LedgerTypeCorrect == Spec => []TypeOK
  <1>1. Spec => []TypeInv
    BY InitType, NextType, PTL DEF Spec
  <1>2. TypeInv => TypeOK
    BY DEF TypeInv
  <1> QED BY <1>1, <1>2, PTL

-----------------------------------------------------------------------------
(* Who shares.  What a request has checked stays true of those who have     *)
(* neither joined nor left since.                                           *)

Shareable(w) == members \cup touched[w]

Checked ==
  \A w \in Workers :
    /\ step[w] \in {"getMembers", "create"} => req[w].wants = "expense"
    /\ step[w] \in {"getCurrency", "getMembers", "create"} /\ req[w].wants = "expense" =>
         req[w].caller \in Shareable(w)

SharedInv == TypeInv /\ Checked /\ SharedByMembers

\* An equal split is over the members.
LEMMA EqualDomain ==
  ASSUME NEW in, NEW M, NEW s \in Shares(in, M), in.method = "equal"
  PROVE  DOMAIN s = M
  <1>1. Shares(in, M) = {EqualShares(in.amount, M, last) : last \in M}
    BY DEF Shares
  <1> QED BY <1>1 DEF EqualShares

\* The property speaks of requests, and is left alone by whatever leaves them
\* and the members alone.
LEMMA SharedSame ==
  ASSUME SharedInv, UNCHANGED <<members, req, shares, step, touched>>
  PROVE  Checked' /\ SharedByMembers'
  <1> QED BY DEF SharedInv, Checked, SharedByMembers, Shareable

LEMMA SharedEnd ==
  ASSUME SharedInv, NEW w \in Workers, UNCHANGED members, step'[w] \in {"idle", "reply"},
         \A v \in Workers \ {w} : /\ step'[v] = step[v] /\ req'[v] = req[v]
                                  /\ shares'[v] = shares[v] /\ touched'[v] = touched[v]
  PROVE  Checked' /\ SharedByMembers'
  <1> QED BY DEF SharedInv, Checked, SharedByMembers, Shareable

LEMMA IdleOthers ==
  ASSUME TypeInv, NEW w \in Workers, Idle(w)
  PROVE  /\ step'[w] = "idle"
         /\ \A v \in Workers \ {w} :
              /\ step'[v] = step[v] /\ req'[v] = req[v] /\ shares'[v] = shares[v]
              /\ touched'[v] = touched[v]
  <1> QED BY DEF TypeInv, TypeOK, Idle

\* Whoever is or has been a member is remembered, and whoever is not touched has
\* not moved.
LEMMA SharedMoved ==
  ASSUME SharedInv, MembershipChanges
  PROVE  Checked' /\ SharedByMembers'
  <1>1. UNCHANGED <<req, shares, step>>
    BY DEF MembershipChanges, control
  <1>2. ASSUME NEW w \in Workers, step[w] \in {"getCurrency", "getMembers", "create"},
               req[w].wants = "expense"
        PROVE  /\ Shareable(w) \subseteq Shareable(w)'
               /\ members' \ touched'[w] \subseteq members \ touched[w]
    <2>1. touched'[w] = touched[w] \cup (members \ members') \cup (members' \ members)
      BY <1>2 DEF MembershipChanges, Preparing
    <2> QED BY <2>1 DEF Shareable
  <1>3. Checked'
    BY <1>1, <1>2 DEF SharedInv, Checked
  <1>4. ASSUME NEW w \in Workers, step[w] = "create"
        PROVE  /\ req[w].caller \in Shareable(w)'
               /\ req[w].input.method = "equal" =>
                    /\ members' \ touched'[w] \subseteq DOMAIN shares[w]
                    /\ DOMAIN shares[w] \subseteq Shareable(w)'
    <2>1. req[w].wants = "expense"
      BY <1>4 DEF SharedInv, Checked
    <2>2. /\ req[w].caller \in Shareable(w)
          /\ req[w].input.method = "equal" =>
               /\ members \ touched[w] \subseteq DOMAIN shares[w]
               /\ DOMAIN shares[w] \subseteq Shareable(w)
      BY <1>4 DEF SharedInv, SharedByMembers, Shareable
    <2> QED BY <1>2, <1>4, <2>1, <2>2
  <1> QED BY <1>1, <1>3, <1>4 DEF SharedByMembers, Shareable

LEMMA SharedNext == SharedInv /\ [Next]_vars => Checked' /\ SharedByMembers'
  <1> SUFFICES ASSUME SharedInv, [Next]_vars PROVE Checked' /\ SharedByMembers'
    OBVIOUS
  <1>0. TypeInv
    BY DEF SharedInv
  <1>1. CASE UNCHANGED vars
    BY <1>1, SharedSame DEF vars, tables, control, history
  <1>2. ASSUME NEW w \in Workers, NEW r, Arrive(w, r)
        PROVE  Checked' /\ SharedByMembers'
    <2>1. /\ step'[w] = "isMember" /\ UNCHANGED <<members, touched, shares>>
          /\ \A v \in Workers \ {w} : step'[v] = step[v] /\ req'[v] = req[v]
      BY <1>0, <1>2 DEF Arrive, TypeInv, TypeOK, tables, history
    <2> QED BY <2>1 DEF SharedInv, Checked, SharedByMembers, Shareable
  <1>3. ASSUME NEW w \in Workers, End(w) PROVE Checked' /\ SharedByMembers'
    BY <1>0, <1>3, IdleOthers, SharedEnd DEF End, tables
  <1>4. ASSUME NEW w \in Workers, NEW next \in Steps, Goto(w, next)
        PROVE  /\ step'[w] = next /\ \A v \in Workers \ {w} : step'[v] = step[v]
               /\ UNCHANGED <<members, touched>>
    BY <1>0, <1>4 DEF Goto, TypeInv, TypeOK, tables, history
  \* A request that goes on, to a statement it may go on to.
  <1>13. ASSUME NEW w \in Workers, NEW next \in Steps \ {"create"},
                Goto(w, next), UNCHANGED <<req, shares>>,
                next = "getMembers" => req[w].wants = "expense",
                next \in {"getCurrency", "getMembers"} /\ req[w].wants = "expense" =>
                  req[w].caller \in Shareable(w)
         PROVE  Checked' /\ SharedByMembers'
    <2>1. /\ step'[w] = next /\ \A v \in Workers \ {w} : step'[v] = step[v]
          /\ UNCHANGED <<members, touched>>
      BY <1>4, <1>13
    <2>2. Checked'
      BY <1>13, <2>1 DEF SharedInv, Checked, Shareable
    <2>3. SharedByMembers'
      BY <1>13, <2>1 DEF SharedInv, SharedByMembers
    <2> QED BY <2>2, <2>3
  <1>5. ASSUME NEW w \in Workers, IsMember(w) PROVE Checked' /\ SharedByMembers'
    <2>1. CASE req[w].caller \in members /\ Goto(w, "getCurrency") /\ UNCHANGED <<req, shares>>
      BY <2>1, <1>13 DEF Shareable, Steps
    <2> QED BY <1>3, <1>5, <2>1 DEF IsMember
  <1>6. ASSUME NEW w \in Workers, GetCurrency(w) PROVE Checked' /\ SharedByMembers'
    <2>1. CASE /\ req[w].wants = "expense"
               /\ Goto(w, "getMembers") /\ UNCHANGED <<req, shares>>
      <3>1. req[w].caller \in Shareable(w)
        BY <1>6, <2>1 DEF GetCurrency, SharedInv, Checked
      <3> QED BY <2>1, <3>1, <1>13 DEF Steps
    <2>2. CASE Goto(w, "getBalances") /\ UNCHANGED <<req, shares>>
      BY <2>2, <1>13 DEF Steps
    <2> QED BY <1>3, <1>6, <2>1, <2>2 DEF GetCurrency
  <1>7. ASSUME NEW w \in Workers, GetMembers(w) PROVE Checked' /\ SharedByMembers'
    <2>1. ASSUME NEW s \in Shares(req[w].input, members), shares' = [shares EXCEPT ![w] = s],
                 Goto(w, "create"), UNCHANGED req
          PROVE  Checked' /\ SharedByMembers'
      <3>1. shares'[w] = s /\ \A v \in Workers \ {w} : shares'[v] = shares[v]
        BY <1>0, <2>1 DEF TypeInv
      <3>2. req[w].input.method = "equal" => DOMAIN s = members
        BY EqualDomain
      <3>3. /\ step'[w] = "create" /\ \A v \in Workers \ {w} : step'[v] = step[v]
            /\ UNCHANGED <<members, touched>>
        BY <1>4, <2>1 DEF Steps
      <3>4. req[w].wants = "expense" /\ req[w].caller \in Shareable(w)
        BY <1>7 DEF GetMembers, SharedInv, Checked
      <3>5. Checked'
        BY <2>1, <3>3, <3>4 DEF SharedInv, Checked, Shareable
      <3>6. SharedByMembers'
        BY <2>1, <3>1, <3>2, <3>3, <3>4 DEF SharedInv, SharedByMembers, Shareable
      <3> QED BY <3>5, <3>6
    <2> QED BY <1>3, <1>7, <2>1 DEF GetMembers
  <1>8. ASSUME NEW w \in Workers, Create(w) PROVE Checked' /\ SharedByMembers'
    <2>1. /\ step'[w] = "reply" /\ UNCHANGED members
          /\ \A v \in Workers \ {w} :
               /\ step'[v] = step[v] /\ req'[v] = req[v] /\ shares'[v] = shares[v]
               /\ touched'[v] = touched[v]
      BY <1>0, <1>8 DEF Create, Store, TypeInv, TypeOK
    <2> QED BY <2>1, SharedEnd
  <1>9. ASSUME NEW w \in Workers, CreateUnacknowledged(w) PROVE Checked' /\ SharedByMembers'
    BY <1>0, <1>9, IdleOthers, SharedEnd DEF CreateUnacknowledged, Store
  <1>10. ASSUME NEW id \in DOMAIN push,
                \/ ReadBalances(id) \/ ReadCutShort(id) \/ ReadCancelled(id) \/ Broadcast(id)
         PROVE  Checked' /\ SharedByMembers'
    BY <1>10, SharedSame
       DEF ReadBalances, ReadCutShort, ReadCancelled, ReadAs, Broadcast, tables, control, history
  <1>11. CASE MembershipChanges
    BY <1>11, SharedMoved
  <1>12. ASSUME NEW w \in Workers, GetBalances(w) PROVE Checked' /\ SharedByMembers'
    <2>1. CASE Goto(w, "endless") /\ UNCHANGED <<req, shares>>
      BY <2>1, <1>13 DEF Steps
    <2> QED BY <1>3, <1>12, <2>1 DEF GetBalances
  <1> QED BY <1>1, <1>2, <1>3, <1>5, <1>6, <1>7, <1>8, <1>9, <1>10, <1>11, <1>12
          DEF Next, Begin, Ask, RolledBack, Reply, Fail, GetMyBalance, Join, Leave, DeleteGroup

\* Whoever comes and goes, a request stores an expense of somebody who has been a
\* member since it began, and an equal one is shared by everybody who has been one
\* all the time and by nobody who has not been one at any time.
THEOREM LedgerSharedByMembers == Spec => []SharedByMembers
  <1>1. Init => SharedInv
    BY InitType DEF Init, SharedInv, Checked, SharedByMembers
  <1>2. SharedInv /\ [Next]_vars => SharedInv'
    BY NextType, SharedNext DEF SharedInv
  <1>3. SharedInv => SharedByMembers
    BY DEF SharedInv
  <1> QED BY <1>1, <1>2, <1>3, PTL DEF Spec

-----------------------------------------------------------------------------
(* What shares add up to.  A request's numbers are int64s, and the shares   *)
(* that are stored are still what computeSplits made of them.               *)

Inputs ==
  \A w \in Workers : step[w] \in Steps \ {"idle", "reply"} => Converted(req[w].input)

Computed ==
  \A w \in Workers : step[w] = "create" =>
    \E M \in SUBSET Users : shares[w] \in Shares(req[w].input, M)

Request(e) == [method |-> e.method, amount |-> e.amount, splits |-> e.asked]

Sound(e) ==
  /\ Converted(Request(e)) /\ e.amount > 0
  /\ DOMAIN e.shares \subseteq Users /\ \A u \in DOMAIN e.shares : e.shares[u] >= 0
  /\ \E M \in SUBSET Users : e.shares \in Shares(Request(e), M)

Stored == \A id \in DOMAIN expenses : Sound(expenses[id])

StoredInv == TypeInv /\ Inputs /\ Computed /\ Stored

LEMMA MinorIsConverted ==
  ASSUME NEW b \in Bodies, NEW c
  PROVE  Converted(Minor(b, c))
  <1>1. /\ Minor(b, c).amount = ToMinor(b.amount, c)
        /\ DOMAIN Minor(b, c).splits = DOMAIN b.splits
        /\ \A u \in DOMAIN b.splits : Minor(b, c).splits[u] = ToMinor(b.splits[u], c)
    BY DEF Minor
  <1>2. /\ b.amount \in Int /\ IsFiniteSet(DOMAIN b.splits)
        /\ \A u \in DOMAIN b.splits : b.splits[u] \in Int
    BY LedgerAssumption
  <1> QED BY <1>1, <1>2, MinorIsInt64 DEF Converted

\* What is stored is a request that has been checked, and its shares.
LEMMA StoreSound ==
  ASSUME StoredInv, NEW w \in Workers, Store(w)
  PROVE  Stored'
  <1> DEFINE new == made + 1
             in == req[w].input
  <1>1. Converted(in) /\ in.amount > 0
    BY DEF StoredInv, Inputs, TypeInv, Amounts, Store, Steps
  <1>2. PICK M \in SUBSET Users : shares[w] \in Shares(in, M)
    BY DEF StoredInv, Computed, Store
  <1>3. /\ DOMAIN expenses' = DOMAIN expenses \cup {new}
        /\ \A id \in DOMAIN expenses \ {new} : expenses'[id] = expenses[id]
        /\ expenses'[new].amount = in.amount /\ expenses'[new].method = in.method
        /\ expenses'[new].asked = in.splits /\ expenses'[new].shares = shares[w]
    BY DEF Store
  <1>4. Sound(expenses'[new])
    <2> DEFINE e == expenses'[new]
    <2>1. /\ Request(e).method = in.method /\ Request(e).amount = in.amount
          /\ Request(e).splits = in.splits
      BY <1>3 DEF Request
    <2>2. Converted(Request(e))
      BY <1>1, <2>1 DEF Converted
    <2>3. Shares(Request(e), M) = Shares(in, M)
      BY <2>1 DEF Shares
    <2>4. DOMAIN e.shares \subseteq Users /\ \A u \in DOMAIN e.shares : e.shares[u] >= 0
      BY <1>3 DEF Store, ConstraintsHold
    <2> QED BY <1>1, <1>2, <1>3, <2>2, <2>3, <2>4 DEF Sound
  <1>5. \A id \in DOMAIN expenses' : Sound(expenses'[id])
    BY <1>3, <1>4 DEF StoredInv, Stored
  <1> QED BY <1>5 DEF Stored, Sound, Request, Converted

\* Steps that leave what is stored, and the requests but for one that ends.
LEMMA StoredEnd ==
  ASSUME StoredInv, NEW w \in Workers, step'[w] \in {"idle", "reply"},
         \A v \in Workers \ {w} : step'[v] = step[v] /\ req'[v] = req[v] /\ shares'[v] = shares[v]
  PROVE  Inputs' /\ Computed'
  <1>1. Inputs'
    BY DEF StoredInv, Inputs
  <1>2. Computed'
    BY DEF StoredInv, Computed
  <1> QED BY <1>1, <1>2

LEMMA StoredSame ==
  ASSUME StoredInv, UNCHANGED <<req, shares, step>>
  PROVE  Inputs' /\ Computed'
  <1> QED BY DEF StoredInv, Inputs, Computed

LEMMA StoredNext == StoredInv /\ [Next]_vars => Inputs' /\ Computed' /\ Stored'
  <1> SUFFICES ASSUME StoredInv, [Next]_vars PROVE Inputs' /\ Computed' /\ Stored'
    OBVIOUS
  <1>0. TypeInv
    BY DEF StoredInv
  <1>1. UNCHANGED expenses => Stored'
    BY DEF StoredInv, Stored
  <1>2. CASE UNCHANGED vars
    BY <1>1, <1>2, StoredSame DEF vars, tables, control
  <1>3. ASSUME NEW w \in Workers, NEW r, Converted(r.input), Arrive(w, r)
        PROVE  Inputs' /\ Computed' /\ Stored'
    <2>1. /\ step'[w] = "isMember" /\ req'[w] = r /\ UNCHANGED <<expenses, shares>>
          /\ \A v \in Workers \ {w} : step'[v] = step[v] /\ req'[v] = req[v]
      BY <1>0, <1>3 DEF Arrive, TypeInv, TypeOK, tables
    <2>2. Inputs'
      BY <1>3, <2>1 DEF StoredInv, Inputs
    <2>3. Computed'
      BY <2>1 DEF StoredInv, Computed
    <2> QED BY <1>1, <2>1, <2>2, <2>3
  <1>4. ASSUME NEW w \in Workers, NEW u \in Users, NEW b \in Bodies, Begin(w, u, b)
        PROVE  Inputs' /\ Computed' /\ Stored'
    BY <1>3, <1>4, MinorIsConverted DEF Begin
  <1>5. ASSUME NEW w \in Workers, NEW u \in Users, Ask(w, u)
        PROVE  Inputs' /\ Computed' /\ Stored'
    <2>1. Converted(NoInput)
      BY Width, FS_EmptySet DEF Converted, NoInput, Int64
    <2> QED BY <1>3, <1>5, <2>1 DEF Ask
  <1>6. ASSUME NEW w \in Workers, End(w) PROVE Inputs' /\ Computed' /\ Stored'
    BY <1>0, <1>1, <1>6, IdleOthers, StoredEnd DEF End, tables
  <1>7. ASSUME NEW w \in Workers, NEW next \in Steps \ {"create"}, Goto(w, next),
               step[w] \notin {"idle", "reply"}, UNCHANGED <<req, shares>>
        PROVE  Inputs' /\ Computed' /\ Stored'
    <2>1. /\ step'[w] = next /\ UNCHANGED expenses
          /\ \A v \in Workers \ {w} : step'[v] = step[v]
      BY <1>0, <1>7 DEF Goto, TypeInv, TypeOK, tables
    <2>2. step[w] \in Steps
      BY <1>0 DEF TypeInv, TypeOK
    <2>3. Inputs'
      BY <1>7, <2>1, <2>2 DEF StoredInv, Inputs
    <2>4. Computed'
      BY <1>7, <2>1 DEF StoredInv, Computed
    <2> QED BY <1>1, <2>1, <2>3, <2>4
  <1>8. ASSUME NEW w \in Workers, IsMember(w) PROVE Inputs' /\ Computed' /\ Stored'
    BY <1>6, <1>7, <1>8 DEF IsMember, Steps
  <1>9. ASSUME NEW w \in Workers, GetCurrency(w) PROVE Inputs' /\ Computed' /\ Stored'
    BY <1>6, <1>7, <1>9 DEF GetCurrency, Steps
  <1>10. ASSUME NEW w \in Workers, GetMembers(w) PROVE Inputs' /\ Computed' /\ Stored'
    <2>1. ASSUME NEW s \in Shares(req[w].input, members), shares' = [shares EXCEPT ![w] = s],
                 Goto(w, "create"), UNCHANGED req
          PROVE  Inputs' /\ Computed' /\ Stored'
      <3>1. /\ shares'[w] = s /\ \A v \in Workers \ {w} : shares'[v] = shares[v]
            /\ step'[w] = "create" /\ \A v \in Workers \ {w} : step'[v] = step[v]
            /\ UNCHANGED expenses
        BY <1>0, <2>1 DEF TypeInv, TypeOK, Goto, tables
      <3>2. members \in SUBSET Users
        BY <1>0 DEF TypeInv, TypeOK
      <3>3. Inputs'
        BY <1>10, <2>1, <3>1 DEF StoredInv, Inputs, GetMembers, Steps
      <3>4. Computed'
        BY <2>1, <3>1, <3>2 DEF StoredInv, Computed
      <3> QED BY <1>1, <3>1, <3>3, <3>4
    <2> QED BY <1>6, <1>10, <2>1 DEF GetMembers
  <1>11. ASSUME NEW w \in Workers, Create(w) PROVE Inputs' /\ Computed' /\ Stored'
    <2>1. /\ step'[w] = "reply"
          /\ \A v \in Workers \ {w} :
               step'[v] = step[v] /\ req'[v] = req[v] /\ shares'[v] = shares[v]
      BY <1>0, <1>11 DEF Create, TypeInv, TypeOK
    <2> QED BY <1>11, <2>1, StoredEnd, StoreSound DEF Create
  <1>12. ASSUME NEW w \in Workers, CreateUnacknowledged(w)
         PROVE  Inputs' /\ Computed' /\ Stored'
    BY <1>0, <1>12, IdleOthers, StoredEnd, StoreSound DEF CreateUnacknowledged
  <1>13. ASSUME NEW id \in DOMAIN push,
                \/ ReadBalances(id) \/ ReadCutShort(id) \/ ReadCancelled(id) \/ Broadcast(id)
         PROVE  Inputs' /\ Computed' /\ Stored'
    BY <1>1, <1>13, StoredSame
       DEF ReadBalances, ReadCutShort, ReadCancelled, ReadAs, Broadcast, tables, control
  <1>14. ASSUME MembershipChanges, expenses' = expenses \/ expenses' = <<>>
         PROVE  Inputs' /\ Computed' /\ Stored'
    <2>1. UNCHANGED <<req, shares, step>>
      BY <1>14 DEF MembershipChanges, control
    <2>2. Stored'
      BY <1>1, <1>14 DEF Stored
    <2> QED BY <2>1, <2>2, StoredSame
  <1>15. ASSUME NEW w \in Workers, GetBalances(w) PROVE Inputs' /\ Computed' /\ Stored'
    BY <1>6, <1>7, <1>15 DEF GetBalances, Steps
  <1>16. ASSUME NEW u \in Users, Join(u) \/ Leave(u) PROVE Inputs' /\ Computed' /\ Stored'
    BY <1>14, <1>16 DEF Join, Leave
  <1>17. CASE DeleteGroup
    BY <1>14, <1>17 DEF DeleteGroup
  <1> QED BY <1>2, <1>4, <1>5, <1>6, <1>8, <1>9, <1>10, <1>11, <1>12, <1>13, <1>15,
             <1>16, <1>17 DEF Next, RolledBack, Reply, Fail, GetMyBalance

LEMMA StoredAlways == Spec => []StoredInv
  <1>1. Init => StoredInv
    BY InitType DEF Init, StoredInv, Inputs, Computed, Stored
  <1>2. StoredInv /\ [Next]_vars => StoredInv'
    BY NextType, StoredNext DEF StoredInv
  <1> QED BY <1>1, <1>2, PTL DEF Spec

\* Up to two int64s that are not negative, and wrap around to a positive one,
\* have not wrapped around.
LEMMA TwoAddUp ==
  ASSUME NEW s, IsFiniteSet(DOMAIN s), Cardinality(DOMAIN s) <= 2,
         \A u \in DOMAIN s : s[u] \in Int64 /\ s[u] >= 0, Wrap(SumFunction(s)) > 0
  PROVE  SumFunction(s) = Wrap(SumFunction(s))
  <1> DEFINE D == DOMAIN s
             H == Modulus \div 2
             high == [u \in D |-> H - 1]
             total == SumFunction(s)
             a == Wrap(total)
  <1>1. H \in Nat /\ H > 10000 /\ Modulus = 2 * H
    BY Width
  <1>2. \A u \in D : s[u] \in Int /\ s[u] >= 0 /\ s[u] <= H - 1
    BY <1>1 DEF Int64
  <1>3. \A u \in D : high[u] = H - 1 /\ high[u] \in Int /\ s[u] <= high[u]
    BY <1>1, <1>2
  <1> HIDE DEF H, high
  <1>4. Cardinality(D) \in 0 .. 2
    BY FS_CardinalityType
  <1>5. SumFunctionOnSet(high, D) = Cardinality(D) * (H - 1)
    BY <1>1, <1>3, SumOfConstant
  <1>6. Cardinality(D) * (H - 1) <= 2 * (H - 1)
    BY <1>1, <1>4
  <1>7. total \in Nat
    BY <1>2, SumOfNats DEF SumFunction
  <1>8. total <= SumFunctionOnSet(high, D)
    BY <1>2, <1>3, SumOfLarger DEF SumFunction
  <1>9. total <= 2 * (H - 1)
    <2>1. SumFunctionOnSet(high, D) \in Int
      BY <1>1, <1>4, <1>5
    <2> QED BY <2>1, <1>1, <1>4, <1>5, <1>6, <1>7, <1>8
  <1> HIDE DEF total
  <1>10. PICK k \in Int : a = total + k * Modulus
    BY <1>7, WrapIsInt64
  <1>11. a \in 1 .. H - 1
    BY <1>7, WrapIsInt64, <1>1 DEF Int64, H, total
  <1> HIDE DEF a
  <1>12. CASE k >= 1
    <2>1. k * Modulus >= Modulus
      BY <1>1, <1>12
    <2> QED BY <2>1, <1>1, <1>7, <1>10, <1>11
  <1>13. CASE k <= -1
    <2>1. k * Modulus <= -Modulus
      BY <1>1, <1>13
    <2> QED BY <2>1, <1>1, <1>7, <1>9, <1>10, <1>11
  <1>14. CASE k = 0
    <2>1. a = total
      BY <1>14, <1>1, <1>7, <1>10
    <2> QED BY <2>1 DEF a, total
  <1> QED BY <1>12, <1>13, <1>14

LEMMA SoundAddsUp ==
  ASSUME NEW e, Sound(e)
  PROVE  /\ \A u \in DOMAIN e.shares : e.shares[u] >= 0
         /\ Wrap(SumFunction(e.shares)) = e.amount
         /\ \/ SumFunction(e.shares) = e.amount
            \/ e.method # "equal" /\ Cardinality(DOMAIN e.shares) >= 3
  <1> DEFINE s == e.shares
             in == Request(e)
  <1>1. PICK M \in SUBSET Users : s \in Shares(in, M)
    BY DEF Sound
  <1>2. /\ in.amount = e.amount /\ in.method = e.method /\ e.amount > 0
        /\ Converted(in)
    BY DEF Sound, Request
  <1> HIDE DEF in
  <1>3. /\ IsFiniteSet(DOMAIN s) /\ \A u \in DOMAIN s : s[u] \in Int64
        /\ Wrap(SumFunction(s)) = e.amount
        /\ e.method = "equal" => SumFunction(s) = e.amount
    BY <1>1, <1>2, SharesSum
  <1>4. \A u \in DOMAIN s : s[u] >= 0
    BY DEF Sound
  <1>5. Cardinality(DOMAIN s) \in Nat
    BY <1>3, FS_CardinalityType
  <1> HIDE DEF s
  <1>6. Cardinality(DOMAIN s) <= 2 => SumFunction(s) = e.amount
    BY <1>2, <1>3, <1>4, TwoAddUp
  <1>7. \/ SumFunction(s) = e.amount
        \/ e.method # "equal" /\ Cardinality(DOMAIN s) >= 3
    BY <1>3, <1>5, <1>6
  <1> QED BY <1>3, <1>4, <1>7 DEF s

\* The shares of every stored expense add up to its amount, unless the exact
\* amounts or the percentages of three people or more have wrapped around.
THEOREM LedgerSharesAddUp == Spec => []SharesAddUp
  <1>1. StoredInv => SharesAddUp
    BY SoundAddsUp DEF StoredInv, Stored, SharesAddUp
  <1> QED BY <1>1, StoredAlways, PTL

LEMMA SoundEqualIsFair ==
  ASSUME NEW e, Sound(e), e.method = "equal"
  PROVE  LET n == Cardinality(DOMAIN e.shares)
             Excess(u) == n * e.shares[u] - e.amount
         IN \E one \in DOMAIN e.shares :
              /\ -n * n <= Excess(one) /\ Excess(one) <= n * n
              /\ \A u \in DOMAIN e.shares \ {one} : -1 * n <= Excess(u) /\ Excess(u) <= 1 * n
  <1> DEFINE s == e.shares
             a == e.amount
  <1>1. PICK M \in SUBSET Users : s \in Shares(Request(e), M)
    BY DEF Sound
  <1>2. PICK last \in M : s = EqualShares(a, M, last)
    BY <1>1 DEF Shares, Request
  <1>3. a \in Nat
    BY Int64IsInt DEF Sound, Converted, Request
  <1>4. IsFiniteSet(M)
    BY LedgerAssumption, FS_Subset
  <1> DEFINE n == Cardinality(M)
  <1>5. /\ DOMAIN s = M /\ n \in Nat \ {0}
        /\ \A u \in M : s[u] \in 0 .. a
        /\ \A u \in M \ {last} : n * s[u] <= a /\ a <= n * s[u] + n
        /\ n * s[last] - a \in 0 .. n * n
    <2> HIDE DEF a
    <2> QED BY ONLY <1>2, <1>3, <1>4, EqualSharesAddUp
  <1> HIDE DEF s, a, n
  <1>6. -n * n <= n * s[last] - a /\ n * s[last] - a <= n * n
    <2>1. n * n >= 0 /\ -n * n = -(n * n)
      BY <1>5
    <2> QED BY <2>1, <1>5
  <1>7. ASSUME NEW u \in M \ {last}
        PROVE  -1 * n <= n * s[u] - a /\ n * s[u] - a <= 1 * n
    <2>1. s[u] \in Int /\ n * s[u] \in Int
      BY <1>5
    <2> QED BY <2>1, <1>3, <1>5
  <1>8. \E one \in M : /\ -n * n <= n * s[one] - a /\ n * s[one] - a <= n * n
                      /\ \A u \in M \ {one} : -1 * n <= n * s[u] - a /\ n * s[u] - a <= 1 * n
    BY <1>6, <1>7
  <1> QED BY <1>5, <1>8 DEF s, a, n

LEMMA SoundPercentageIsFair ==
  ASSUME NEW e, Sound(e), e.method = "percentage", SumFunction(e.asked) = 10000
  PROVE  LET n == Cardinality(DOMAIN e.shares)
             Excess(u) == 2 * (10000 * e.shares[u] - e.amount * e.asked[u])
         IN \E one \in DOMAIN e.shares :
              /\ \A v \in DOMAIN e.asked : e.asked[v] <= e.asked[one]
              /\ -n * 10000 <= Excess(one) /\ Excess(one) <= n * 10000
              /\ \A u \in DOMAIN e.shares \ {one} :
                   -1 * 10000 <= Excess(u) /\ Excess(u) <= 1 * 10000
  <1> DEFINE s == e.shares
             a == e.amount
             bp == e.asked
             n == Cardinality(DOMAIN bp)
  <1>1. PICK M \in SUBSET Users : s \in Shares(Request(e), M)
    BY DEF Sound
  <1>2. PICK top \in Largest(bp) : s = PercentageShares(a, bp, top)
    BY <1>1 DEF Shares, Request
  <1>3. /\ a \in Int64 /\ a > 0 /\ IsFiniteSet(DOMAIN bp)
        /\ \A u \in DOMAIN bp : bp[u] \in Int64
    BY DEF Sound, Converted, Request
  <1>4. top \in DOMAIN bp /\ \A u \in DOMAIN bp : bp[u] <= bp[top]
    BY DEF Largest
  <1>5. DOMAIN s = DOMAIN bp
    <2> HIDE DEF s, a, bp
    <2> QED BY ONLY <1>2, <1>3, <1>4, PercentageForm
  <1>6. DOMAIN s \subseteq Users /\ \A u \in DOMAIN s : s[u] >= 0
    BY DEF Sound
  <1>7. n < Modulus \div 2
    <2>1. /\ IsFiniteSet(Users) /\ Cardinality(Users) < Modulus \div 2
          /\ Cardinality(Users) \in Nat /\ n \in Nat
      BY <1>3, LedgerAssumption, FS_CardinalityType
    <2>2. n <= Cardinality(Users)
      BY <2>1, <1>5, <1>6, FS_Subset
    <2> QED BY <2>1, <2>2, Width
  <1>8. SumFunction(bp) = 10000
    OBVIOUS
  <1>9. \A u \in DOMAIN bp : PercentageShares(a, bp, top)[u] >= 0
    BY <1>2, <1>5, <1>6
  <1> HIDE DEF a, bp
  <1>10. /\ \A u \in DOMAIN bp \ {top} :
              /\ -10000 <= 2 * (10000 * s[u] - a * bp[u])
              /\ 2 * (10000 * s[u] - a * bp[u]) <= 10000
         /\ -n * 10000 <= 2 * (10000 * s[top] - a * bp[top])
         /\ 2 * (10000 * s[top] - a * bp[top]) <= n * 10000
    BY ONLY <1>2, <1>3, <1>7, <1>8, <1>9, FairPercentages
  <1> HIDE DEF s, n
  <1>11. \E one \in DOMAIN bp :
           /\ \A v \in DOMAIN bp : bp[v] <= bp[one]
           /\ -n * 10000 <= 2 * (10000 * s[one] - a * bp[one])
           /\ 2 * (10000 * s[one] - a * bp[one]) <= n * 10000
           /\ \A u \in DOMAIN bp \ {one} :
                /\ -1 * 10000 <= 2 * (10000 * s[u] - a * bp[u])
                /\ 2 * (10000 * s[u] - a * bp[u]) <= 1 * 10000
    BY <1>4, <1>10
  <1> QED BY <1>5, <1>11 DEF s, a, bp, n

\* All but one share of an expense are within a unit of what they should be, or
\* half a unit, and one of the largest is off by no more than all together,
\* unless the percentages have wrapped around.
THEOREM LedgerFairShares == Spec => []FairShares
  <1>1. ASSUME StoredInv, NEW id \in DOMAIN expenses
        PROVE  Sound(expenses[id])
    BY <1>1 DEF StoredInv, Stored
  <1>2. StoredInv => FairShares
    BY <1>1, SoundEqualIsFair, SoundPercentageIsFair DEF FairShares
  <1> QED BY <1>2, StoredAlways, PTL

\* Percentages that add up to 100 are not refused in a currency with decimals,
\* and give nobody a negative share, if the amount is large enough.
THEOREM LedgerPercentagesPass == Spec => []PercentagesPass
  <1>1. ASSUME StoredInv, NEW w \in Workers,
               step[w] = "getMembers", req[w].input.method = "percentage",
               \A u \in DOMAIN req[w].input.splits : req[w].input.splits[u] >= 0,
               SumFunction(req[w].input.splits) = 100 * MinorUnitFactor(currency),
               currency # "JPY",
               2 * req[w].input.amount
                 >= Cardinality(DOMAIN req[w].input.splits)
                      * (Cardinality(DOMAIN req[w].input.splits) + 1)
        PROVE  /\ Shares(req[w].input, members) # {}
               /\ \A s \in Shares(req[w].input, members), u \in DOMAIN req[w].input.splits :
                    s[u] >= 0
    <2> DEFINE in == req[w].input
               a == in.amount
               bp == in.splits
    <2>1. SumFunction(bp) = 10000
      BY <1>1 DEF MinorUnitFactor
    <2>2. /\ Converted(in) /\ a > 0
      BY <1>1 DEF StoredInv, TypeInv, Amounts, Inputs, Steps
    <2>3. /\ a \in Int64 /\ IsFiniteSet(DOMAIN bp)
          /\ \A u \in DOMAIN bp : bp[u] \in Int64 /\ bp[u] >= 0
      BY <1>1, <2>2 DEF Converted
    <2>4. Wrap(SumFunction(bp)) = 10000
      BY <2>1, Width, WrapSame DEF Int64
    <2>5. Shares(in, members) = {PercentageShares(a, bp, top) : top \in Largest(bp)}
      BY <1>1, <2>4 DEF Shares
    <2>6. \A top \in Largest(bp), u \in DOMAIN bp : PercentageShares(a, bp, top)[u] >= 0
      <3>1. 2 * a >= Cardinality(DOMAIN bp) * (Cardinality(DOMAIN bp) + 1)
        BY <1>1
      <3> HIDE DEF in, a, bp
      <3> QED BY ONLY <3>1, <2>1, <2>2, <2>3, PercentagesSuffice
    <2>7. Largest(bp) # {}
      <3>1. DOMAIN bp # {}
        BY <2>1, SumOfNothing DEF SumFunction
      <3> QED BY <2>3, <3>1, SomeLargest
    <2> QED BY <2>5, <2>6, <2>7
  <1>2. StoredInv => PercentagesPass
    BY <1>1 DEF PercentagesPass
  <1> QED BY <1>2, StoredAlways, PTL

-----------------------------------------------------------------------------
(* What is stored is what was asked for, converted once.                    *)

AsAsked(amount, wanted) == wanted \in Int /\ amount = ToMinor(wanted, currency)

AmountsInv ==
  /\ TypeInv
  /\ \A w \in Workers : step[w] \in Steps \ {"idle", "reply"} =>
       AsAsked(req[w].input.amount, req[w].wanted)
  /\ \A id \in DOMAIN expenses : AsAsked(expenses[id].amount, expenses[id].wanted)

LEMMA NothingIsZero == \A c : ToMinor(0, c) = 0
  <1> SUFFICES ASSUME NEW c PROVE ToMinor(0, c) = 0
    OBVIOUS
  <1>1. MinorUnitFactor(c) \in {1, 100}
    BY DEF MinorUnitFactor
  <1>2. RoundDiv(0 * MinorUnitFactor(c), 100) = 0
    <2>1. 0 * MinorUnitFactor(c) = 0
      BY <1>1
    <2>2. RoundDiv(0, 100) \in Int /\ -100 <= 200 * RoundDiv(0, 100)
          /\ 200 * RoundDiv(0, 100) <= 100
      BY RoundDivError
    <2> QED BY <2>1, <2>2
  <1>3. 0 \in Int64 /\ ~(0 < -(Modulus \div 2)) /\ ~(0 > Modulus \div 2 - 1)
    BY Width DEF Int64
  <1> QED BY <1>2, <1>3 DEF ToMinor, ToInt64

LEMMA AmountsStore ==
  ASSUME AmountsInv, NEW w \in Workers, Store(w)
  PROVE  \A id \in DOMAIN expenses' : AsAsked(expenses[id].amount, expenses[id].wanted)'
  <1>1. AsAsked(req[w].input.amount, req[w].wanted)
    BY DEF AmountsInv, Store, Steps
  <1>2. /\ DOMAIN expenses' = DOMAIN expenses \cup {made + 1} /\ currency' = currency
        /\ expenses'[made + 1].amount = req[w].input.amount
        /\ expenses'[made + 1].wanted = req[w].wanted
        /\ \A id \in DOMAIN expenses \ {made + 1} : expenses'[id] = expenses[id]
    BY DEF Store
  <1> QED BY <1>1, <1>2 DEF AmountsInv, AsAsked

LEMMA AmountsNext == AmountsInv /\ [Next]_vars => AmountsInv'
  <1> SUFFICES ASSUME AmountsInv, [Next]_vars PROVE AmountsInv'
    OBVIOUS
  <1>0. TypeInv /\ TypeInv'
    BY NextType DEF AmountsInv
  <1>1. ASSUME UNCHANGED <<req, step, currency>>, expenses' \in {expenses, <<>>}
        PROVE  AmountsInv'
    BY <1>0, <1>1 DEF AmountsInv, AsAsked
  <1>2. ASSUME NEW w \in Workers, UNCHANGED currency, step'[w] \in {"idle", "reply"},
               \A v \in Workers \ {w} : step'[v] = step[v] /\ req'[v] = req[v],
               expenses' = expenses \/ Store(w)
        PROVE  AmountsInv'
    <2>1. \A id \in DOMAIN expenses' : AsAsked(expenses[id].amount, expenses[id].wanted)'
      BY <1>2, AmountsStore DEF AmountsInv, AsAsked
    <2> QED BY <1>0, <1>2, <2>1 DEF AmountsInv, AsAsked
  <1>3. ASSUME NEW w \in Workers, End(w) PROVE AmountsInv'
    BY <1>0, <1>2, <1>3, IdleOthers DEF End, tables
  <1>4. ASSUME NEW w \in Workers, NEW next, Goto(w, next), step[w] \notin {"idle", "reply"},
               UNCHANGED req
        PROVE  AmountsInv'
    <2>1. /\ \A v \in Workers \ {w} : step'[v] = step[v]
          /\ UNCHANGED <<req, currency, expenses>> /\ step[w] \in Steps
      BY <1>0, <1>4 DEF Goto, TypeInv, TypeOK, tables
    <2> QED BY <1>0, <1>4, <2>1 DEF AmountsInv, AsAsked
  <1>5. ASSUME NEW w \in Workers, NEW r, Arrive(w, r), AsAsked(r.input.amount, r.wanted)
        PROVE  AmountsInv'
    <2>1. /\ req'[w] = r /\ UNCHANGED <<currency, expenses>>
          /\ \A v \in Workers \ {w} : step'[v] = step[v] /\ req'[v] = req[v]
      BY <1>0, <1>5 DEF Arrive, TypeInv, TypeOK, tables
    <2> QED BY <1>0, <1>5, <2>1 DEF AmountsInv, AsAsked
  <1>6. ASSUME NEW w \in Workers, NEW u \in Users, NEW b \in Bodies, Begin(w, u, b)
        PROVE  AmountsInv'
    BY <1>5, <1>6, LedgerAssumption DEF Begin, Minor, AsAsked
  <1>7. ASSUME NEW w \in Workers, NEW u \in Users, Ask(w, u) PROVE AmountsInv'
    BY <1>5, <1>7, NothingIsZero DEF Ask, NoInput, AsAsked
  <1>8. ASSUME NEW w \in Workers, Create(w) \/ CreateUnacknowledged(w) PROVE AmountsInv'
    <2>1. /\ Store(w) /\ UNCHANGED currency /\ step'[w] \in {"idle", "reply"}
          /\ \A v \in Workers \ {w} : step'[v] = step[v] /\ req'[v] = req[v]
      BY <1>0, <1>8, IdleOthers
         DEF Create, CreateUnacknowledged, Store, TypeInv, TypeOK
    <2> QED BY <1>2, <2>1
  <1>9. ASSUME NEW w \in Workers,
               IsMember(w) \/ GetCurrency(w) \/ GetMembers(w) \/ GetBalances(w)
        PROVE  AmountsInv'
    BY <1>3, <1>4, <1>9 DEF IsMember, GetCurrency, GetMembers, GetBalances
  <1>10. ASSUME NEW id \in DOMAIN push,
                \/ ReadBalances(id) \/ ReadCutShort(id) \/ ReadCancelled(id) \/ Broadcast(id)
         PROVE  AmountsInv'
    BY <1>1, <1>10
       DEF ReadBalances, ReadCutShort, ReadCancelled, ReadAs, Broadcast, tables, control
  <1>11. ASSUME NEW u \in Users, Join(u) \/ Leave(u) PROVE AmountsInv'
    BY <1>1, <1>11 DEF Join, Leave, MembershipChanges, control
  <1>12. CASE DeleteGroup
    BY <1>1, <1>12 DEF DeleteGroup, MembershipChanges, control
  <1>13. CASE UNCHANGED vars
    BY <1>1, <1>13 DEF vars, tables, control
  <1> QED BY <1>3, <1>6, <1>7, <1>8, <1>9, <1>10, <1>11, <1>12, <1>13
          DEF Next, RolledBack, Reply, Fail, GetMyBalance

\* A conversion that yields a positive number is off by half a unit at most, or
\* is that of a number too large.
LEMMA ConversionError ==
  ASSUME NEW n \in Int, ToInt64(RoundDiv(n, 100)) > 0
  PROVE  LET a == ToInt64(RoundDiv(n, 100)) IN
         \/ -100 <= 2 * (100 * a - n) /\ 2 * (100 * a - n) <= 100
         \/ a = TooLarge /\ n > 100 * TooLarge
  <1> DEFINE H == Modulus \div 2
             r == RoundDiv(n, 100)
  <1>1. /\ r \in Int /\ -100 <= 2 * (100 * r - n) /\ 2 * (100 * r - n) <= 100
    BY RoundDivError
  <1>2. H \in Nat /\ H > 10000
    BY Width
  <1>3. TooLarge \in {-H, H - 1}
    BY SplitsAssumption
  <1>4. Int64 = -H .. H - 1
    BY DEF Int64
  <1>5. \/ r < -H /\ ToInt64(r) = -H
        \/ r \in -H .. H - 1 /\ ToInt64(r) = r
        \/ r > H - 1 /\ ToInt64(r) = TooLarge
    <2> HIDE DEF r
    <2>1. r < -H \/ r \in -H .. H - 1 \/ r > H - 1
      BY <1>1, <1>2
    <2>2. ~(r < -H /\ r \in -H .. H - 1) /\ ~(r < -H /\ r > H - 1) /\ ~(r \in -H .. H - 1 /\ r > H - 1)
      BY <1>1, <1>2
    <2> QED BY <2>1, <2>2, <1>4 DEF ToInt64
  <1> HIDE DEF r, H
  <1> QED BY <1>1, <1>2, <1>3, <1>5 DEF r

\* Whatever the number in a body, what is stored is its amount to half a minor
\* unit, or the largest int64 where numbers too large become that.
THEOREM LedgerAmountAsAsked == Spec => []AmountAsAsked
  <1>1. Init => AmountsInv
    BY InitType DEF Init, AmountsInv
  <1>2. ASSUME AmountsInv PROVE AmountAsAsked
    <2> SUFFICES ASSUME NEW id \in DOMAIN expenses
                 PROVE  LET e == expenses[id]
                            asked == e.wanted * MinorUnitFactor(currency)
                        IN \/ /\ -100 <= 2 * (100 * e.amount - asked)
                              /\ 2 * (100 * e.amount - asked) <= 100
                           \/ e.amount = TooLarge /\ asked > 100 * TooLarge
      BY DEF AmountAsAsked
    <2> DEFINE asked == expenses[id].wanted * MinorUnitFactor(currency)
    <2>1. AsAsked(expenses[id].amount, expenses[id].wanted) /\ expenses[id].amount > 0
      BY <1>2 DEF AmountsInv, TypeInv, TypeOK
    <2>2. MinorUnitFactor(currency) \in {1, 100}
      BY DEF MinorUnitFactor
    <2>3. asked \in Int /\ expenses[id].amount = ToInt64(RoundDiv(asked, 100))
      BY <2>1, <2>2 DEF AsAsked, ToMinor
    <2> HIDE DEF asked
    <2>4. \/ /\ -100 <= 2 * (100 * expenses[id].amount - asked)
             /\ 2 * (100 * expenses[id].amount - asked) <= 100
          \/ expenses[id].amount = TooLarge /\ asked > 100 * TooLarge
      BY <2>1, <2>3, ConversionError
    <2> QED BY <2>4 DEF asked
  <1> QED BY <1>1, <1>2, AmountsNext, PTL DEF Spec

-----------------------------------------------------------------------------
(* What balances add up to.  Each row of somebody else's expense is added   *)
(* to the payer's balance and taken from the debtor's.                      *)

Share == [r \in SplitRows |-> expenses[r[1]].shares[r[2]]]
Payer == [r \in SplitRows |-> expenses[r[1]].payer]
Debtor == [r \in SplitRows |-> r[2]]
Debts == {r \in SplitRows : Payer[r] # Debtor[r]}

LEMMA RowsType ==
  ASSUME StoredInv
  PROVE  /\ IsFiniteSet(SplitRows)
         /\ \A r \in SplitRows : /\ Share[r] \in Int
                                 /\ Payer[r] \in Users /\ Debtor[r] \in Users
                                 /\ Payer[r] \in Sharers /\ Debtor[r] \in Sharers
  <1>1. ASSUME NEW r \in SplitRows
        PROVE  r[1] \in DOMAIN expenses /\ r[2] \in DOMAIN expenses[r[1]].shares
               /\ r = <<r[1], r[2]>>
    BY DEF SplitRows
  <1>2. ASSUME NEW id \in DOMAIN expenses, NEW u \in DOMAIN expenses[id].shares
        PROVE  /\ expenses[id].shares[u] \in Int /\ u \in Users
               /\ expenses[id].payer \in Users /\ id \in 1 .. made
    <2> DEFINE e == expenses[id]
               in == Request(e)
    <2>1. Sound(e)
      BY DEF StoredInv, Stored
    <2>2. PICK M \in SUBSET Users : e.shares \in Shares(in, M)
      BY <2>1 DEF Sound
    <2>3. Converted(in) /\ in.amount > 0
      BY <2>1 DEF Sound, Request
    <2>4. e.shares[u] \in Int64
      <3> HIDE DEF in, e
      <3>1. u \in DOMAIN e.shares
        BY DEF e
      <3> QED BY <3>1, <2>2, <2>3, SharesSum
    <2>5. u \in Users
      BY <2>1 DEF Sound
    <2>6. e.payer \in Users /\ id \in 1 .. made
      BY DEF StoredInv, TypeInv, TypeOK
    <2> QED BY <2>4, <2>5, <2>6, Int64IsInt
  <1>3. IsFiniteSet((1 .. made) \X Users)
    <2>1. made \in Int
      BY LedgerAssumption DEF StoredInv, TypeInv, TypeOK
    <2>2. IsFiniteSet(1 .. made)
      BY <2>1, FS_Interval
    <2> QED BY <2>2, LedgerAssumption, FS_Product
  <1>4. SplitRows \subseteq (1 .. made) \X Users
    BY <1>1, <1>2
  <1>5. IsFiniteSet(SplitRows)
    BY <1>3, <1>4, FS_Subset
  <1>6. ASSUME NEW r \in SplitRows
        PROVE  /\ Share[r] \in Int /\ Payer[r] \in Users /\ Debtor[r] \in Users
               /\ Payer[r] \in Sharers /\ Debtor[r] \in Sharers
    <2>1. /\ Share[r] = expenses[r[1]].shares[r[2]] /\ Payer[r] = expenses[r[1]].payer
          /\ Debtor[r] = r[2]
      BY DEF Share, Payer, Debtor
    <2>2. {Payer[r], Debtor[r]}
            \subseteq DOMAIN expenses[r[1]].shares \cup {expenses[r[1]].payer}
      BY <1>1, <2>1
    <2>3. Payer[r] \in Sharers /\ Debtor[r] \in Sharers
      BY <1>1, <2>2 DEF Sharers
    <2> QED BY <1>1, <1>2, <2>1, <2>3
  <1> QED BY <1>5, <1>6

\* The rows joined to a member are those the other query adds up.
LEMMA QueriesAgree == \A m \in members : GroupBalances[m] = NetBalance(m)
  <1> SUFFICES ASSUME NEW m \in members PROVE GroupBalances[m] = NetBalance(m)
    OBVIOUS
  <1>1. /\ {r \in RowsOf(m) : PayerOf(r) = m /\ r[2] # m}
             = {r \in SplitRows : PayerOf(r) = m /\ r[2] # m}
        /\ {r \in RowsOf(m) : r[2] = m /\ PayerOf(r) # m}
             = {r \in SplitRows : PayerOf(r) # m /\ r[2] = m}
    BY DEF RowsOf
  <1> QED BY <1>1 DEF GroupBalances, NetBalance

\* The balances listed are integers.
LEMMA BalanceIsInt ==
  ASSUME StoredInv, NEW u \in members
  PROVE  GroupBalances[u] \in Int
  <1> DEFINE Credits == {r \in SplitRows : expenses[r[1]].payer = u /\ r[2] # u}
             Owing == {r \in SplitRows : expenses[r[1]].payer # u /\ r[2] = u}
  <1>1. IsFiniteSet(Credits) /\ IsFiniteSet(Owing)
    BY RowsType, FS_Subset
  <1>2. \A r \in Credits \cup Owing : Share[r] \in Int
    BY RowsType
  <1>3. SumFunctionOnSet(Share, Credits) \in Int /\ SumFunctionOnSet(Share, Owing) \in Int
    <2> HIDE DEF Credits, Owing
    <2> QED BY <1>1, <1>2, SumInt
  <1>4. GroupBalances[u] = SumFunctionOnSet(Share, Credits) - SumFunctionOnSet(Share, Owing)
    BY QueriesAgree DEF NetBalance, Owed, Share, PayerOf
  <1> HIDE DEF Credits, Owing
  <1> QED BY <1>3, <1>4

\* Whoever is added up, if everybody who shares in an expense is among them,
\* what some are owed others owe.
LEMMA NetBalancesAddUp ==
  ASSUME StoredInv, NEW K, IsFiniteSet(K), NEW net, \A u \in K : net[u] = NetBalance(u),
         \A r \in SplitRows : Payer[r] \in K /\ Debtor[r] \in K
  PROVE  SumFunctionOnSet(net, K) = 0
  <1> DEFINE credits == [u \in K |-> {r \in Debts : Payer[r] = u}]
             owing == [u \in K |-> {r \in Debts : Debtor[r] = u}]
             credit == [u \in K |-> SumFunctionOnSet(Share, credits[u])]
             debit == [u \in K |-> SumFunctionOnSet(Share, owing[u])]
  <1>1. /\ IsFiniteSet(Debts) /\ \A r \in Debts : r \in SplitRows /\ Share[r] \in Int
    BY RowsType, FS_Subset DEF Debts
  <1>2. ASSUME NEW u \in K
        PROVE  /\ net[u] = credit[u] - debit[u] /\ credit[u] \in Int /\ debit[u] \in Int
    <2>1. {r \in SplitRows : expenses[r[1]].payer = u /\ r[2] # u} = credits[u]
      BY DEF Debts, Payer, Debtor
    <2>2. {r \in SplitRows : expenses[r[1]].payer # u /\ r[2] = u} = owing[u]
      BY DEF Debts, Payer, Debtor
    <2>3. NetBalance(u) = SumFunctionOnSet(Share, credits[u]) - SumFunctionOnSet(Share, owing[u])
      BY <2>1, <2>2 DEF NetBalance, Owed, Share, PayerOf
    <2>4. IsFiniteSet(credits[u]) /\ IsFiniteSet(owing[u])
      BY <1>1, FS_Subset
    <2>5. /\ SumFunctionOnSet(Share, credits[u]) \in Int
          /\ SumFunctionOnSet(Share, owing[u]) \in Int
      BY <1>1, <2>4, SumInt
    <2> QED BY <2>3, <2>5
  <1>3. \A u \in K : /\ credit[u] = SumFunctionOnSet(Share, credits[u])
                    /\ debit[u] = SumFunctionOnSet(Share, owing[u])
    OBVIOUS
  <1> HIDE DEF credit, debit
  <1>4. /\ \A u \in K : credits[u] \subseteq Debts /\ \A r \in Debts : r \in credits[u] <=> Payer[r] = u
        /\ \A u \in K : owing[u] \subseteq Debts /\ \A r \in Debts : r \in owing[u] <=> Debtor[r] = u
    OBVIOUS
  <1>5. \A r \in Debts : Payer[r] \in K /\ Debtor[r] \in K
    BY <1>1
  <1> HIDE DEF credits, owing
  <1>6. /\ SumFunctionOnSet(credit, K) = SumFunctionOnSet(Share, Debts)
        /\ SumFunctionOnSet(debit, K) = SumFunctionOnSet(Share, Debts)
    BY <1>1, <1>3, <1>4, <1>5, SumByKey
  <1>7. /\ SumFunctionOnSet(net, K) = SumFunctionOnSet(credit, K) - SumFunctionOnSet(debit, K)
        /\ SumFunctionOnSet(credit, K) \in Int
    BY <1>2, SumOfMinus
  <1> QED BY <1>6, <1>7

\* If nobody who shares in an expense has left, the members' balances add up.
LEMMA MembersAddUp ==
  ASSUME StoredInv, Sharers \subseteq members
  PROVE  SumFunctionOnSet(GroupBalances, members) = 0
  <1>1. IsFiniteSet(members)
    BY LedgerAssumption, FS_Subset DEF StoredInv, TypeInv, TypeOK
  <1>2. \A u \in members : GroupBalances[u] = NetBalance(u)
    BY QueriesAgree
  <1>3. \A r \in SplitRows : Payer[r] \in members /\ Debtor[r] \in members
    BY RowsType
  <1> QED BY <1>1, <1>2, <1>3, NetBalancesAddUp

\* The two queries agree, the balances of all users add up to zero, and so do those of the members, if
\* nobody who shares in an expense has left.
THEOREM LedgerBalancesAddUp == Spec => []BalancesAddUp
  <1>1. ASSUME StoredInv
        PROVE  SumFunction([u \in Users |-> NetBalance(u)]) = 0
    <2> DEFINE net == [u \in Users |-> NetBalance(u)]
    <2>1. /\ DOMAIN net = Users /\ IsFiniteSet(Users)
          /\ \A u \in Users : net[u] = NetBalance(u)
      BY LedgerAssumption
    <2>2. \A r \in SplitRows : Payer[r] \in Users /\ Debtor[r] \in Users
      BY <1>1, RowsType
    <2> HIDE DEF net
    <2>3. SumFunctionOnSet(net, Users) = 0
      BY <1>1, <2>1, <2>2, NetBalancesAddUp
    <2>4. SumFunction(net) = 0
      BY <2>1, <2>3 DEF SumFunction
    <2> QED BY <2>4 DEF net
  <1>2. ASSUME StoredInv, Sharers \subseteq members
        PROVE  SumFunction(GroupBalances) = 0
    <2>1. DOMAIN GroupBalances = members
      BY DEF GroupBalances
    <2> QED BY <1>2, <2>1, MembersAddUp DEF SumFunction
  <1>3. StoredInv => BalancesAddUp
    BY <1>1, <1>2, QueriesAgree DEF BalancesAddUp
  <1> QED BY <1>3, StoredAlways, PTL

\* Only a request for the balances goes into the loop, and only if the one
\* member listed has a balance.
LEMMA EndlessStep ==
  ASSUME TypeInv, [Next]_vars, NEW w \in Workers, step[w] # "endless", step'[w] = "endless"
  PROVE  Endless(GroupBalances)
  <1>1. CASE UNCHANGED vars
    BY <1>1 DEF vars, control
  <1>2. ASSUME NEW v \in Workers, NEW next \in Steps \ {"endless"},
               step' = [step EXCEPT ![v] = next]
        PROVE  FALSE
    BY <1>2 DEF TypeInv, TypeOK
  <1>3. ASSUME NEW v \in Workers, End(v) PROVE FALSE
    BY <1>2, <1>3 DEF End, Idle, Steps
  <1>4. ASSUME NEW v \in Workers, GetBalances(v) PROVE Endless(GroupBalances)
    BY <1>3, <1>4 DEF GetBalances
  <1>5. ASSUME NEW v \in Workers, NEW r, Arrive(v, r) PROVE FALSE
    BY <1>2, <1>5 DEF Arrive, Steps
  <1>6. ASSUME NEW v \in Workers, IsMember(v) \/ GetCurrency(v) \/ GetMembers(v) PROVE FALSE
    BY <1>2, <1>3, <1>6 DEF IsMember, GetCurrency, GetMembers, Goto, Steps
  <1>7. ASSUME NEW v \in Workers, Create(v) \/ CreateUnacknowledged(v) PROVE FALSE
    BY <1>2, <1>7 DEF Create, CreateUnacknowledged, Idle, Steps
  <1>8. CASE UNCHANGED step
    BY <1>8
  <1>9. ASSUME NEW id \in DOMAIN push,
               \/ ReadBalances(id) \/ ReadCutShort(id) \/ ReadCancelled(id) \/ Broadcast(id)
        PROVE  Endless(GroupBalances)
    BY <1>8, <1>9 DEF ReadBalances, ReadCutShort, ReadCancelled, ReadAs, Broadcast, control
  <1>10. CASE MembershipChanges
    BY <1>8, <1>10 DEF MembershipChanges, control
  <1> QED BY <1>1, <1>3, <1>4, <1>5, <1>6, <1>7, <1>9, <1>10
          DEF Next, Begin, Ask, RolledBack, Reply, Fail, GetMyBalance, Join, Leave, DeleteGroup

\* A request for the balances never ends only if somebody the last member has
\* shared an expense with is no member any more.
THEOREM LedgerEndlessNeedsDeparture == Spec => EndlessNeedsDeparture
  <1>1. ASSUME StoredInv, [Next]_vars, NEW w \in Workers,
               step[w] # "endless", step'[w] = "endless", Sharers \subseteq members
        PROVE  FALSE
    <2>1. PICK u \in members : members = {u} /\ GroupBalances[u] # 0
      BY <1>1, EndlessStep DEF StoredInv, Endless, GroupBalances
    <2>2. SumFunctionOnSet(GroupBalances, {u}) = 0
      BY <1>1, <2>1, MembersAddUp
    <2>3. GroupBalances[u] \in Int
      BY <1>1, <2>1, BalanceIsInt
    <2> QED BY <2>1, <2>2, <2>3, SumOfOne
  <1>2. StoredInv /\ [Next]_vars =>
          [\A w \in Workers : step[w] # "endless" /\ step'[w] = "endless" =>
             ~(Sharers \subseteq members)]_vars
    BY <1>1
  <1> QED BY <1>2, StoredAlways, PTL DEF Spec, EndlessNeedsDeparture

-----------------------------------------------------------------------------
(* What clients see.  When every expense is stored and every goroutine has  *)
(* read the balances, the list read last is that of the table as it is.     *)

AllRead == \A id \in 1 .. made : id \in DOMAIN push /\ push[id].stage # "read"

LatestIsCurrent ==
  latest # 0 /\ AllRead =>
    /\ push[latest].stage = "send" /\ push[latest].whole =>
         push[latest].list = GroupBalances
    /\ push[latest].stage = "sent" /\ shown.id = latest /\ shown.whole =>
         shown.list = GroupBalances

CurrentInv == TypeInv /\ LatestIsCurrent

LEMMA SameBalances ==
  ASSUME UNCHANGED <<members, expenses>>
  PROVE  GroupBalances' = GroupBalances
  <1> QED BY DEF GroupBalances, RowsOf, PayerOf, Owed, SplitRows

\* Steps that leave the tables, what is sent and what the goroutines have read.
LEMMA CurrentSame ==
  ASSUME CurrentInv, UNCHANGED <<members, expenses, made, shown, latest>>,
         DOMAIN push' = DOMAIN push,
         \A id \in DOMAIN push :
           /\ push'[id].stage = push[id].stage
           /\ push[id].stage # "read" =>
                push'[id].list = push[id].list /\ push'[id].whole = push[id].whole
  PROVE  LatestIsCurrent'
  <1>1. GroupBalances' = GroupBalances
    BY SameBalances
  <1>2. latest \in {0} \cup DOMAIN push
    BY DEF CurrentInv, TypeInv, TypeOK
  <1>3. AllRead' => AllRead
    BY DEF AllRead
  <1> QED BY <1>1, <1>2, <1>3 DEF CurrentInv, LatestIsCurrent

LEMMA CancelledKeeps ==
  ASSUME NEW w, push' = Cancelled(w)
  PROVE  /\ DOMAIN push' = DOMAIN push
         /\ \A id \in DOMAIN push :
              /\ push'[id].stage = push[id].stage /\ push'[id].list = push[id].list
              /\ push'[id].whole = push[id].whole
  <1> QED BY DEF Cancelled

\* A new expense is not announced yet.
LEMMA StoredNotRead ==
  ASSUME TypeInv, made' = made + 1,
         made + 1 \in DOMAIN push' => push'[made + 1].stage = "read"
  PROVE  LatestIsCurrent'
  <1>1. made + 1 \in 1 .. made'
    BY LedgerAssumption DEF TypeInv, TypeOK
  <1> QED BY <1>1 DEF AllRead, LatestIsCurrent

LEMMA CurrentNext == CurrentInv /\ [Next]_vars => LatestIsCurrent'
  <1> SUFFICES ASSUME CurrentInv, [Next]_vars PROVE LatestIsCurrent'
    OBVIOUS
  <1>0. TypeInv
    BY DEF CurrentInv
  <1>1. CASE UNCHANGED <<tables, push, shown, latest>>
    BY <1>1, CurrentSame DEF tables
  <1>2. ASSUME NEW w \in Workers, NEW r, Arrive(w, r) PROVE LatestIsCurrent'
    <2>1. CASE UNCHANGED push
      BY <1>1, <1>2, <2>1 DEF Arrive, history
    <2>2. ASSUME NEW id \in DOMAIN push, push[id].stage = "read",
                 push' = [push EXCEPT ![id] = Announcement(w)]
          PROVE  LatestIsCurrent'
      <3>1. /\ DOMAIN push' = DOMAIN push /\ push'[id].stage = "read"
            /\ \A i \in DOMAIN push \ {id} : push'[i] = push[i]
        BY <2>2 DEF Announcement
      <3> QED BY <1>2, <2>2, <3>1, CurrentSame DEF Arrive, tables, history
    <2> QED BY <1>2, <2>1, <2>2 DEF Arrive
  <1>3. ASSUME NEW w \in Workers, End(w) PROVE LatestIsCurrent'
    BY <1>3, CancelledKeeps, CurrentSame DEF End, Idle, tables
  <1>4. ASSUME NEW w \in Workers, NEW next, Goto(w, next) PROVE LatestIsCurrent'
    BY <1>1, <1>4 DEF Goto, history
  <1>5. ASSUME NEW w \in Workers, Create(w) PROVE LatestIsCurrent'
    BY <1>0, <1>5, StoredNotRead DEF Create, Store, Announcement
  <1>6. ASSUME NEW w \in Workers, CreateUnacknowledged(w) PROVE LatestIsCurrent'
    <2>1. made + 1 \notin DOMAIN push
      BY <1>0 DEF TypeInv, TypeOK
    <2>2. DOMAIN push' = DOMAIN push
      BY <1>6, CancelledKeeps DEF CreateUnacknowledged, Idle
    <2> QED BY <1>0, <1>6, <2>1, <2>2, StoredNotRead DEF CreateUnacknowledged, Store
  <1>7. ASSUME NEW id \in DOMAIN push, NEW list, NEW whole \in BOOLEAN, ReadAs(id, list, whole),
               whole => list = GroupBalances
        PROVE  LatestIsCurrent'
    <2>1. /\ latest' = id /\ push'[id].stage = "send" /\ push'[id].whole = whole
          /\ push'[id].list = list
      BY <1>7 DEF ReadAs
    <2>2. GroupBalances' = GroupBalances
      BY <1>7, SameBalances DEF ReadAs, tables
    <2> QED BY <1>7, <2>1, <2>2 DEF LatestIsCurrent
  <1>8. ASSUME NEW id \in DOMAIN push, ReadBalances(id) PROVE LatestIsCurrent'
    BY <1>7, <1>8 DEF ReadBalances, BalancesRead
  <1>9. ASSUME NEW id \in DOMAIN push, ReadCutShort(id) \/ ReadCancelled(id)
        PROVE  LatestIsCurrent'
    BY <1>7, <1>9 DEF ReadCutShort, ReadCancelled
  <1>10. ASSUME NEW id \in DOMAIN push, Broadcast(id) PROVE LatestIsCurrent'
    <2>1. /\ DOMAIN push' = DOMAIN push /\ push'[id].stage = "sent"
          /\ \A i \in DOMAIN push \ {id} : push'[i] = push[i]
          /\ shown'.id = id /\ shown'.list = push[id].list /\ shown'.whole = push[id].whole
      BY <1>10 DEF Broadcast, Sent
    <2>2. GroupBalances' = GroupBalances
      BY <1>10, SameBalances DEF Broadcast, tables
    <2>3. AllRead' => AllRead
      BY <1>10, <2>1 DEF AllRead, Broadcast, tables
    <2>4. UNCHANGED latest /\ latest \in {0} \cup DOMAIN push
      BY <1>0, <1>10 DEF Broadcast, history, TypeInv, TypeOK
    <2>5. push[id].stage = "send"
      BY <1>10 DEF Broadcast
    <2> QED BY <2>1, <2>2, <2>3, <2>4, <2>5 DEF CurrentInv, LatestIsCurrent
  <1>11. CASE MembershipChanges
    BY <1>11 DEF MembershipChanges, LatestIsCurrent
  <1> QED BY <1>1, <1>2, <1>3, <1>4, <1>5, <1>6, <1>8, <1>9, <1>10, <1>11
          DEF Next, vars, history, Begin, Ask, GetBalances, GetMyBalance, IsMember, GetCurrency, GetMembers, RolledBack, Reply,
              Fail, Join, Leave, DeleteGroup

\* When all announcements are out, clients see the balances as they are, unless
\* the last list sent is not the last one read or was cut short, or the members
\* have changed.
THEOREM LedgerLastUpdateCurrent == Spec => []LastUpdateCurrent
  <1>1. Init => CurrentInv
    BY InitType DEF Init, CurrentInv, LatestIsCurrent
  <1>2. CurrentInv /\ [Next]_vars => CurrentInv'
    BY NextType, CurrentNext DEF CurrentInv
  <1>3. CurrentInv => LastUpdateCurrent
    BY DEF CurrentInv, LatestIsCurrent, LastUpdateCurrent, Quiet, AllRead, TypeInv, TypeOK
  <1> QED BY <1>1, <1>2, <1>3, PTL DEF Spec
=============================================================================
