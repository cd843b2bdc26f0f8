------------------------------- MODULE Splits -------------------------------
(***************************************************************************)
(* computeSplits of internal/expense/service.go: what everybody owes of an *)
(* expense, in minor units of the group's currency, by the three methods,  *)
(* and the conversion of a request to minor units by the handler.  Amounts *)
(* and percentages come with two decimals at most: they are integers here, *)
(* in hundredths.                                                          *)
(***************************************************************************)
EXTENDS Integers, FiniteSets, Functions

CONSTANTS Modulus,   \* 2^64: the width of an int64
          TooLarge   \* what a float that no int64 can hold is converted to

Int64 == -(Modulus \div 2) .. Modulus \div 2 - 1

\* 100 % in basis points are an int64.  Go leaves open what TooLarge is: the
\* smallest int64 on amd64, the largest on arm64.
ASSUME SplitsAssumption ==
  /\ Modulus \in Nat /\ Modulus % 2 = 0 /\ Modulus > 20000
  /\ TooLarge \in {-(Modulus \div 2), Modulus \div 2 - 1}

\* The int64 that an integer wraps around to.
Wrap(n) == ((n + Modulus \div 2) % Modulus) - Modulus \div 2

\* Fault: towards minus infinity, as a shift or an integer division does.
RoundDown(n, d) == n \div d

\* n / d rounded to the nearest integer, halves away from zero (math.Round).
\* The code divides floats, which is exact enough below 2^38.
RoundDiv(n, d) ==
  IF n >= 0 THEN (2 * n + d) \div (2 * d) ELSE -((-2 * n + d) \div (2 * d))

\* Fault: a number that is too large wraps around, as an integer would.
Wrapping(n) == Wrap(n)

\* int64(x) of a float.
ToInt64(n) ==
  CASE n < -(Modulus \div 2) -> -(Modulus \div 2)
    [] n \in Int64 -> n
    [] n > Modulus \div 2 - 1 -> TooLarge

\* Of the fifteen currencies only the yen has no decimals.
MinorUnitFactor(currency) == IF currency = "JPY" THEN 1 ELSE 100

ToMinor(hundredths, currency) ==
  ToInt64(RoundDiv(hundredths * MinorUnitFactor(currency), 100))

\* The request's body in minor units.  The handler converts every value of
\* splits alike, percentages too.
Minor(body, currency) ==
  [method |-> body.method,
   amount |-> ToMinor(body.amount, currency),
   splits |-> [u \in DOMAIN body.splits |-> ToMinor(body.splits[u], currency)]]

-----------------------------------------------------------------------------
\* Fault: the last member pays the share only.
RemainderLost(amount, members, last) ==
  [u \in members |-> amount \div Cardinality(members)]

\* The last member absorbs the remainder.
EqualShares(amount, members, last) ==
  [u \in members |->
     amount \div Cardinality(members)
       + IF u = last THEN amount % Cardinality(members) ELSE 0]

Rounded(amount, bp) ==
  [u \in DOMAIN bp |-> ToInt64(RoundDiv(amount * bp[u], 10000))]

\* Fault: the first entry, as the loop finds it without its comparison.
Anybody(bp) == DOMAIN bp

\* The entries with most basis points.  Which of them comes first depends on
\* the order in which Go visits the map: any.
Largest(bp) == {u \in DOMAIN bp : \A v \in DOMAIN bp : bp[v] <= bp[u]}

\* What is left over, or given out too much, goes to one of the largest.
PercentageShares(amount, bp, top) ==
  [Rounded(amount, bp) EXCEPT
     ![top] = Wrap(@ + amount - SumFunction(Rounded(amount, bp)))]

\* The results computeSplits may have of an input in minor units, with the
\* members in any order (GetMembers has no ORDER BY); none if it refuses.
Shares(in, members) ==
  CASE in.method = "equal" ->
         {EqualShares(in.amount, members, last) : last \in members}
    [] in.method = "exact" ->
         {s \in {in.splits} : DOMAIN s # {} /\ Wrap(SumFunction(s)) = in.amount}
    [] in.method = "percentage" ->
         {PercentageShares(in.amount, in.splits, top) :
            top \in {u \in Largest(in.splits) : Wrap(SumFunction(in.splits)) = 10000}}
    [] OTHER -> {}
=============================================================================
