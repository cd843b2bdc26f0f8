------------------------------ MODULE MCLedger ------------------------------
(* Instances of Ledger for TLC.                                            *)
EXTENDS Ledger, TLC

CONSTANTS ann, bob, cat, nobody, w1, w2

\* What amd64 makes of a float that no int of 16 bits can hold.
SmallestInt == -32768

SplitsOver(values) == UNION {[S -> values] : S \in SUBSET Users}

EqualBodies(amounts) == [method : {"equal"}, amount : amounts, splits : {<<>>}]

\* Nearly all add up: the others only show that they are refused.
ExactBodies ==
  [method : {"exact"}, amount : {5},
   splits : {s \in SplitsOver({-2, 2, 3, 7, 32767}) : Wrap(SumFunction(s)) \in {4, 5}}
              \cup {[u \in {nobody} |-> 5]}]

\* In 16 bits 75536 is 10000, and twice 25000 is no int.
PercentageBodies ==
  [method : {"percentage"}, amount : {1, 2, 3, 6, 10, 101, 10000, 20000},
   splits : {s \in SplitsOver({-2500, 0, 1, 2500, 3333, 3334, 5000, 9999, 10000}) :
               SumFunction(s) \in {9999, 10000}}
              \cup {s \in [Users -> {25000, 25536}] : SumFunction(s) = Modulus + 10000}
              \cup {[u \in Users \cup {nobody} |-> 2500]}]

\* Bodies of each way a request can go, and one of no known method.  65636 wraps
\* around to 100 in 16 bits.
ManyBodies ==
  EqualBodies({-100, 0, 49, 50, 100, 250, 1000, 65636}) \cup ExactBodies
    \cup PercentageBodies \cup [method : {"half"}, amount : {5}, splits : {<<>>}]

\* One is enough for requests side by side.
OneBody == EqualBodies({2})

\* No body names one user and not the others: they are interchangeable, and so
\* are workers.
Symmetry == Permutations({ann, bob, cat}) \cup Permutations({w1, w2})
=============================================================================
