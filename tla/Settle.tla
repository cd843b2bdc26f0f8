------------------------------- MODULE Settle -------------------------------
(***************************************************************************)
(* SimplifyDebts of internal/expense/balance.go: who pays whom so that the *)
(* members of a group are even, from the balances that GetGroupBalances    *)
(* lists.  The balances of all users who ever shared an expense of the     *)
(* group add up to zero, but only current members are listed: former       *)
(* members, and users whom a split names without their being members, are  *)
(* left out.                                                               *)
(***************************************************************************)
EXTENDS Integers, Sequences, FiniteSets, Functions

CONSTANTS Users,     \* those with a share in an expense of the group
          MaxAmount  \* bound on a balance, in minor units

ASSUME SettleAssumption == IsFiniteSet(Users) /\ MaxAmount \in Nat

VARIABLES
  net,     \* net[u]: the balance of u in the expenses, negative if u owes
  listed,  \* the members listed
  bal,     \* bal[u]: what is left of it, for u listed (entries)
  from,    \* the first entry after sorting, the debtor
  to,      \* the last one, the creditor
  debts,   \* the result: a sequence of [from, to, amount], see MaxDebts
  pc       \* "sort", "settle" or "returned"

vars == <<net, listed, bal, from, to, debts, pc>>

\* A loop that never ends appends for ever: no more debts than that are
\* recorded, while the loop goes on.
MaxDebts == Cardinality(Users)

Init ==
  /\ net \in [Users -> -MaxAmount .. MaxAmount] /\ SumFunction(net) = 0
  /\ listed \in (SUBSET Users) \ {{}}   \* the caller is a member
  /\ bal = [u \in listed |-> net[u]]
  /\ from = (CHOOSE u \in listed : TRUE) /\ to = from   \* none picked yet
  /\ debts = <<>>
  /\ pc = "sort"

(* A definition marked "Fault" is the one that follows it with a bug seeded *)
(* into it: the checks of the properties' worth use it, no specification    *)
(* does.                                                                    *)

\* Fault: no sorting, any two entries will do as long as one owes the other.
DebtorAndCreditor(d, c) ==
  \/ bal[d] < 0 /\ bal[c] > 0
  \/ \A u \in listed : bal[d] <= bal[u] /\ bal[u] <= bal[c]

\* Fault: the two pointers may meet.
LeastAndGreatest(d, c) ==
  \A u \in listed : bal[d] <= bal[u] /\ bal[u] <= bal[c]

\* d is the first and c the last of the sorted entries; sort.Slice promises
\* no order between equal ones.
Sorted(d, c) ==
  /\ \A u \in listed : bal[d] <= bal[u] /\ bal[u] <= bal[c]
  /\ d = c => listed = {d}

Sort ==
  /\ pc = "sort"
  /\ \E d, c \in listed : Sorted(d, c) /\ from' = d /\ to' = c
  /\ pc' = "settle"
  /\ UNCHANGED <<net, listed, bal, debts>>

\* Fault: only the test that docs/expense-splitting.md gives.
BothDone == bal[from] = 0 /\ bal[to] = 0

\* Fault: an epsilon.
WithinEpsilon == bal[from] >= -1 \/ bal[to] <= 1

Done == bal[from] = 0 \/ bal[to] = 0

Return ==
  /\ pc = "settle" /\ Done
  /\ pc' = "returned"
  /\ UNCHANGED <<net, listed, bal, from, to, debts>>

\* Fault: the larger of the two.
Larger == IF -bal[from] < bal[to] THEN bal[to] ELSE -bal[from]

Amount == IF -bal[from] < bal[to] THEN -bal[from] ELSE bal[to]

\* Fault: debtor is a copy of the entry, no pointer to it.
CreditorOnly(amount) == [bal EXCEPT ![to] = @ - amount]

\* The two updates follow each other, on the same entry if it is alone.
Transferred(amount) == [bal EXCEPT ![from] = @ + amount, ![to] = @ - amount]

Settle ==
  /\ pc = "settle" /\ ~Done
  /\ bal' = Transferred(Amount)
  /\ debts' = IF Len(debts) = MaxDebts THEN debts
              ELSE Append(debts, [from |-> from, to |-> to, amount |-> Amount])
  /\ pc' = "sort"
  /\ UNCHANGED <<net, listed, from, to>>

Next == Sort \/ Return \/ Settle

Spec == Init /\ [][Next]_vars

\* A loop of one goroutine: it goes on until it returns.
FairSpec == Spec /\ WF_vars(Next)

-----------------------------------------------------------------------------
Debts == [from : Users, to : Users, amount : Int]

\* Type invariant.  The two pointers never meet, unless a member is alone.
TypeOK ==
  /\ net \in [Users -> Int]
  /\ listed \subseteq Users
  /\ bal \in [listed -> Int]
  /\ from \in listed /\ to \in listed
  /\ debts \in Seq(Debts) /\ Len(debts) <= MaxDebts
  /\ pc \in {"sort", "settle", "returned"}
  /\ pc = "settle" /\ from = to => listed = {from}

NonZero(f) == {u \in DOMAIN f : f[u] # 0}
OfListed == [u \in listed |-> net[u]]

\* The balances listed are not all on one side of zero; so it is when they
\* add up to zero, nobody who shared an expense being left out.
TwoSided == (\E u \in listed : net[u] <= 0) /\ (\E u \in listed : net[u] >= 0)
Complete == SumFunctionOnSet(net, listed) = 0

\* Only those who owe pay, only those who are owed are paid, and neither
\* more than that (balance.go:51-62): a balance moves towards zero, never past.
NobodyOverpays ==
  TwoSided =>
    /\ \A u \in listed : \/ net[u] <= bal[u] /\ bal[u] <= 0
                         \/ 0 <= bal[u] /\ bal[u] <= net[u]
    /\ \A i \in DOMAIN debts :
         net[debts[i].from] < 0 /\ net[debts[i].to] > 0 /\ debts[i].amount > 0

\* Every debt makes somebody even for good (balance.go:61-62), so there are
\* no more of them than members with a balance.
FewDebts ==
  TwoSided =>
    Len(debts) + Cardinality(NonZero(bal)) <= Cardinality(NonZero(OfListed))

Total(S) == SumFunctionOnSet([i \in DOMAIN debts |-> debts[i].amount], S)
Paid(u)  == Total({i \in DOMAIN debts : debts[i].from = u})
Got(u)   == Total({i \in DOMAIN debts : debts[i].to = u})

\* What u still owes, or is owed, if everybody pays as the result says.
After(u) == net[u] + Paid(u) - Got(u)

\* balance.go:22-23 "settles all debts": when everybody pays as the result
\* says, no listed member who owes is left with a listed member who is owed;
\* if nobody was left out, all are even, with fewer debts than members.
SettlesAll ==
  pc = "returned" =>
    /\ TwoSided => (\A u \in listed : After(u) >= 0) \/ (\A u \in listed : After(u) <= 0)
    /\ Complete => /\ \A u \in listed : After(u) = 0
                   /\ debts # <<>> => Len(debts) < Cardinality(NonZero(OfListed))

\* The sets of members who can be made even among themselves.
EvenSets == {S \in (SUBSET NonZero(OfListed)) \ {{}} : SumFunctionOnSet(net, S) = 0}
Partitions ==
  {P \in SUBSET EvenSets : /\ UNION P = NonZero(OfListed)
                           /\ \A S, T \in P : S # T => S \cap T = {}}

\* balance.go:22 "the minimum set of transactions", of a complete list: k
\* members who even out among themselves need k - 1 debts, so the minimum is
\* the number of members less that of the sets they fall into.
Minimal ==
  pc = "returned" /\ Complete =>
    \A P \in Partitions :
      Len(debts) <= Cardinality(NonZero(OfListed)) - Cardinality(P)

\* Up to four members with a balance, the greedy choice is the best one.
MinimalUpToFour == Cardinality(NonZero(OfListed)) <= 4 => Minimal

\* A member alone with a balance: all the others who shared have left.
Alone == \E u \in Users : listed = {u} /\ net[u] # 0

\* SimplifyDebts returns (balance.go:41-62), unless one member is listed alone.
ReturnsUnlessAlone == ~Alone => <>(pc = "returned")

\* balance.go:22 "returns the minimum set of transactions that settles all
\* debts": it returns.
Returns == <>(pc = "returned")
=============================================================================
