---------------------------- MODULE SettleProofs ----------------------------
(* What TLAPS proves of Settle, for any number of users and any amounts.   *)
EXTENDS Settle, SumProofs

\* The entries picked are the least and the greatest.
Picked ==
  pc = "settle" => \A u \in listed : bal[from] <= bal[u] /\ bal[u] <= bal[to]

TypeInv == TypeOK /\ Picked

LEMMA Bounded == MaxDebts \in Nat
  BY SettleAssumption, FS_CardinalityType DEF SettleAssumption, MaxDebts

LEMMA TypeInvInit == Init => TypeInv
<1> SUFFICES ASSUME Init PROVE TypeInv
  OBVIOUS
<1>1. net \in [Users -> Int]
  BY SettleAssumption DEF Init, SettleAssumption
<1>2. listed \subseteq Users /\ listed # {}
  BY DEF Init
<1>3. from \in listed /\ to \in listed
  BY <1>2 DEF Init
<1>4. bal \in [listed -> Int]
  BY <1>1, <1>2 DEF Init
<1>5. debts \in Seq(Debts) /\ Len(debts) <= MaxDebts /\ pc = "sort"
  BY Bounded DEF Init
<1> QED
  BY <1>1, <1>2, <1>3, <1>4, <1>5 DEF TypeInv, TypeOK, Picked

\* What a transfer does to the balances.
LEMMA TransferFacts ==
  ASSUME TypeInv, Settle
  PROVE  /\ Amount \in Int /\ bal' \in [listed -> Int]
         /\ from # to => /\ bal'[from] = bal[from] + Amount
                         /\ bal'[to] = bal[to] - Amount
         /\ \A u \in listed \ {from, to} : bal'[u] = bal[u]
<1>1. bal \in [listed -> Int] /\ from \in listed /\ to \in listed
  BY DEF TypeInv, TypeOK
<1>2. Amount \in Int
  BY <1>1 DEF Amount
<1>3. bal' = [bal EXCEPT ![from] = @ + Amount, ![to] = @ - Amount]
  BY DEF Settle, Transferred
<1> HIDE DEF Amount
<1> QED
  BY <1>1, <1>2, <1>3

LEMMA TypeInvNext == TypeInv /\ [Next]_vars => TypeInv'
<1> SUFFICES ASSUME TypeInv, [Next]_vars PROVE TypeInv'
  OBVIOUS
<1>1. CASE Sort
  BY <1>1 DEF Sort, Sorted, TypeInv, TypeOK, Picked
<1>2. CASE Return
  BY <1>2 DEF Return, TypeInv, TypeOK, Picked
<1>3. CASE Settle
  <2>1. UNCHANGED <<net, listed, from, to>> /\ pc' = "sort"
    BY <1>3 DEF Settle
  <2>2. Amount \in Int /\ bal' \in [listed -> Int]
    BY <1>3, TransferFacts
  <2>3. debts' \in Seq(Debts) /\ Len(debts') <= MaxDebts
    <3> DEFINE d == [from |-> from, to |-> to, amount |-> Amount]
    <3>1. d \in Debts
      BY <2>2 DEF Debts, TypeInv, TypeOK
    <3>2. debts \in Seq(Debts) /\ Len(debts) <= MaxDebts
      BY DEF TypeInv, TypeOK
    <3>3. debts' = IF Len(debts) = MaxDebts THEN debts ELSE Append(debts, d)
      BY <1>3 DEF Settle
    <3> HIDE DEF d
    <3> QED
      BY <3>1, <3>2, <3>3, Bounded
  <2> QED
    BY <2>1, <2>2, <2>3 DEF TypeInv, TypeOK, Picked
<1>4. CASE UNCHANGED vars
  BY <1>4 DEF vars, TypeInv, TypeOK, Picked
<1> QED
  BY <1>1, <1>2, <1>3, <1>4 DEF Next

\* The types, and the two pointers never meet unless a member is alone.
THEOREM SettleTypeCorrect == Spec => []TypeOK
<1>1. TypeInv => TypeOK
  BY DEF TypeInv
<1> QED
  BY TypeInvInit, TypeInvNext, <1>1, PTL DEF Spec

-----------------------------------------------------------------------------
(* With balances on both sides of zero, the least one is a debt and the    *)
(* greatest a credit until the loop ends: the sides never change.          *)

LEMMA OverpaysInit == Init => NobodyOverpays
<1> SUFFICES ASSUME Init PROVE NobodyOverpays
  OBVIOUS
<1>1. net \in [Users -> Int] /\ listed \subseteq Users
  BY SettleAssumption DEF Init, SettleAssumption
<1>2. \A u \in listed : bal[u] = net[u] /\ net[u] \in Int
  BY <1>1 DEF Init
<1>3. DOMAIN debts = {}
  BY DEF Init
<1> QED
  BY <1>2, <1>3 DEF NobodyOverpays

LEMMA SettleFacts ==
  ASSUME TypeInv, NobodyOverpays, TwoSided, Settle
  PROVE  /\ bal[from] < 0 /\ bal[to] > 0 /\ from # to
         /\ net[from] <= bal[from] /\ bal[to] <= net[to]
         /\ Amount > 0 /\ Amount <= -bal[from] /\ Amount <= bal[to]
         /\ Amount = -bal[from] \/ Amount = bal[to]
<1>1. /\ bal \in [listed -> Int] /\ net \in [Users -> Int] /\ listed \subseteq Users
      /\ from \in listed /\ to \in listed
  BY DEF TypeInv, TypeOK
<1>2. \A u \in listed : bal[from] <= bal[u] /\ bal[u] <= bal[to]
  BY DEF TypeInv, Picked, Settle
<1>3. bal[from] # 0 /\ bal[to] # 0
  BY DEF Settle, Done
<1>4. \A u \in listed : \/ net[u] <= bal[u] /\ bal[u] <= 0
                        \/ 0 <= bal[u] /\ bal[u] <= net[u]
  BY DEF NobodyOverpays
<1>5. PICK d \in listed : net[d] <= 0
  BY DEF TwoSided
<1>6. PICK c \in listed : net[c] >= 0
  BY DEF TwoSided
<1>7. bal[d] <= 0 /\ bal[c] >= 0
  BY <1>1, <1>4, <1>5, <1>6
<1>8. bal[from] < 0 /\ bal[to] > 0
  BY <1>1, <1>2, <1>3, <1>7
<1>9. net[from] <= bal[from] /\ bal[to] <= net[to]
  BY <1>1, <1>4, <1>8
<1> QED
  BY <1>1, <1>8, <1>9 DEF Amount

LEMMA OverpaysNext == TypeInv /\ NobodyOverpays /\ [Next]_vars => NobodyOverpays'
<1> SUFFICES ASSUME TypeInv, NobodyOverpays, [Next]_vars PROVE NobodyOverpays'
  OBVIOUS
<1>1. CASE Sort
  BY <1>1 DEF Sort, NobodyOverpays, TwoSided
<1>2. CASE Return
  BY <1>2 DEF Return, NobodyOverpays, TwoSided
<1>3. CASE Settle
  <2> SUFFICES ASSUME TwoSided
               PROVE  /\ \A u \in listed : \/ net[u] <= bal'[u] /\ bal'[u] <= 0
                                           \/ 0 <= bal'[u] /\ bal'[u] <= net[u]
                      /\ \A i \in DOMAIN debts' :
                           /\ net[debts'[i].from] < 0 /\ net[debts'[i].to] > 0
                           /\ debts'[i].amount > 0
    BY <1>3 DEF Settle, NobodyOverpays, TwoSided
  <2>1. /\ bal \in [listed -> Int] /\ net \in [Users -> Int] /\ listed \subseteq Users
        /\ from \in listed /\ to \in listed
    BY DEF TypeInv, TypeOK
  <2>2. \A u \in listed : \/ net[u] <= bal[u] /\ bal[u] <= 0
                          \/ 0 <= bal[u] /\ bal[u] <= net[u]
    BY DEF NobodyOverpays
  <2>3. /\ bal[from] < 0 /\ bal[to] > 0 /\ from # to
        /\ net[from] <= bal[from] /\ bal[to] <= net[to]
        /\ Amount > 0 /\ Amount <= -bal[from] /\ Amount <= bal[to]
    BY <1>3, SettleFacts
  <2>4. /\ Amount \in Int
        /\ bal'[from] = bal[from] + Amount /\ bal'[to] = bal[to] - Amount
        /\ \A u \in listed \ {from, to} : bal'[u] = bal[u]
    BY <1>3, <2>3, TransferFacts
  <2>5. \A u \in listed : \/ net[u] <= bal'[u] /\ bal'[u] <= 0
                          \/ 0 <= bal'[u] /\ bal'[u] <= net[u]
    <3> SUFFICES ASSUME NEW u \in listed
                 PROVE  \/ net[u] <= bal'[u] /\ bal'[u] <= 0
                        \/ 0 <= bal'[u] /\ bal'[u] <= net[u]
      OBVIOUS
    <3> HIDE DEF Amount
    <3>1. CASE u = from
      BY <2>1, <2>3, <2>4, <3>1
    <3>2. CASE u = to
      BY <2>1, <2>3, <2>4, <3>2
    <3>3. CASE u \notin {from, to}
      BY <2>2, <2>4, <3>3
    <3> QED
      BY <3>1, <3>2, <3>3
  <2>6. \A i \in DOMAIN debts' :
          net[debts'[i].from] < 0 /\ net[debts'[i].to] > 0 /\ debts'[i].amount > 0
    <3> DEFINE d == [from |-> from, to |-> to, amount |-> Amount]
    <3>1. net[from] < 0 /\ net[to] > 0
      BY <2>1, <2>3
    <3>2. debts' = IF Len(debts) = MaxDebts THEN debts ELSE Append(debts, d)
      BY <1>3 DEF Settle
    <3>3. net[d.from] < 0 /\ net[d.to] > 0 /\ d.amount > 0
      BY <2>3, <3>1
    <3>4. \A i \in DOMAIN debts :
            net[debts[i].from] < 0 /\ net[debts[i].to] > 0 /\ debts[i].amount > 0
      BY DEF NobodyOverpays
    <3>5. debts \in Seq(Debts)
      BY DEF TypeInv, TypeOK
    <3> HIDE DEF d
    <3>6. \A i \in DOMAIN debts' :
            debts'[i] = d \/ (i \in DOMAIN debts /\ debts'[i] = debts[i])
      BY <3>2, <3>5
    <3> QED
      BY <3>3, <3>4, <3>6
  <2> QED
    BY <2>5, <2>6
<1>4. CASE UNCHANGED vars
  BY <1>4 DEF vars, NobodyOverpays, TwoSided
<1> QED
  BY <1>1, <1>2, <1>3, <1>4 DEF Next

\* Unless all listed balances are on one side of zero, only those who owe pay,
\* only those who are owed are paid, and neither more than that.
THEOREM SettleNobodyOverpays == Spec => []NobodyOverpays
  BY TypeInvInit, TypeInvNext, OverpaysInit, OverpaysNext, PTL DEF Spec

-----------------------------------------------------------------------------
(* Each debt takes somebody out of those who are not even.                 *)

LEMMA NonZeroFinite ==
  ASSUME TypeInv
  PROVE  IsFiniteSet(NonZero(bal)) /\ Cardinality(NonZero(bal)) \in Nat
<1>1. IsFiniteSet(listed) /\ NonZero(bal) \subseteq listed
  BY SettleAssumption, FS_Subset DEF SettleAssumption, TypeInv, TypeOK, NonZero
<1> QED
  BY <1>1, FS_Subset, FS_CardinalityType

LEMMA FewDebtsNext ==
  TypeInv /\ NobodyOverpays /\ FewDebts /\ [Next]_vars => FewDebts'
<1> SUFFICES ASSUME TypeInv, NobodyOverpays, FewDebts, [Next]_vars PROVE FewDebts'
  OBVIOUS
<1>1. CASE Sort
  BY <1>1 DEF Sort, FewDebts, TwoSided, NonZero, OfListed
<1>2. CASE Return
  BY <1>2 DEF Return, FewDebts, TwoSided, NonZero, OfListed
<1>3. CASE Settle
  <2>1. UNCHANGED <<net, listed, from, to>>
    BY <1>3 DEF Settle
  <2>2. TwoSided' = TwoSided /\ OfListed' = OfListed
    BY <2>1 DEF TwoSided, OfListed
  <2> SUFFICES ASSUME TwoSided
               PROVE  Len(debts') + Cardinality(NonZero(bal'))
                        <= Cardinality(NonZero(OfListed))
    BY <2>2 DEF FewDebts, NonZero
  <2>3. /\ bal \in [listed -> Int] /\ from \in listed /\ to \in listed
        /\ debts \in Seq(Debts)
    BY DEF TypeInv, TypeOK
  <2>4. /\ bal[from] < 0 /\ bal[to] > 0 /\ from # to
        /\ Amount = -bal[from] \/ Amount = bal[to]
    BY <1>3, SettleFacts
  <2>5. /\ bal' \in [listed -> Int]
        /\ bal'[from] = bal[from] + Amount /\ bal'[to] = bal[to] - Amount
        /\ \A u \in listed \ {from, to} : bal'[u] = bal[u]
    BY <1>3, <2>4, TransferFacts
  <2>6. PICK x \in {from, to} : bal'[x] = 0
    BY <2>3, <2>4, <2>5
  <2>7. NonZero(bal') \subseteq NonZero(bal) \ {x} /\ x \in NonZero(bal)
    BY <2>3, <2>4, <2>5, <2>6 DEF NonZero
  <2>8. Cardinality(NonZero(bal) \ {x}) = Cardinality(NonZero(bal)) - 1
    BY <2>7, NonZeroFinite, FS_RemoveElement
  <2>9. IsFiniteSet(NonZero(bal) \ {x})
    BY NonZeroFinite, FS_Subset
  <2>10. /\ Cardinality(NonZero(bal')) <= Cardinality(NonZero(bal)) - 1
         /\ Cardinality(NonZero(bal')) \in Nat
    BY <2>7, <2>8, <2>9, FS_Subset, FS_CardinalityType
  <2>11. Len(debts') <= Len(debts) + 1 /\ Len(debts') \in Nat /\ Len(debts) \in Nat
    BY <1>3, <2>3 DEF Settle
  <2>12. Cardinality(NonZero(OfListed)) \in Nat
    <3>1. IsFiniteSet(NonZero(OfListed))
      BY SettleAssumption, FS_Subset
         DEF SettleAssumption, TypeInv, TypeOK, NonZero, OfListed
    <3> QED
      BY <3>1, FS_CardinalityType
  <2> QED
    BY <2>10, <2>11, <2>12, NonZeroFinite DEF FewDebts
<1>4. CASE UNCHANGED vars
  BY <1>4 DEF vars, FewDebts, TwoSided, NonZero, OfListed
<1> QED
  BY <1>1, <1>2, <1>3, <1>4 DEF Next

LEMMA FewDebtsInit == Init => FewDebts
<1> SUFFICES ASSUME Init PROVE FewDebts
  OBVIOUS
<1>1. Len(debts) = 0 /\ NonZero(bal) = NonZero(OfListed)
  BY DEF Init, OfListed
<1>2. Cardinality(NonZero(bal)) \in Nat
  BY TypeInvInit, NonZeroFinite
<1> QED
  BY <1>1, <1>2 DEF FewDebts

\* Unless all listed balances are on one side of zero, there are at most as
\* many debts as members with a balance.
THEOREM SettleFewDebts == Spec => []FewDebts
  BY TypeInvInit, TypeInvNext, OverpaysInit, OverpaysNext, FewDebtsInit,
     FewDebtsNext, PTL DEF Spec

-----------------------------------------------------------------------------
(* The debts recorded are the whole difference between a balance and what  *)
(* is left of it, and when the loop ends nothing, or only balances of one  *)
(* sign, is left.                                                          *)

AmountsOf(s) == [i \in DOMAIN s |-> s[i].amount]

PaidIn(s, u) == SumFunctionOnSet(AmountsOf(s), {i \in DOMAIN s : s[i].from = u})
GotIn(s, u)  == SumFunctionOnSet(AmountsOf(s), {i \in DOMAIN s : s[i].to = u})

\* One debt more adds its amount to the two sums it belongs to.
LEMMA OneMore ==
  ASSUME NEW s \in Seq(Debts), NEW d \in Debts, NEW u
  PROVE  /\ PaidIn(s, u) \in Int /\ GotIn(s, u) \in Int
         /\ PaidIn(Append(s, d), u) = PaidIn(s, u) + IF d.from = u THEN d.amount ELSE 0
         /\ GotIn(Append(s, d), u) = GotIn(s, u) + IF d.to = u THEN d.amount ELSE 0
<1> DEFINE t == Append(s, d)
<1>t. /\ Len(s) \in Nat /\ DOMAIN s = 1 .. Len(s) /\ DOMAIN t = 1 .. Len(s) + 1
      /\ (\A i \in DOMAIN s : t[i] = s[i] /\ s[i] \in Debts) /\ t[Len(s) + 1] = d
  OBVIOUS
<1> HIDE DEF t
<1>0. ASSUME NEW I \in SUBSET DOMAIN s
      PROVE  /\ SumFunctionOnSet(AmountsOf(s), I) \in Int
             /\ SumFunctionOnSet(AmountsOf(t), I) = SumFunctionOnSet(AmountsOf(s), I)
             /\ SumFunctionOnSet(AmountsOf(t), I \cup {Len(s) + 1})
                  = SumFunctionOnSet(AmountsOf(s), I) + d.amount
  <2>1. DOMAIN s = 1 .. Len(s) /\ Len(s) \in Nat
    OBVIOUS
  <2>2. IsFiniteSet(I)
    <3>1. IsFiniteSet(1 .. Len(s))
      BY <2>1, FS_Interval
    <3> QED
      BY <2>1, <3>1, FS_Subset
  <2>3. Len(s) + 1 \notin I
    BY <2>1
  <2>4. \A i \in I : AmountsOf(s)[i] \in Int /\ AmountsOf(t)[i] = AmountsOf(s)[i]
    <3>1. DOMAIN t = 1 .. Len(s) + 1 /\ \A i \in DOMAIN s : t[i] = s[i] /\ s[i] \in Debts
      BY <1>t, <2>1
    <3>2. \A i \in DOMAIN s : i \in DOMAIN t /\ s[i].amount \in Int /\ t[i].amount = s[i].amount
      BY <2>1, <3>1 DEF Debts
    <3> QED
      BY <3>2 DEF AmountsOf
  <2>5. AmountsOf(t)[Len(s) + 1] = d.amount /\ d.amount \in Int
    BY <1>t, <2>1 DEF AmountsOf, Debts
  <2>6. SumFunctionOnSet(AmountsOf(s), I) \in Int
    BY <2>2, <2>4, SumInt
  <2>7. SumFunctionOnSet(AmountsOf(t), I) = SumFunctionOnSet(AmountsOf(s), I)
    BY <2>2, <2>4, SumOfSame
  <2>8. \A i \in I \cup {Len(s) + 1} : AmountsOf(t)[i] \in Int
    BY <2>4, <2>5
  <2>9. SumFunctionOnSet(AmountsOf(t), I \cup {Len(s) + 1})
          = SumFunctionOnSet(AmountsOf(t), I) + d.amount
    <3> DEFINE a == AmountsOf(t)
               n == Len(s) + 1
    <3>1. n \notin I /\ (\A i \in I \cup {n} : a[i] \in Int) /\ a[n] = d.amount
      BY <2>3, <2>5, <2>8
    <3> HIDE DEF a, n
    <3>2. SumFunctionOnSet(a, I \cup {n}) = SumFunctionOnSet(a, I) + d.amount
      BY <2>2, <3>1, SumWith
    <3> QED
      BY <3>2 DEF a, n
  <2> QED
    BY <2>6, <2>7, <2>9
<1> DEFINE P == {i \in DOMAIN s : s[i].from = u}
           G == {i \in DOMAIN s : s[i].to = u}
<1>1. P \in SUBSET DOMAIN s /\ G \in SUBSET DOMAIN s
  OBVIOUS
<1>3. {i \in DOMAIN t : t[i].from = u} = IF d.from = u THEN P \cup {Len(s) + 1} ELSE P
  BY <1>t
<1>4. {i \in DOMAIN t : t[i].to = u} = IF d.to = u THEN G \cup {Len(s) + 1} ELSE G
  BY <1>t
<1>5. PaidIn(s, u) = SumFunctionOnSet(AmountsOf(s), P)
  BY DEF PaidIn
<1>6. GotIn(s, u) = SumFunctionOnSet(AmountsOf(s), G)
  BY DEF GotIn
<1>7. PaidIn(t, u) = SumFunctionOnSet(AmountsOf(t), IF d.from = u THEN P \cup {Len(s) + 1} ELSE P)
  BY <1>3 DEF PaidIn
<1>8. GotIn(t, u) = SumFunctionOnSet(AmountsOf(t), IF d.to = u THEN G \cup {Len(s) + 1} ELSE G)
  BY <1>4 DEF GotIn
<1> HIDE DEF P, G
<1>9. /\ SumFunctionOnSet(AmountsOf(s), P) \in Int
      /\ SumFunctionOnSet(AmountsOf(t), P) = SumFunctionOnSet(AmountsOf(s), P)
      /\ SumFunctionOnSet(AmountsOf(t), P \cup {Len(s) + 1})
           = SumFunctionOnSet(AmountsOf(s), P) + d.amount
  BY <1>0, <1>1
<1>10. /\ SumFunctionOnSet(AmountsOf(s), G) \in Int
       /\ SumFunctionOnSet(AmountsOf(t), G) = SumFunctionOnSet(AmountsOf(s), G)
       /\ SumFunctionOnSet(AmountsOf(t), G \cup {Len(s) + 1})
            = SumFunctionOnSet(AmountsOf(s), G) + d.amount
  BY <1>0, <1>1
<1> QED
  BY <1>5, <1>6, <1>7, <1>8, <1>9, <1>10 DEF t

LEMMA SameSums == \A u : Paid(u) = PaidIn(debts, u) /\ Got(u) = GotIn(debts, u)
  BY DEF Paid, Got, Total, PaidIn, GotIn, AmountsOf

\* The debts account for every change of a balance,
Booked == TwoSided => \A u \in listed : After(u) = bal[u]

\* which changes none of their sum;
Balanced == Complete => SumFunctionOnSet(bal, listed) = 0

\* the loop ends when the least or the greatest balance is zero;
Ended ==
  pc = "returned" => Done /\ \A u \in listed : bal[from] <= bal[u] /\ bal[u] <= bal[to]

\* and the last debt of all makes two members even at once.
LastDebt ==
  Complete /\ NonZero(bal) = {} /\ debts # <<>> =>
    Len(debts) < Cardinality(NonZero(OfListed))

SettledInv == Booked /\ Balanced /\ Ended /\ LastDebt

LEMMA Listed ==
  ASSUME TypeInv
  PROVE  /\ IsFiniteSet(listed) /\ listed # {}
         /\ \A u \in listed : net[u] \in Int /\ bal[u] \in Int
         /\ IsFiniteSet(NonZero(OfListed)) /\ NonZero(OfListed) \subseteq listed
         /\ Cardinality(NonZero(OfListed)) \in Nat
         /\ Cardinality(NonZero(OfListed)) <= MaxDebts
<1>1. listed \subseteq Users /\ IsFiniteSet(Users)
  BY SettleAssumption DEF SettleAssumption, TypeInv, TypeOK
<1>2. IsFiniteSet(listed)
  BY <1>1, FS_Subset
<1>3. NonZero(OfListed) \subseteq listed
  BY DEF NonZero, OfListed
<1>4. NonZero(OfListed) \subseteq Users
  BY <1>1, <1>3
<1>5. /\ IsFiniteSet(NonZero(OfListed))
      /\ Cardinality(NonZero(OfListed)) <= MaxDebts
      /\ Cardinality(NonZero(OfListed)) \in Nat
  BY <1>1, <1>4, FS_Subset, FS_CardinalityType DEF MaxDebts
<1> QED
  BY <1>2, <1>3, <1>5 DEF TypeInv, TypeOK

\* Balances that add up to zero are not all on one side of it.
LEMMA CompleteIsTwoSided ==
  ASSUME TypeInv, Complete
  PROVE  TwoSided
<1>1. IsFiniteSet(listed) /\ from \in listed /\ \A u \in listed : net[u] \in Int
  BY Listed DEF TypeInv, TypeOK
<1>2. SumFunctionOnSet(net, listed) = 0
  BY DEF Complete
<1>3. CASE \A u \in listed : net[u] > 0
  <2>1. net[from] <= 0
    BY <1>1, <1>2, <1>3, SumOfNats
  <2> QED
    BY <1>1, <1>3, <2>1
<1>4. CASE \A u \in listed : net[u] < 0
  <2>1. 0 <= net[from]
    BY <1>1, <1>2, <1>4, SumOfNegatives
  <2> QED
    BY <1>1, <1>4, <2>1
<1> QED
  BY <1>1, <1>3, <1>4 DEF TwoSided

\* With balances on both sides there is room for the debt that is found.
LEMMA Recorded ==
  ASSUME TypeInv, NobodyOverpays, FewDebts, TwoSided, Settle
  PROVE  debts' = Append(debts, [from |-> from, to |-> to, amount |-> Amount])
<1>1. /\ bal[from] # 0 /\ from \in listed /\ DOMAIN bal = listed
      /\ debts \in Seq(Debts)
  BY DEF Settle, Done, TypeInv, TypeOK
<1>2. from \in NonZero(bal)
  BY <1>1 DEF NonZero
<1>3. Cardinality(NonZero(bal)) # 0 /\ Cardinality(NonZero(bal)) \in Nat
  BY <1>2, NonZeroFinite, FS_EmptySet
<1>4. Len(debts) + Cardinality(NonZero(bal)) <= Cardinality(NonZero(OfListed))
  BY DEF FewDebts
<1>5. Len(debts) # MaxDebts
  BY <1>1, <1>3, <1>4, Listed, Bounded
<1> QED
  BY <1>5 DEF Settle

LEMMA SettledInit == Init => SettledInv
<1> SUFFICES ASSUME Init PROVE SettledInv
  OBVIOUS
<1>1. TypeInv
  BY TypeInvInit
<1>2. debts = <<>> /\ pc = "sort" /\ \A u \in listed : bal[u] = net[u]
  BY DEF Init
<1>3. Booked
  <2>1. \A u : PaidIn(<<>>, u) = 0 /\ GotIn(<<>>, u) = 0
    <3> TAKE u
    <3>1. {i \in DOMAIN <<>> : <<>>[i].from = u} = {} /\ {i \in DOMAIN <<>> : <<>>[i].to = u} = {}
      OBVIOUS
    <3> QED
      BY <3>1, SumOfNothing DEF PaidIn, GotIn
  <2>2. \A u \in listed : net[u] \in Int
    BY <1>1, Listed
  <2> QED
    BY <1>2, <2>1, <2>2, SameSums DEF Booked, After
<1>4. Balanced
  <2>1. SumFunctionOnSet(bal, listed) = SumFunctionOnSet(net, listed)
    BY <1>1, <1>2, Listed, SumOfSame
  <2> QED
    BY <2>1 DEF Balanced, Complete
<1> QED
  BY <1>2, <1>3, <1>4 DEF SettledInv, Ended, LastDebt

LEMMA SettledNext ==
  TypeInv /\ NobodyOverpays /\ FewDebts /\ SettledInv /\ [Next]_vars => SettledInv'
<1> SUFFICES ASSUME TypeInv, NobodyOverpays, FewDebts, SettledInv, [Next]_vars
             PROVE  SettledInv'
  OBVIOUS
<1> DEFINE Aside == UNCHANGED <<net, listed, bal, debts>>
<1>1. Aside => Booked' /\ Balanced' /\ LastDebt'
  BY DEF SettledInv, Booked, Balanced, LastDebt, TwoSided, Complete, After, Paid, Got,
         Total, NonZero, OfListed
<1>2. CASE Sort
  <2>1. Aside /\ pc' = "settle"
    BY <1>2 DEF Sort
  <2> QED
    BY <1>1, <2>1 DEF SettledInv, Ended
<1>3. CASE Return
  <2>1. Aside
    BY <1>3 DEF Return
  <2>2. Ended'
    BY <1>3 DEF Return, Ended, Done, TypeInv, Picked
  <2> QED
    BY <1>1, <2>1, <2>2 DEF SettledInv
<1>4. CASE Settle
  <2>1. UNCHANGED <<net, listed, from, to>> /\ pc' = "sort"
    BY <1>4 DEF Settle
  <2>2. /\ TwoSided' = TwoSided /\ Complete' = Complete
        /\ NonZero(OfListed)' = NonZero(OfListed)
    BY <2>1 DEF TwoSided, Complete, OfListed, NonZero
  <2>3. Ended'
    BY <2>1 DEF Ended
  <2> SUFFICES ASSUME TwoSided PROVE Booked' /\ Balanced' /\ LastDebt'
    BY <2>2, <2>3, CompleteIsTwoSided DEF SettledInv, Booked, Balanced, LastDebt
  <2> DEFINE d == [from |-> from, to |-> to, amount |-> Amount]
  <2>4. debts' = Append(debts, d)
    BY <1>4, Recorded
  <2>5. /\ listed \subseteq Users /\ from \in listed /\ to \in listed
        /\ debts \in Seq(Debts) /\ bal \in [listed -> Int]
    BY DEF TypeInv, TypeOK
  <2>6. /\ bal[from] < 0 /\ bal[to] > 0 /\ from # to
        /\ Amount = -bal[from] \/ Amount = bal[to]
    BY <1>4, SettleFacts
  <2>7. /\ Amount \in Int /\ bal' \in [listed -> Int]
        /\ bal'[from] = bal[from] + Amount /\ bal'[to] = bal[to] - Amount
        /\ \A u \in listed \ {from, to} : bal'[u] = bal[u]
    BY <1>4, <2>6, TransferFacts
  <2> HIDE DEF Amount
  <2>8. d \in Debts /\ d.from = from /\ d.to = to /\ d.amount = Amount
    BY <2>5, <2>7 DEF Debts
  <2> HIDE DEF d
  <2>9. Booked'
    <3> SUFFICES ASSUME NEW u \in listed PROVE After(u)' = bal'[u]
      BY <2>1 DEF Booked
    <3>1. /\ PaidIn(debts, u) \in Int /\ GotIn(debts, u) \in Int
          /\ PaidIn(debts', u) = PaidIn(debts, u) + IF from = u THEN Amount ELSE 0
          /\ GotIn(debts', u) = GotIn(debts, u) + IF to = u THEN Amount ELSE 0
      BY <2>4, <2>5, <2>8, OneMore
    <3>2. After(u) = net[u] + PaidIn(debts, u) - GotIn(debts, u)
      BY SameSums DEF After
    <3>3. Paid(u)' = PaidIn(debts', u) /\ Got(u)' = GotIn(debts', u)
      BY DEF Paid, Got, Total, PaidIn, GotIn, AmountsOf
    <3>4. After(u)' = net[u] + PaidIn(debts', u) - GotIn(debts', u)
      BY <2>1, <3>3 DEF After
    <3>5. After(u) = bal[u]
      BY DEF SettledInv, Booked
    <3>6. net[u] \in Int /\ bal[u] \in Int
      BY Listed
    <3>7. CASE u = from
      BY <2>6, <2>7, <3>1, <3>2, <3>4, <3>5, <3>6, <3>7
    <3>8. CASE u = to
      BY <2>6, <2>7, <3>1, <3>2, <3>4, <3>5, <3>6, <3>8
    <3>9. CASE u \notin {from, to}
      BY <2>7, <3>1, <3>2, <3>4, <3>5, <3>6, <3>9
    <3> QED
      BY <3>7, <3>8, <3>9
  <2>10. SumFunctionOnSet(bal', listed) = SumFunctionOnSet(bal, listed)
    <3> DEFINE L == listed \ {from}
               R == L \ {to}
    <3>1. IsFiniteSet(listed) /\ IsFiniteSet(L) /\ IsFiniteSet(R) /\ to \in L
      BY <2>5, <2>6, Listed, FS_Subset
    <3>2. \A u \in listed : bal[u] \in Int /\ bal'[u] \in Int
      BY <2>5, <2>7
    <3>3. SumFunctionOnSet(bal, listed) = bal[from] + SumFunctionOnSet(bal, L)
      BY <2>5, <3>1, <3>2, SumWithout
    <3>4. SumFunctionOnSet(bal, L) = bal[to] + SumFunctionOnSet(bal, R)
      BY <3>1, <3>2, SumWithout
    <3>5. SumFunctionOnSet(bal', listed) = bal'[from] + SumFunctionOnSet(bal', L)
      BY <2>5, <3>1, <3>2, SumWithout
    <3>6. SumFunctionOnSet(bal', L) = bal'[to] + SumFunctionOnSet(bal', R)
      BY <3>1, <3>2, SumWithout
    <3>7. SumFunctionOnSet(bal', R) = SumFunctionOnSet(bal, R)
      <4>1. \A u \in R : bal'[u] = bal[u]
        BY <2>7
      <4> QED
        BY <3>1, <4>1, SumOfSame
    <3>8. SumFunctionOnSet(bal, R) \in Int
      BY <3>1, <3>2, SumInt
    <3>9. bal[from] \in Int /\ bal[to] \in Int
      BY <2>5
    <3> HIDE DEF L, R
    <3> QED
      BY <2>7, <3>3, <3>4, <3>5, <3>6, <3>7, <3>8, <3>9
  <2>11. Balanced'
    BY <2>1, <2>2, <2>10 DEF SettledInv, Balanced
  <2>12. LastDebt'
    <3> SUFFICES ASSUME NonZero(bal') = {}
                 PROVE  Len(debts') < Cardinality(NonZero(OfListed))
      BY <2>2 DEF LastDebt, NonZero
    <3>1. NonZero(bal) = {from, to}
      BY <2>5, <2>6, <2>7 DEF NonZero
    <3>2. Cardinality(NonZero(bal)) = 2
      <4>1. IsFiniteSet({from}) /\ Cardinality({from}) = 1
        BY FS_Singleton
      <4>2. Cardinality({from} \cup {to}) = 2
        BY <2>6, <4>1, FS_AddElement
      <4> QED
        BY <3>1, <4>2, {from} \cup {to} = {from, to}
    <3>3. Len(debts) + 2 <= Cardinality(NonZero(OfListed)) /\ Len(debts) \in Nat
      BY <2>5, <3>2 DEF FewDebts
    <3>4. Len(debts') = Len(debts) + 1
      BY <2>4, <2>5
    <3> QED
      BY <3>3, <3>4, Listed
  <2> QED
    BY <2>9, <2>11, <2>12
<1>5. CASE UNCHANGED vars
  <2>1. Aside
    BY <1>5 DEF vars
  <2> QED
    BY <1>1, <1>5, <2>1 DEF SettledInv, Ended, Done, vars
<1> QED
  BY <1>2, <1>3, <1>4, <1>5 DEF Next

LEMMA SettledSettles ==
  ASSUME TypeInv, FewDebts, SettledInv
  PROVE  SettlesAll
<1> SUFFICES ASSUME pc = "returned"
             PROVE  /\ TwoSided => \/ \A u \in listed : After(u) >= 0
                                   \/ \A u \in listed : After(u) <= 0
                    /\ Complete => /\ \A u \in listed : After(u) = 0
                                   /\ debts # <<>> => Len(debts) < Cardinality(NonZero(OfListed))
  BY DEF SettlesAll
<1>1. /\ IsFiniteSet(listed) /\ DOMAIN bal = listed
      /\ \A u \in listed : bal[u] \in Int
  BY Listed DEF TypeInv, TypeOK
<1>2. (\A u \in listed : bal[u] >= 0) \/ (\A u \in listed : bal[u] <= 0)
  BY <1>1 DEF SettledInv, Ended, Done
<1>3. TwoSided => \A u \in listed : After(u) = bal[u]
  BY DEF SettledInv, Booked
<1>4. ASSUME Complete
      PROVE  /\ \A u \in listed : After(u) = 0
             /\ debts # <<>> => Len(debts) < Cardinality(NonZero(OfListed))
  <2>1. SumFunctionOnSet(bal, listed) = 0
    BY <1>4 DEF SettledInv, Balanced
  <2>2. \A u \in listed : bal[u] = 0
    BY <1>1, <1>2, <2>1, SumIsZero
  <2>3. NonZero(bal) = {}
    BY <1>1, <2>2 DEF NonZero
  <2> QED
    BY <1>3, <1>4, <2>2, <2>3, CompleteIsTwoSided DEF SettledInv, LastDebt
<1> QED
  BY <1>2, <1>3, <1>4

\* When everybody pays as the result says, no listed member who owes is left
\* with one who is owed; if the list is complete all are even, and there are
\* fewer debts than members with a balance.
THEOREM SettleSettlesAll == Spec => []SettlesAll
  BY TypeInvInit, TypeInvNext, OverpaysInit, OverpaysNext, FewDebtsInit,
     FewDebtsNext, SettledInit, SettledNext, SettledSettles, PTL DEF Spec

-----------------------------------------------------------------------------
(* If every balance has its opposite, the least and the greatest one are   *)
(* opposites: each debt makes two members even.                            *)

Mirrors(m, f) == \A u \in NonZero(f) : m[m[u]] = u /\ f[m[u]] = -f[u]
Mirrored(f)   == \E m \in [NonZero(f) -> NonZero(f)] : Mirrors(m, f)

HalfAsMany ==
  Mirrored(OfListed) =>
    /\ Mirrored(bal)
    /\ 2 * Len(debts) + Cardinality(NonZero(bal)) <= Cardinality(NonZero(OfListed))

LEMMA HalfAsManyInit == Init => HalfAsMany
<1> SUFFICES ASSUME Init PROVE HalfAsMany
  OBVIOUS
<1>1. bal = OfListed /\ Len(debts) = 0
  BY DEF Init, OfListed
<1>2. Cardinality(NonZero(OfListed)) \in Nat
  BY TypeInvInit, Listed
<1> QED
  BY <1>1, <1>2 DEF HalfAsMany

\* Two members less, the others mirror each other still.
LEMMA MirrorsWithout ==
  ASSUME NEW S, NEW f \in [S -> Int], NEW a \in S, NEW b \in S, a # b,
         f[a] # 0, f[b] = -f[a],
         NEW g \in [S -> Int], g[a] = 0, g[b] = 0, \A u \in S \ {a, b} : g[u] = f[u],
         Mirrored(f)
  PROVE  Mirrored(g) /\ NonZero(g) = NonZero(f) \ {a, b} /\ {a, b} \subseteq NonZero(f)
<1>1. PICK m \in [NonZero(f) -> NonZero(f)] : Mirrors(m, f)
  BY DEF Mirrored
<1>2. NonZero(g) = NonZero(f) \ {a, b} /\ {a, b} \subseteq NonZero(f)
  BY DEF NonZero
<1>3. \A u \in NonZero(f) : /\ m[u] \in NonZero(f) /\ m[m[u]] = u /\ f[m[u]] = -f[u]
                            /\ u \in S /\ f[u] \in Int /\ f[u] # 0
  BY <1>1 DEF Mirrors, NonZero
<1>4. \A u \in NonZero(f) : m[u] # u
  BY <1>3
<1> DEFINE n == [u \in NonZero(g) |-> IF m[u] = a THEN m[b] ELSE IF m[u] = b THEN m[a] ELSE m[u]]
<1>5. ASSUME NEW u \in NonZero(g)
      PROVE  n[u] \in NonZero(g) /\ n[n[u]] = u /\ g[n[u]] = -g[u]
  <2>1. u \in NonZero(f) /\ u # a /\ u # b /\ g[u] = f[u]
    BY <1>2, <1>3
  <2>2. CASE m[u] = a
    <3>1. u = m[a] /\ m[b] # a /\ m[b] # b
      BY <1>2, <1>3, <1>4, <2>1, <2>2
    <3>2. m[b] \in NonZero(g) /\ m[m[b]] = b /\ g[m[b]] = f[m[b]]
      BY <1>2, <1>3, <3>1
    <3>3. n[u] = m[b] /\ n[m[b]] = m[a]
      BY <2>2, <3>2
    <3>4. f[m[b]] = -f[b] /\ f[u] = -f[a] /\ f[a] \in Int
      BY <1>2, <1>3, <3>1
    <3>5. n[n[u]] = u /\ n[u] \in NonZero(g)
      BY <3>1, <3>2, <3>3
    <3>6. g[n[u]] = -g[u]
      BY <2>1, <3>2, <3>3, <3>4
    <3> QED
      BY <3>5, <3>6
  <2>3. CASE m[u] = b
    <3>1. u = m[b] /\ m[a] # b /\ m[a] # a
      BY <1>2, <1>3, <1>4, <2>1, <2>3
    <3>2. m[a] \in NonZero(g) /\ m[m[a]] = a /\ g[m[a]] = f[m[a]]
      BY <1>2, <1>3, <3>1
    <3>3. n[u] = m[a] /\ n[m[a]] = m[b]
      BY <2>3, <3>2
    <3>4. f[m[a]] = -f[a] /\ f[u] = -f[b] /\ f[a] \in Int
      BY <1>2, <1>3, <3>1
    <3>5. n[n[u]] = u /\ n[u] \in NonZero(g)
      BY <3>1, <3>2, <3>3
    <3>6. g[n[u]] = -g[u]
      BY <2>1, <3>2, <3>3, <3>4
    <3> QED
      BY <3>5, <3>6
  <2>4. CASE m[u] # a /\ m[u] # b
    <3>1. m[u] \in NonZero(g) /\ m[m[u]] = u /\ g[m[u]] = f[m[u]]
      BY <1>2, <1>3, <2>1, <2>4
    <3>2. n[u] = m[u] /\ n[m[u]] = u
      BY <2>1, <2>4, <3>1
    <3> QED
      BY <1>3, <2>1, <3>1, <3>2
  <2> QED
    BY <2>2, <2>3, <2>4
<1>6. n \in [NonZero(g) -> NonZero(g)]
  BY <1>5
<1> HIDE DEF n
<1>7. Mirrored(g)
  BY <1>5, <1>6 DEF Mirrored, Mirrors
<1> QED
  BY <1>2, <1>7

LEMMA HalfAsManyNext == TypeInv /\ HalfAsMany /\ [Next]_vars => HalfAsMany'
<1> SUFFICES ASSUME TypeInv, HalfAsMany, [Next]_vars PROVE HalfAsMany'
  OBVIOUS
<1> DEFINE Aside == UNCHANGED <<net, listed, bal, debts>>
<1>1. Aside => HalfAsMany'
  <2> SUFFICES ASSUME Aside PROVE HalfAsMany'
    OBVIOUS
  <2>1. OfListed' = OfListed
    BY DEF OfListed
  <2>2. /\ Mirrored(OfListed)' = Mirrored(OfListed) /\ Mirrored(bal)' = Mirrored(bal)
        /\ NonZero(OfListed)' = NonZero(OfListed) /\ NonZero(bal)' = NonZero(bal)
    BY <2>1 DEF Mirrored, Mirrors, NonZero
  <2> QED
    BY <2>2 DEF HalfAsMany
<1>2. CASE Settle
  <2>1. UNCHANGED <<net, listed, from, to>>
    BY <1>2 DEF Settle
  <2>2. OfListed' = OfListed
    BY <2>1 DEF OfListed
  <2> SUFFICES ASSUME Mirrored(OfListed)
               PROVE  /\ Mirrored(bal')
                      /\ 2 * Len(debts') + Cardinality(NonZero(bal'))
                           <= Cardinality(NonZero(OfListed))
    <3>1. /\ Mirrored(OfListed)' = Mirrored(OfListed) /\ Mirrored(bal)' = Mirrored(bal')
          /\ NonZero(OfListed)' = NonZero(OfListed) /\ NonZero(bal)' = NonZero(bal')
      BY <2>2 DEF Mirrored, Mirrors, NonZero
    <3> QED
      BY <3>1 DEF HalfAsMany
  <2>3. /\ from \in listed /\ to \in listed /\ bal \in [listed -> Int]
        /\ debts \in Seq(Debts)
    BY DEF TypeInv, TypeOK
  <2>4. \A u \in listed : bal[from] <= bal[u] /\ bal[u] <= bal[to]
    BY <1>2 DEF TypeInv, Picked, Settle
  <2>5. /\ Mirrored(bal)
        /\ 2 * Len(debts) + Cardinality(NonZero(bal)) <= Cardinality(NonZero(OfListed))
    BY DEF HalfAsMany
  <2>6. bal[from] < 0 /\ bal[to] = -bal[from] /\ from # to
    <3>1. PICK m \in [NonZero(bal) -> NonZero(bal)] : Mirrors(m, bal)
      BY <2>5 DEF Mirrored
    <3>2. from \in NonZero(bal) /\ to \in NonZero(bal)
      BY <1>2, <2>3 DEF Settle, Done, NonZero
    <3>3. /\ m[from] \in listed /\ bal[m[from]] = -bal[from]
          /\ m[to] \in listed /\ bal[m[to]] = -bal[to]
      BY <2>3, <3>1, <3>2 DEF Mirrors, NonZero
    <3>4. bal[from] \in Int /\ bal[to] \in Int /\ bal[from] # 0
      BY <2>3, <3>2 DEF NonZero
    <3> QED
      BY <2>4, <3>3, <3>4
  <2>7. Amount = bal[to]
    BY <2>3, <2>6 DEF Amount
  <2>8. /\ bal' \in [listed -> Int] /\ bal'[from] = 0 /\ bal'[to] = 0
        /\ \A u \in listed \ {from, to} : bal'[u] = bal[u]
    BY <1>2, <2>3, <2>6, <2>7, TransferFacts
  <2>9. /\ Mirrored(bal') /\ NonZero(bal') = NonZero(bal) \ {from, to}
        /\ {from, to} \subseteq NonZero(bal)
    <3>1. bal[from] # 0
      BY <2>3, <2>6
    <3> QED
      BY <2>3, <2>5, <2>6, <2>8, <3>1, MirrorsWithout
  <2>10. /\ Cardinality(NonZero(bal')) = Cardinality(NonZero(bal)) - 2
         /\ Cardinality(NonZero(bal)) \in Nat
    <3> DEFINE A == NonZero(bal) \ {from}
    <3>1. NonZero(bal') = A \ {to} /\ from \in NonZero(bal) /\ to \in A
      BY <2>6, <2>9
    <3>2. /\ Cardinality(NonZero(bal)) \in Nat /\ IsFiniteSet(A)
          /\ Cardinality(A) = Cardinality(NonZero(bal)) - 1
      BY <3>1, NonZeroFinite, FS_RemoveElement
    <3>3. Cardinality(A \ {to}) = Cardinality(A) - 1
      BY <3>1, <3>2, FS_RemoveElement
    <3> QED
      BY <3>1, <3>2, <3>3
  <2>11. Len(debts') \in Nat /\ Len(debts) \in Nat /\ Len(debts') <= Len(debts) + 1
    BY <1>2, <2>3 DEF Settle
  <2> QED
    BY <2>5, <2>9, <2>10, <2>11, Listed
<1>3. CASE Sort
  BY <1>1, <1>3 DEF Sort
<1>4. CASE Return
  BY <1>1, <1>4 DEF Return
<1>5. CASE UNCHANGED vars
  BY <1>1, <1>5 DEF vars
<1> QED
  BY <1>2, <1>3, <1>4, <1>5 DEF Next

LEMMA TwoElements ==
  ASSUME NEW a, NEW b, a # b
  PROVE  IsFiniteSet({a, b}) /\ Cardinality({a, b}) = 2
<1>1. IsFiniteSet({a}) /\ Cardinality({a}) = 1 /\ b \notin {a}
  BY FS_Singleton
<1> QED
  BY <1>1, FS_AddElement, {a} \cup {b} = {a, b}

LEMMA FourElements ==
  ASSUME NEW a, NEW b, NEW c, NEW d,
         a # b, a # c, a # d, b # c, b # d, c # d
  PROVE  IsFiniteSet({a, b, c, d}) /\ Cardinality({a, b, c, d}) = 4
<1>1. IsFiniteSet({a, b}) /\ Cardinality({a, b}) = 2
  BY TwoElements
<1>2. IsFiniteSet({a, b, c}) /\ Cardinality({a, b, c}) = 3
  BY <1>1, FS_AddElement, {a, b} \cup {c} = {a, b, c}
<1> QED
  BY <1>2, FS_AddElement, {a, b, c} \cup {d} = {a, b, c, d}

\* Nobody with a balance is even alone.
LEMMA TwoInEvenSet ==
  ASSUME TypeInv, NEW S \in EvenSets
  PROVE  \E a, b \in S : a # b
<1>1. S # {} /\ S \subseteq NonZero(OfListed) /\ SumFunctionOnSet(net, S) = 0
  BY DEF EvenSets
<1>2. PICK a \in S : TRUE
  BY <1>1
<1>3. net[a] \in Int /\ net[a] # 0
  BY <1>1, Listed DEF NonZero, OfListed
<1>4. S # {a}
  BY <1>1, <1>3, SumOfOne
<1> QED
  BY <1>2, <1>4

\* Two sets of two that are even are two pairs of opposites.
LEMMA TwoPairsMirrored ==
  ASSUME TypeInv,
         NEW a, NEW b, NEW c, NEW d,
         a # b, a # c, a # d, b # c, b # d, c # d,
         NonZero(OfListed) = {a, b, c, d},
         SumFunctionOnSet(net, {a, b}) = 0, SumFunctionOnSet(net, {c, d}) = 0
  PROVE  Mirrored(OfListed)
<1>1. \A u \in {a, b, c, d} : OfListed[u] = net[u] /\ net[u] \in Int
  BY Listed DEF OfListed
<1>2. ASSUME NEW x \in {a, b, c, d}, NEW y \in {a, b, c, d}, x # y,
             SumFunctionOnSet(net, {x, y}) = 0
      PROVE  net[x] = -net[y] /\ net[y] = -net[x]
  <2>1. IsFiniteSet({x}) /\ {x} \cup {y} = {x, y} /\ y \notin {x}
    BY <1>2, FS_Singleton
  <2>2. \A u \in {x} \cup {y} : net[u] \in Int
    BY <1>1
  <2>3. SumFunctionOnSet(net, {x} \cup {y}) = SumFunctionOnSet(net, {x}) + net[y]
    BY <2>1, <2>2, SumWith
  <2>4. SumFunctionOnSet(net, {x}) = net[x]
    BY <1>1, SumOfOne
  <2>5. net[x] + net[y] = 0
    BY <1>2, <2>1, <2>3, <2>4
  <2>6. net[x] \in Int /\ net[y] \in Int
    BY <1>1
  <2> QED
    BY ONLY <2>5, <2>6
<1>3. net[a] = -net[b] /\ net[b] = -net[a]
  BY <1>2
<1>4. net[c] = -net[d] /\ net[d] = -net[c]
  BY <1>2
<1> DEFINE N == {a, b, c, d}
           m == [u \in N |-> IF u = a THEN b ELSE IF u = b THEN a
                             ELSE IF u = c THEN d ELSE c]
<1>5. m[a] = b /\ m[b] = a /\ m[c] = d /\ m[d] = c /\ m \in [N -> N]
  OBVIOUS
<1> HIDE DEF m
<1>6. \A u \in N : m[m[u]] = u /\ OfListed[m[u]] = -OfListed[u]
  BY <1>1, <1>3, <1>4, <1>5
<1> QED
  BY <1>5, <1>6 DEF Mirrored, Mirrors

LEMMA SettledMinimal ==
  ASSUME TypeInv, FewDebts, SettledInv, HalfAsMany
  PROVE  MinimalUpToFour
<1> DEFINE N == NonZero(OfListed)
           K == Cardinality(N)
<1> SUFFICES ASSUME K <= 4, pc = "returned", Complete, NEW P \in Partitions
             PROVE  Len(debts) <= K - Cardinality(P)
  BY DEF MinimalUpToFour, Minimal
<1>1. /\ IsFiniteSet(N) /\ K \in Nat /\ Len(debts) \in Nat
      /\ IsFiniteSet(listed) /\ DOMAIN bal = listed /\ \A u \in listed : bal[u] \in Int
  BY Listed DEF TypeInv, TypeOK
<1>2. NonZero(bal) = {}
  <2>1. (\A u \in listed : bal[u] >= 0) \/ (\A u \in listed : bal[u] <= 0)
    BY <1>1 DEF SettledInv, Ended, Done
  <2>2. SumFunctionOnSet(bal, listed) = 0
    BY DEF SettledInv, Balanced
  <2>3. \A u \in listed : bal[u] = 0
    BY <1>1, <2>1, <2>2, SumIsZero
  <2> QED
    BY <1>1, <2>3 DEF NonZero
<1>3. Cardinality(NonZero(bal)) = 0
  BY <1>2, FS_EmptySet
<1>4. Len(debts) <= K
  BY <1>1, <1>3, CompleteIsTwoSided DEF FewDebts
<1>5. K > 0 => Len(debts) < K
  <2>1. CASE debts = <<>>
    BY <1>1, <2>1
  <2>2. CASE debts # <<>>
    BY <1>2, <2>2 DEF SettledInv, LastDebt
  <2> QED
    BY <2>1, <2>2
<1>6. /\ \A S \in P : S \in EvenSets /\ S \subseteq N /\ SumFunctionOnSet(net, S) = 0
      /\ UNION P = N
      /\ \A S, T \in P : S # T => S \cap T = {}
  BY DEF Partitions, EvenSets
<1> HIDE DEF N, K
<1>7. CASE P = {}
  BY <1>1, <1>4, <1>7, FS_EmptySet
<1>8. CASE \E S : P = {S}
  <2>1. PICK S : P = {S}
    BY <1>8
  <2>2. Cardinality(P) = 1
    BY <2>1, FS_Singleton
  <2>3. N # {}
    BY <1>6, <2>1, TwoInEvenSet
  <2>4. K > 0
    BY <1>1, <2>3, FS_EmptySet DEF K
  <2> QED
    BY <1>1, <1>5, <2>2, <2>4
<1>9. CASE \E S, T \in P : S # T
  <2>1. PICK S \in P, T \in P : S # T
    BY <1>9
  <2>2. PICK a \in S, b \in S : a # b
    BY <1>6, TwoInEvenSet
  <2>3. PICK c \in T, d \in T : c # d
    BY <1>6, TwoInEvenSet
  <2>4. a # c /\ a # d /\ b # c /\ b # d /\ S \cap T = {}
    BY <1>6, <2>1, <2>2, <2>3
  <2> DEFINE F == {a, b, c, d}
  <2>5. F \subseteq N
    BY <1>6, <2>1, <2>2, <2>3
  <2>6. IsFiniteSet(F) /\ Cardinality(F) = 4
    BY <2>2, <2>3, <2>4, FourElements
  <2>7. N = F /\ K = 4
    <3>1. Cardinality(F) <= Cardinality(N)
      BY <1>1, <2>5, FS_Subset
    <3>2. Cardinality(N) = Cardinality(F)
      BY <1>1, <2>6, <3>1 DEF K
    <3> QED
      BY <1>1, <2>5, <2>6, <3>2, FS_Subset DEF K
  <2>8. S = {a, b} /\ T = {c, d}
    BY <1>6, <2>1, <2>2, <2>3, <2>4, <2>7
  <2>9. P = {S, T}
    <3>1. ASSUME NEW U \in P PROVE U \in {S, T}
      <4>1. PICK x \in U : TRUE
        BY <1>6, TwoInEvenSet
      <4>2. x \in S \/ x \in T
        BY <1>6, <2>7, <2>8, <4>1
      <4> QED
        BY <1>6, <2>1, <4>1, <4>2
    <3> QED
      BY <2>1, <3>1
  <2>10. Cardinality(P) = 2
    BY <2>1, <2>9, TwoElements
  <2>11. Mirrored(OfListed)
    <3>1. SumFunctionOnSet(net, {a, b}) = 0 /\ SumFunctionOnSet(net, {c, d}) = 0
      BY <1>6, <2>1, <2>8
    <3> QED
      BY <2>2, <2>3, <2>4, <2>7, <3>1, TwoPairsMirrored DEF N
  <2>12. 2 * Len(debts) + 0 <= 4
    BY <1>3, <2>7, <2>11 DEF HalfAsMany, K, N
  <2> QED
    BY <1>1, <2>7, <2>10, <2>12
<1>10. P = {} \/ (\E S : P = {S}) \/ (\E S, T \in P : S # T)
  <2> SUFFICES ASSUME P # {}, \A S, T \in P : S = T PROVE \E S : P = {S}
    OBVIOUS
  <2>1. PICK S \in P : TRUE
    OBVIOUS
  <2>2. P = {S}
    BY <2>1
  <2> QED
    BY <2>2
<1> QED
  BY <1>7, <1>8, <1>9, <1>10

\* With a complete list of up to four members with a balance, there is no way
\* to settle with fewer debts: however they are split into sets that are even
\* among themselves, there are no more debts than members less sets.
THEOREM SettleMinimalUpToFour == Spec => []MinimalUpToFour
  BY TypeInvInit, TypeInvNext, OverpaysInit, OverpaysNext, FewDebtsInit,
     FewDebtsNext, SettledInit, SettledNext, HalfAsManyInit, HalfAsManyNext,
     SettledMinimal, PTL DEF Spec
=============================================================================
