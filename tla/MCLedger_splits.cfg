\* Every way to split an expense of a few members, one request and one expense,
\* in a currency with and one without decimals, with a width of 16 bits.
SPECIFICATION Spec
CONSTANTS
  ann = ann
  bob = bob
  cat = cat
  nobody = nobody
  w1 = w1
  w2 = w2
  Users = {ann, bob, cat}
  Strangers = {nobody}
  Currencies = {"USD", "JPY"}
  Bodies <- ManyBodies
  Workers = {w1}
  Failures = FALSE
  MaxExpenses = 1
  Modulus = 65536
  TooLarge <- SmallestInt
SYMMETRY Symmetry
INVARIANTS
  SharesAddUp
  
  FairShares
  PercentagesPass
  BalancesAddUp
\* Once the bound is reached and the group is deleted, nothing is left to do.
CHECK_DEADLOCK FALSE
