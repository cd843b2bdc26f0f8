\* Two requests at a time, for expenses and for the balances, and two expenses,
\* with members who come and go.
SPECIFICATION Spec
CONSTANTS
  ann = ann
  bob = bob
  cat = cat
  nobody = nobody
  w1 = w1
  w2 = w2
  Users = {ann, bob}
  Strangers = {nobody}
  Currencies = {"USD"}
  Bodies <- OneBody
  Workers = {w1, w2}
  Failures = TRUE
  MaxExpenses = 2
  Modulus = 65536
  TooLarge <- SmallestInt
SYMMETRY Symmetry
INVARIANTS
  TypeOK
  SharedByMembers
  LastUpdateCurrent
 
\* Once the bound is reached and the group is deleted, nothing is left to do.
CHECK_DEADLOCK FALSE
