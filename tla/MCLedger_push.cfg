\* What docs/websocket.md says of a balance update.
SPECIFICATION Spec
CONSTANTS
  ann = ann
  bob = bob
  cat = cat
  nobody = nobody
  w1 = w1
  w2 = w2
  Users = {ann, bob}
  Strangers = {nobody}
  Currencies = {"USD"}
  Bodies <- OneBody
  Workers = {w1, w2}
  Failures = FALSE
  MaxExpenses = 1
  Modulus = 65536
  TooLarge <- SmallestInt
SYMMETRY Symmetry
INVARIANT UpdatesAreFullSnapshots
