\* Two connections and two messages, with a page of one: every interleaving of
\* the goroutines with the hub, the history, the members and the failures.
SPECIFICATION Spec
CONSTANTS
  ann = ann
  bob = bob
  a = a
  b = b
  Clients = {a, b}
  Users = {ann, bob}
  UserOf <- OneEach
  Limit = 1
  Failures = TRUE
  MaxMessages = 2
SYMMETRY Symmetry
INVARIANTS
  TypeOK
  BroadcastsAreStored
  NoGap
  OutsidersSeeNothing
  DroppedNeedsReturn
\* The bound is reached and the group deleted: nothing is left to do.
CHECK_DEADLOCK FALSE
