\* Every interleaving of two connections and two broadcasts, with channels and
\* send buffers of one: every sender may have to wait, buffers fill, clients
\* are evicted, some of them twice.
SPECIFICATION FairSpec
CONSTANTS
  a = a
  b = b
  g1 = g1
  g2 = g2
  Clients = {a, b}
  Groups = {g1, g2}
  GroupOf <- SameGroup
  RegCap = 1
  UnregCap = 1
  BcastCap = 1
  SendCap = 1
  MaxPosts = 2
INVARIANTS
  TypeOK
  SendOnClosedNeedsLateRegister
  NothingLostInRoom
PROPERTIES
  DoubleCloseNeedsEviction
  FeedSpec
  PumpsStop
  BroadcastsFannedOut
\* A panic ends the process, the hub may stop, and all work can be done.
CHECK_DEADLOCK FALSE
