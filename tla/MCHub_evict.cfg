\* What docs/websocket.md says of a full send buffer.
SPECIFICATION Spec
CONSTANTS
  a = a
  b = b
  g1 = g1
  g2 = g2
  Clients = {a, b}
  Groups = {g1}
  GroupOf <- SameGroup
  RegCap = 2
  UnregCap = 2
  BcastCap = 2
  SendCap = 1
  MaxPosts = 2
INVARIANT EvictionOnlyDropsTheClient
\* A panic ends the process, the hub may stop, and all work can be done.
CHECK_DEADLOCK FALSE
