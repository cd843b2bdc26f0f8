-------------------------------- MODULE Feed --------------------------------
(***************************************************************************)
(* What the chat hub promises to the clients of a group, without channels, *)
(* goroutines or buffers.  Broadcasts are numbered in the order in which   *)
(* they are accepted.  A client joins the feed of its group at some point  *)
(* of that order and from then on receives the broadcasts of its group,    *)
(* each once and in order.  A client that was found too slow may miss      *)
(* some, but never sees one twice, late, or from another group.            *)
(* Module Hub implements this specification.                               *)
(***************************************************************************)
EXTENDS Naturals, Sequences

CONSTANTS Clients,  \* WebSocket connections
          Groups,   \* expense groups, each with one room
          GroupOf   \* the group a connection was opened for

VARIABLES log,      \* log[i]: the group of broadcast number i
          joined,   \* the clients that have joined
          start,    \* start[c]: how many broadcasts preceded c's joining
          seen,     \* seen[c]: the numbers c has received
          slow      \* the clients found too slow

vars == <<log, joined, start, seen, slow>>

Init ==
  /\ log = <<>>
  /\ joined = {}
  /\ start = [c \in Clients |-> 0]
  /\ seen = [c \in Clients |-> <<>>]
  /\ slow = {}

\* The number of the last broadcast c has received or preceded its joining.
Position(c) == IF seen[c] = <<>> THEN start[c] ELSE seen[c][Len(seen[c])]

\* Broadcast i is the first one of c's group after c's position.
IsNext(c, i) == \A j \in (Position(c) + 1)..(i - 1) : log[j] # GroupOf[c]

Publish(g) ==
  /\ log' = Append(log, g)
  /\ UNCHANGED <<joined, start, seen, slow>>

Join(c) ==
  /\ c \notin joined
  /\ joined' = joined \cup {c}
  /\ \E n \in 0..Len(log) : start' = [start EXCEPT ![c] = n]
  /\ UNCHANGED <<log, seen, slow>>

Receive(c) ==
  /\ c \in joined
  /\ \E i \in (Position(c) + 1)..Len(log) :
       /\ log[i] = GroupOf[c]
       /\ c \in slow \/ IsNext(c, i)
       /\ seen' = [seen EXCEPT ![c] = Append(@, i)]
  /\ UNCHANGED <<log, joined, start, slow>>

FallBehind(c) ==
  /\ c \in joined
  /\ slow' = slow \cup {c}
  /\ UNCHANGED <<log, joined, start, seen>>

Next ==
  \/ \E g \in Groups : Publish(g)
  \/ \E c \in Clients : Join(c) \/ Receive(c) \/ FallBehind(c)

Spec == Init /\ [][Next]_vars
=============================================================================
