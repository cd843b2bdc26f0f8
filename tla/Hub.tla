-------------------------------- MODULE Hub ---------------------------------
(***************************************************************************)
(* The chat hub of internal/chat: one event-loop goroutine (Hub.Run) that  *)
(* owns the rooms and selects over three buffered channels, and for every  *)
(* WebSocket connection the ServeWS handler that registers it and the two  *)
(* goroutines (ReadPump, WritePump) it starts.                             *)
(*                                                                         *)
(* Buffered channels are sequences with a capacity: a send blocks while    *)
(* the channel is full.  A panic in Run (a second close of a channel, a    *)
(* send on a closed one) is recovered by nobody and ends the process.      *)
(* Payloads are abstracted to the number of the broadcast that carries     *)
(* them.                                                                   *)
(***************************************************************************)
EXTENDS Integers, Sequences, SequencesExt

CONSTANTS Clients,   \* connections, each a *Client of its own
          Groups,    \* group ids
          GroupOf,   \* Client.GroupID
          RegCap,    \* capacity of Hub.register    (64 in the code)
          UnregCap,  \* capacity of Hub.unregister  (64)
          BcastCap,  \* capacity of Hub.broadcast   (256)
          SendCap,   \* capacity of Client.send     (256)
          MaxPosts   \* model bound: how many broadcasts are ever posted

ASSUME HubAssumption ==
  /\ GroupOf \in [Clients -> Groups]
  /\ {RegCap, UnregCap, BcastCap, SendCap} \subseteq Nat \ {0}
  /\ MaxPosts \in Nat

VARIABLES
  status,      \* what has become of Run and of the process
  register, unregister, broadcast,  \* the hub's channels
  rooms,       \* rooms[g]: the clients in the room of g ({}: no room)
  msg,         \* the broadcast Run is fanning out (0: none yet)
  targets,     \* the clients it has still to be sent to; {} when Run selects
  send,        \* Client.send, the numbers queued for the client
  closed,      \* the clients whose send channel is closed
  conn,        \* the connection as the server sees it
  readPump,    \* ServeWS up to Register, then the ReadPump goroutine
  writePump,   \* the WritePump goroutine
  \* History, read by the properties only:
  posted,      \* posted[i]: the group of broadcast number i
  got,         \* got[c]: the numbers written to c's connection
  joined,      \* the clients Run has put into a room
  start,       \* start[c]: the broadcasts Run had taken when c joined
  evicted,     \* the clients Run has found with a full buffer
  late         \* the clients put into a room after their channel was closed

hubVars  == <<status, register, unregister, broadcast, rooms, msg, targets>>
chanVars == <<send, closed>>
pumpVars == <<conn, readPump, writePump>>
histVars == <<posted, got, joined, start, evicted, late>>
vars     == <<hubVars, chanVars, pumpVars, histVars>>

Init ==
  /\ status = "running"
  /\ register = <<>> /\ unregister = <<>> /\ broadcast = <<>>
  /\ rooms = [g \in Groups |-> {}]
  /\ msg = 0 /\ targets = {}
  /\ send = [c \in Clients |-> <<>>]
  /\ closed = {}
  /\ conn = [c \in Clients |-> "none"]
  /\ readPump = [c \in Clients |-> "none"]
  /\ writePump = [c \in Clients |-> "none"]
  /\ posted = <<>>
  /\ got = [c \in Clients |-> <<>>]
  /\ joined = {}
  /\ start = [c \in Clients |-> 0]
  /\ evicted = {} /\ late = {}

\* A panic ends every goroutine; a hub that has stopped or is stuck does not.
Alive == status \in {"running", "stopped", "stuck"}

\* Run is at its select statement.
Selecting == status = "running" /\ targets = {}

Room(c) == rooms[GroupOf[c]]

\* The broadcasts Run has received from the channel.
Taken == Len(posted) - Len(broadcast)

(* A definition marked "Fault" is the one that follows it with a bug seeded *)
(* into it: the checks of the properties' worth use it, no specification    *)
(* does.                                                                    *)

\* Fault: a channel that holds one more than its capacity.
HasRoomForOneMore(ch, cap) == Len(ch) <= cap

HasRoom(ch, cap) == Len(ch) < cap

Full(c) == Len(send[c]) = SendCap

\* Fault: the room is made anew for every client, whether it exists or not.
RoomsMadeAnewWith(c) == [rooms EXCEPT ![GroupOf[c]] = {c}]

RoomsWith(c) == [rooms EXCEPT ![GroupOf[c]] = @ \cup {c}]

\* Fault: the client stays in its room.
RoomsStillWith(c) == rooms

RoomsWithout(c) == [rooms EXCEPT ![GroupOf[c]] = @ \ {c}]

\* Fault: the channel of an unregistered client is not closed.
LeftOpen(c) == closed

Closing(c) == closed \cup {c}

\* Fault: every client gets every group's broadcasts.
EverybodyGets(i) == UNION {rooms[g] : g \in Groups}

Recipients(i) == rooms[posted[i]]

-----------------------------------------------------------------------------
(* The goroutines of one connection.                                       *)

\* ServeWS upgrades the request of a group member and makes a Client of it.
Upgrade(c) ==
  /\ Alive
  /\ readPump[c] = "none"
  /\ conn' = [conn EXCEPT ![c] = "open"]
  /\ readPump' = [readPump EXCEPT ![c] = "registering"]
  /\ UNCHANGED <<hubVars, chanVars, writePump, histVars>>

\* ServeWS queues the registration, then starts both pumps.
Register(c) ==
  /\ Alive
  /\ readPump[c] = "registering"
  /\ HasRoom(register, RegCap)
  /\ register' = Append(register, c)
  /\ readPump' = [readPump EXCEPT ![c] = "reading"]
  /\ writePump' = [writePump EXCEPT ![c] = "running"]
  /\ UNCHANGED <<status, unregister, broadcast, rooms, msg, targets,
                 chanVars, conn, histVars>>

\* ReadMessage fails: the peer left, the pong timed out, or the connection
\* was closed on this side.
ReadFails(c) ==
  /\ Alive
  /\ readPump[c] = "reading"
  /\ readPump' = [readPump EXCEPT ![c] = "leaving"]
  /\ UNCHANGED <<hubVars, chanVars, conn, writePump, histVars>>

\* The deferred calls of ReadPump: Unregister, which waits for room in the
\* channel, then the close of the connection.  WritePump may write in between.
Unregister(c) ==
  /\ Alive
  /\ readPump[c] = "leaving"
  /\ HasRoom(unregister, UnregCap)
  /\ unregister' = Append(unregister, c)
  /\ readPump' = [readPump EXCEPT ![c] = "closing"]
  /\ UNCHANGED <<status, register, broadcast, rooms, msg, targets,
                 chanVars, conn, writePump, histVars>>

Close(c) ==
  /\ Alive
  /\ readPump[c] = "closing"
  /\ readPump' = [readPump EXCEPT ![c] = "done"]
  /\ conn' = [conn EXCEPT ![c] = "closed"]
  /\ UNCHANGED <<hubVars, chanVars, writePump, histVars>>

\* Fault: WritePump unregisters the client as ReadPump does.
StopWritingAndUnregister(c) ==
  /\ writePump' = [writePump EXCEPT ![c] = "done"]
  /\ conn' = [conn EXCEPT ![c] = "closed"]
  /\ unregister' = Append(unregister, c)
  /\ UNCHANGED <<status, register, broadcast, rooms, msg, targets, closed,
                 readPump>>

\* WritePump returns, which closes the connection.
StopWriting(c) ==
  /\ writePump' = [writePump EXCEPT ![c] = "done"]
  /\ conn' = [conn EXCEPT ![c] = "closed"]
  /\ UNCHANGED <<hubVars, closed, readPump>>

WriteMessage(c) ==
  /\ Alive
  /\ writePump[c] = "running" /\ conn[c] = "open"
  /\ send[c] # <<>>
  /\ send' = [send EXCEPT ![c] = Tail(@)]
  /\ got' = [got EXCEPT ![c] = Append(@, Head(send[c]))]
  /\ UNCHANGED <<hubVars, closed, pumpVars, posted, joined, start,
                 evicted, late>>

\* A write fails: the connection is closed, or writeWait has passed.
WriteFails(c) ==
  /\ Alive
  /\ writePump[c] = "running"
  /\ send[c] # <<>>
  /\ send' = [send EXCEPT ![c] = Tail(@)]
  /\ StopWriting(c)
  /\ UNCHANGED histVars

\* The channel is closed and drained: send a close frame and return.
WriteClose(c) ==
  /\ Alive
  /\ writePump[c] = "running"
  /\ send[c] = <<>> /\ c \in closed
  /\ StopWriting(c)
  /\ UNCHANGED <<send, histVars>>

\* The ticker fires and the ping cannot be written.
PingFails(c) ==
  /\ Alive
  /\ writePump[c] = "running"
  /\ StopWriting(c)
  /\ UNCHANGED <<send, histVars>>

WritePump(c) == WriteMessage(c) \/ WriteFails(c) \/ WriteClose(c)

-----------------------------------------------------------------------------
(* The callers of BroadcastMessage and BroadcastBalanceUpdate.             *)

Broadcast(g) ==
  /\ Alive
  /\ Len(posted) < MaxPosts
  /\ HasRoom(broadcast, BcastCap)
  /\ posted' = Append(posted, g)
  /\ broadcast' = Append(broadcast, Len(posted) + 1)
  /\ UNCHANGED <<status, register, unregister, rooms, msg, targets, chanVars,
                 pumpVars, got, joined, start, evicted, late>>

-----------------------------------------------------------------------------
(* Hub.Run.  When several cases are ready, select picks one at random.     *)

RunRegister ==
  /\ Selecting
  /\ register # <<>>
  /\ LET c == Head(register) IN
       /\ rooms' = RoomsWith(c)
       /\ joined' = joined \cup {c}
       /\ start' = [start EXCEPT ![c] = Taken]
       /\ late' = IF c \in closed THEN late \cup {c} ELSE late
  /\ register' = Tail(register)
  /\ UNCHANGED <<status, unregister, broadcast, msg, targets, chanVars,
                 pumpVars, posted, got, evicted>>

\* Leaves the room if it is there, and closes the channel in any case.
RunUnregister ==
  /\ Selecting
  /\ unregister # <<>>
  /\ LET c == Head(unregister) IN
       /\ rooms' = RoomsWithout(c)
       /\ status' = IF c \in closed THEN "double_close" ELSE status
       /\ closed' = Closing(c)
  /\ unregister' = Tail(unregister)
  /\ UNCHANGED <<register, broadcast, msg, targets, send, pumpVars, histVars>>

RunBroadcast ==
  /\ Selecting
  /\ broadcast # <<>>
  /\ msg' = Head(broadcast)
  /\ targets' = Recipients(Head(broadcast))
  /\ broadcast' = Tail(broadcast)
  /\ UNCHANGED <<status, register, unregister, rooms, chanVars, pumpVars,
                 histVars>>

\* One target of the fan-out, in the map's random order.
Deliver(c) ==
  /\ status = "running" /\ c \in targets
  /\ c \notin closed
  /\ ~Full(c)
  /\ send' = [send EXCEPT ![c] = Append(@, msg)]
  /\ targets' = targets \ {c}
  /\ UNCHANGED <<status, register, unregister, broadcast, rooms, msg, closed,
                 pumpVars, histVars>>

\* Fault: the send has no default case and waits for the client.
WaitForClient(c) == FALSE

\* Full: Run itself sends c to the channel that only Run receives from.
Evict(c) ==
  /\ status = "running" /\ c \in targets
  /\ c \notin closed
  /\ Full(c)
  /\ IF HasRoom(unregister, UnregCap)
     THEN /\ unregister' = Append(unregister, c)
          /\ targets' = targets \ {c}
          /\ status' = status
     ELSE /\ status' = "stuck"
          /\ UNCHANGED <<unregister, targets>>
  /\ evicted' = evicted \cup {c}
  /\ UNCHANGED <<register, broadcast, rooms, msg, chanVars, pumpVars,
                 posted, got, joined, start, late>>

SendOnClosed(c) ==
  /\ status = "running" /\ c \in targets
  /\ c \in closed
  /\ status' = "send_closed"
  /\ UNCHANGED <<register, unregister, broadcast, rooms, msg, targets,
                 chanVars, pumpVars, histVars>>

FanOut(c) == Deliver(c) \/ Evict(c) \/ SendOnClosed(c)

\* The context is cancelled when the server shuts down.
RunDone ==
  /\ Selecting
  /\ status' = "stopped"
  /\ UNCHANGED <<register, unregister, broadcast, rooms, msg, targets,
                 chanVars, pumpVars, histVars>>

-----------------------------------------------------------------------------
Next ==
  \/ \E c \in Clients :
       \/ Upgrade(c) \/ Register(c)
       \/ ReadFails(c) \/ Unregister(c) \/ Close(c)
       \/ WriteMessage(c) \/ WriteFails(c) \/ WriteClose(c) \/ PingFails(c)
       \/ Deliver(c) \/ Evict(c) \/ SendOnClosed(c)
  \/ \E g \in Groups : Broadcast(g)
  \/ RunRegister \/ RunUnregister \/ RunBroadcast \/ RunDone

Spec == Init /\ [][Next]_vars

\* What the connection's goroutine that reads does of itself, in this order:
\* ServeWS's registration, a read from a closed connection, ReadPump's deferred
\* calls.
ReadPump(c) ==
  \/ Register(c)
  \/ conn[c] = "closed" /\ ReadFails(c)
  \/ Unregister(c) \/ Close(c)

\* select picks every case that is ready infinitely often, goroutines waiting
\* to send on a channel are served in turn, and a runnable goroutine runs.
\* Nothing makes a peer leave, a ping fail, a client connect or anyone post.
Fairness ==
  /\ SF_vars(RunRegister) /\ SF_vars(RunUnregister) /\ SF_vars(RunBroadcast)
  /\ WF_vars(\E c \in Clients : FanOut(c))
  /\ \A c \in Clients : WF_vars(WritePump(c)) /\ SF_vars(ReadPump(c))

FairSpec == Spec /\ Fairness

-----------------------------------------------------------------------------
\* Type invariant: every variable has its type, and no channel exceeds its
\* capacity (hub.go:32-39, client.go:28-36).
TypeOK ==
  /\ status \in {"running", "stopped", "stuck", "double_close", "send_closed"}
  /\ register \in Seq(Clients) /\ Len(register) <= RegCap
  /\ unregister \in Seq(Clients) /\ Len(unregister) <= UnregCap
  /\ broadcast \in Seq(Nat) /\ Len(broadcast) <= BcastCap
  /\ rooms \in [Groups -> SUBSET Clients]
  /\ msg \in Nat
  /\ targets \subseteq Clients
  /\ send \in [Clients -> Seq(Nat)]
  /\ \A c \in Clients : Len(send[c]) <= SendCap
  /\ closed \subseteq Clients
  /\ conn \in [Clients -> {"none", "open", "closed"}]
  /\ readPump \in [Clients -> {"none", "registering", "reading", "leaving",
                               "closing", "done"}]
  /\ writePump \in [Clients -> {"none", "running", "done"}]
  /\ posted \in Seq(Groups)
  /\ got \in [Clients -> Seq(Nat)]
  /\ joined \subseteq Clients
  /\ start \in [Clients -> Nat]
  /\ evicted \subseteq Clients
  /\ late \subseteq Clients

\* The hub closes a client's channel a second time, which ends the process
\* (hub.go:66), only if it has evicted that very client: connections that come
\* and go, in whatever order their registration and their unregistration are
\* selected, never cause it.
DoubleCloseNeedsEviction ==
  [][status' = "double_close" /\ status # "double_close"
       => Head(unregister) \in evicted]_vars

\* The hub sends on a closed channel (hub.go:81) only to a client whose
\* registration it selected after its unregistration: a client unregistered
\* while a fan-out is under way, or evicted, is never sent to.
SendOnClosedNeedsLateRegister ==
  status = "send_closed" =>
    targets \cap closed # {} /\ targets \cap closed \subseteq late

\* A client that has joined, is not unregistered, whose write pump runs and
\* that was never found full has received, or has queued, every broadcast of
\* its group that the hub took since it joined (hub.go:48-88): other clients
\* that come, go and are evicted make it lose nothing.
NothingLostInRoom ==
  \A c \in Clients :
    (/\ c \in joined \ (closed \cup evicted \cup targets)
     /\ writePump[c] = "running"
     /\ status = "running")
      => \A i \in (start[c] + 1)..Taken :
           posted[i] = GroupOf[c] => i \in ToSet(got[c] \o send[c])

\* The clients observe a Feed: in order, without repetition, of their own
\* group only, and without a gap unless they were evicted.
FeedOf == INSTANCE Feed WITH log <- posted, seen <- got, slow <- evicted

FeedSpec == FeedOf!Spec

\* Each pump brings the other one down, as long as the hub runs: when the read
\* loop has ended, the write pump stops too, the channel it waits on being
\* closed or its writes failing (client.go:40-44, hub.go:66); when the write pump
\* has stopped, the read loop fails on the connection it closed, and ReadPump
\* finds room to unregister the client (client.go:83, 56).
PumpsStop ==
  \A c \in Clients :
    (readPump[c] = "leaving" \/ writePump[c] = "done")
      ~> ((readPump[c] = "done" /\ writePump[c] = "done") \/ status # "running")

\* Every broadcast that entered the channel is taken and its fan-out ends
\* (hub.go:69-88), as long as the hub runs.
BroadcastsFannedOut ==
  \A i \in 1..MaxPosts :
    Len(posted) >= i ~> ((Taken >= i /\ targets = {}) \/ status # "running")

(* What the documentation says and the code does not do.                   *)

\* docs/websocket.md:164 "Client send buffer full | Client is unregistered
\* (dropped)": that client only, and once (hub.go:57-67, 84).
EvictionOnlyDropsTheClient == evicted # {} => status # "double_close"

\* docs/architecture.md:137 "if full, the client is dropped without blocking
\* the hub" (hub.go:84).
EvictionNeverBlocksTheHub == status # "stuck"
=============================================================================
