----------------------------- MODULE HubProofs ------------------------------
(* What TLAPS proves of Hub, for any number of clients and groups and any  *)
(* channel capacities.                                                     *)
EXTENDS Hub, TLAPS

-----------------------------------------------------------------------------
(* Sequences                                                               *)

\* Appending to a channel adds one element at its end.
LEMMA AppendFacts ==
  ASSUME NEW S, NEW s \in Seq(S), NEW e \in S
  PROVE  /\ Append(s, e) \in Seq(S)
         /\ Len(Append(s, e)) = Len(s) + 1
         /\ \A i \in 1..Len(s) : Append(s, e)[i] = s[i]
         /\ Append(s, e)[Len(s) + 1] = e
  OBVIOUS

\* Receiving from a channel that is not empty takes its first element.
LEMMA TailFacts ==
  ASSUME NEW S, NEW s \in Seq(S), s # <<>>
  PROVE  /\ Head(s) = s[1] /\ Head(s) \in S
         /\ Len(s) \in Nat \ {0}
         /\ Tail(s) \in Seq(S)
         /\ Len(Tail(s)) = Len(s) - 1
         /\ \A i \in 1..Len(Tail(s)) : Tail(s)[i] = s[i + 1]
  OBVIOUS

-----------------------------------------------------------------------------
(* Types.  Run looks the group of a broadcast up in the history of posts,  *)
(* so types rest on what the broadcast channel holds: the last numbers     *)
(* given out, in order.                                                    *)

Fifo ==
  /\ Len(broadcast) <= Len(posted)
  /\ \A i \in 1..Len(broadcast) : broadcast[i] = Taken + i

TypeInv == TypeOK /\ Fifo

LEMMA TypeInvInit == Init => TypeInv
  BY HubAssumption DEF HubAssumption, Init, TypeInv, TypeOK, Fifo, Taken

LEMMA TypeInvNext == TypeInv /\ [Next]_vars => TypeInv'
<1> SUFFICES ASSUME TypeInv, [Next]_vars PROVE TypeInv'
  OBVIOUS
<1> USE HubAssumption DEF HubAssumption, TypeInv
<1>1. ASSUME NEW c \in Clients, Upgrade(c) PROVE TypeInv'
  BY <1>1 DEF Upgrade, TypeOK, Fifo, Taken, hubVars, chanVars, histVars
<1>2. ASSUME NEW c \in Clients, Register(c) PROVE TypeInv'
  BY <1>2, AppendFacts
     DEF Register, HasRoom, TypeOK, Fifo, Taken, chanVars, histVars
<1>3. ASSUME NEW c \in Clients, ReadFails(c) PROVE TypeInv'
  BY <1>3 DEF ReadFails, TypeOK, Fifo, Taken, hubVars, chanVars, histVars
<1>4. ASSUME NEW c \in Clients, Unregister(c) PROVE TypeInv'
  <2>1. /\ Append(unregister, c) \in Seq(Clients)
        /\ Len(Append(unregister, c)) <= UnregCap
    BY <1>4, AppendFacts DEF Unregister, HasRoom, TypeOK
  <2> QED
    BY <1>4, <2>1 DEF Unregister, TypeOK, Fifo, Taken, chanVars, histVars
<1>17. ASSUME NEW c \in Clients, Close(c) PROVE TypeInv'
  BY <1>17 DEF Close, TypeOK, Fifo, Taken, hubVars, chanVars, histVars
<1>5. ASSUME NEW c \in Clients, WriteMessage(c) PROVE TypeInv'
  <2>1. /\ send[c] \in Seq(Nat) /\ Len(send[c]) <= SendCap
        /\ send[c] # <<>> /\ got[c] \in Seq(Nat)
    BY <1>5 DEF WriteMessage, TypeOK
  <2>2. /\ Tail(send[c]) \in Seq(Nat) /\ Len(Tail(send[c])) <= SendCap
        /\ Append(got[c], Head(send[c])) \in Seq(Nat)
    BY <2>1, TailFacts, AppendFacts
  <2> QED
    BY <1>5, <2>2
       DEF WriteMessage, TypeOK, Fifo, Taken, hubVars, pumpVars
<1>6. ASSUME NEW c \in Clients, WriteFails(c) PROVE TypeInv'
  <2>1. send[c] \in Seq(Nat) /\ Len(send[c]) <= SendCap /\ send[c] # <<>>
    BY <1>6 DEF WriteFails, TypeOK
  <2>2. Tail(send[c]) \in Seq(Nat) /\ Len(Tail(send[c])) <= SendCap
    BY <2>1, TailFacts
  <2> QED
    BY <1>6, <2>2
       DEF WriteFails, StopWriting, TypeOK, Fifo, Taken, hubVars, histVars
<1>7. ASSUME NEW c \in Clients, WriteClose(c) \/ PingFails(c) PROVE TypeInv'
  <2>1. StopWriting(c) /\ UNCHANGED <<send, histVars>>
    BY <1>7 DEF WriteClose, PingFails
  <2> QED
    BY <2>1 DEF StopWriting, TypeOK, Fifo, Taken, hubVars, histVars
<1>8. ASSUME NEW c \in Clients, Deliver(c) PROVE TypeInv'
  <2>1. send[c] \in Seq(Nat) /\ Len(send[c]) <= SendCap /\ msg \in Nat
    BY DEF TypeOK
  <2>2. Append(send[c], msg) \in Seq(Nat) /\ Len(Append(send[c], msg)) <= SendCap
    BY <1>8, <2>1, AppendFacts DEF Deliver, Full
  <2> QED
    BY <1>8, <2>2
       DEF Deliver, TypeOK, Fifo, Taken, pumpVars, histVars
<1>9. ASSUME NEW c \in Clients, Evict(c) PROVE TypeInv'
  <2>1. CASE HasRoom(unregister, UnregCap)
    <3>1. /\ Append(unregister, c) \in Seq(Clients)
          /\ Len(Append(unregister, c)) <= UnregCap
      BY <2>1, AppendFacts DEF HasRoom, TypeOK
    <3> QED
      BY <1>9, <2>1, <3>1 DEF Evict, TypeOK, Fifo, Taken, chanVars, pumpVars
  <2>2. CASE ~HasRoom(unregister, UnregCap)
    BY <1>9, <2>2 DEF Evict, TypeOK, Fifo, Taken, chanVars, pumpVars
  <2> QED
    BY <2>1, <2>2
<1>10. ASSUME NEW c \in Clients, SendOnClosed(c) PROVE TypeInv'
  BY <1>10 DEF SendOnClosed, TypeOK, Fifo, Taken, chanVars, pumpVars, histVars
<1>11. ASSUME NEW g \in Groups, Broadcast(g) PROVE TypeInv'
  <2>1. /\ Append(posted, g) \in Seq(Groups)
        /\ Len(posted') = Len(posted) + 1
        /\ Append(broadcast, Len(posted) + 1) \in Seq(Nat)
        /\ Len(broadcast') = Len(broadcast) + 1 /\ Len(broadcast) < BcastCap
        /\ \A i \in 1..Len(broadcast) : broadcast'[i] = broadcast[i]
        /\ broadcast'[Len(broadcast) + 1] = Len(posted) + 1
    BY <1>11, AppendFacts DEF Broadcast, HasRoom, TypeOK
  <2>2. TypeOK'
    <3>1. posted' \in Seq(Groups) /\ broadcast' \in Seq(Nat)
      BY <1>11, <2>1 DEF Broadcast
    <3>2. Len(broadcast') <= BcastCap
      BY <2>1 DEF TypeOK
    <3> QED
      BY <1>11, <3>1, <3>2 DEF Broadcast, TypeOK, chanVars, pumpVars
  <2>3. Fifo'
    <3>1. Len(posted) \in Nat /\ Len(broadcast) \in Nat
      BY DEF TypeOK
    <3>2. Taken' = Taken /\ Len(broadcast') <= Len(posted')
      BY <2>1, <3>1 DEF Taken, Fifo
    <3>3. ASSUME NEW i \in 1..Len(broadcast') PROVE broadcast'[i] = Taken + i
      <4>1. CASE i \in 1..Len(broadcast)
        BY <2>1, <4>1 DEF Fifo
      <4>2. CASE i = Len(broadcast) + 1
        BY <2>1, <3>1, <4>2 DEF Taken
      <4> QED
        BY <2>1, <3>1, <4>1, <4>2
    <3> QED
      BY <3>2, <3>3 DEF Fifo
  <2> QED
    BY <2>2, <2>3
<1>12. ASSUME RunRegister PROVE TypeInv'
  <2>1. Head(register) \in Clients /\ Tail(register) \in Seq(Clients)
        /\ Len(Tail(register)) <= RegCap
    BY <1>12, TailFacts DEF RunRegister, TypeOK
  <2>2. Taken \in Nat
    BY DEF Taken, Fifo, TypeOK
  <2> QED
    BY <1>12, <2>1, <2>2
       DEF RunRegister, RoomsWith, TypeOK, Fifo, Taken, chanVars, pumpVars
<1>13. ASSUME RunUnregister PROVE TypeInv'
  <2>1. Head(unregister) \in Clients /\ Tail(unregister) \in Seq(Clients)
        /\ Len(Tail(unregister)) <= UnregCap
    BY <1>13, TailFacts DEF RunUnregister, TypeOK
  <2> QED
    BY <1>13, <2>1
       DEF RunUnregister, RoomsWithout, Closing, TypeOK, Fifo, Taken,
           pumpVars, histVars
<1>14. ASSUME RunBroadcast PROVE TypeInv'
  <2>1. /\ Head(broadcast) = broadcast[1] /\ Len(broadcast) \in Nat \ {0}
        /\ Tail(broadcast) \in Seq(Nat)
        /\ Len(Tail(broadcast)) = Len(broadcast) - 1
        /\ \A i \in 1..Len(Tail(broadcast)) : Tail(broadcast)[i] = broadcast[i + 1]
    BY <1>14, TailFacts DEF RunBroadcast, TypeOK
  <2>2. Head(broadcast) \in 1..Len(posted)
    BY <2>1 DEF Fifo, Taken, TypeOK
  <2>3. Recipients(Head(broadcast)) \subseteq Clients
    BY <2>2 DEF Recipients, TypeOK
  <2>4. TypeOK'
    <3>1. broadcast' \in Seq(Nat) /\ Len(broadcast') <= BcastCap
      BY <1>14, <2>1 DEF RunBroadcast, TypeOK
    <3>2. msg' \in Nat /\ targets' \subseteq Clients
      BY <1>14, <2>1, <2>3 DEF RunBroadcast, TypeOK
    <3>3. UNCHANGED <<status, register, unregister, rooms, chanVars, pumpVars,
                      histVars>>
      BY <1>14 DEF RunBroadcast
    <3> QED
      BY <3>1, <3>2, <3>3 DEF TypeOK, chanVars, pumpVars, histVars
  <2>5. Fifo'
    BY <1>14, <2>1 DEF RunBroadcast, Fifo, Taken, TypeOK, histVars
  <2> QED
    BY <2>4, <2>5
<1>15. ASSUME RunDone PROVE TypeInv'
  BY <1>15 DEF RunDone, TypeOK, Fifo, Taken, chanVars, pumpVars, histVars
<1>16. ASSUME UNCHANGED vars PROVE TypeInv'
  BY <1>16 DEF vars, hubVars, chanVars, pumpVars, histVars, TypeOK, Fifo, Taken
<1> QED
  BY <1>1, <1>2, <1>3, <1>4, <1>5, <1>6, <1>7, <1>8, <1>9, <1>10, <1>11,
     <1>12, <1>13, <1>14, <1>15, <1>16, <1>17 DEF Next

\* Every reachable state of the hub is well typed, and no channel ever holds
\* more than its capacity.
THEOREM HubTypeCorrect == Spec => []TypeOK
<1>1. TypeInv => TypeOK
  BY DEF TypeInv
<1> QED
  BY TypeInvInit, TypeInvNext, <1>1, PTL DEF Spec
-----------------------------------------------------------------------------
(* The second close.  A client that was never evicted is queued for        *)
(* unregistration at most once, by its own ReadPump as it ends, so when    *)
(* Run takes it its channel is still open.                                 *)

\* c is in place i of the unregister channel.
Queued(c, i) == i <= Len(unregister) /\ unregister[i] = c

Places == 1..UnregCap

\* Its ReadPump has unregistered c.
Gone(c) == readPump[c] \in {"closing", "done"}

UnregisteredOnce ==
  \A c \in Clients \ evicted :
    /\ \A i, j \in Places : Queued(c, i) /\ Queued(c, j) => i = j
    /\ \A i \in Places : Queued(c, i) => Gone(c) /\ c \notin closed
    /\ c \in closed => Gone(c)

\* An appended client takes the first free place and moves nobody.
LEMMA AppendedPlace ==
  ASSUME TypeInv, NEW c \in Clients, unregister' = Append(unregister, c)
  PROVE  \A d \in Clients, i \in Places :
           Queued(d, i)' => Queued(d, i) \/ (d = c /\ i = Len(unregister) + 1)
<1>1. /\ unregister \in Seq(Clients) /\ Len(unregister) \in Nat
      /\ UnregCap \in Nat
  BY HubAssumption DEF TypeInv, TypeOK, HubAssumption
<1>2. /\ Len(unregister') = Len(unregister) + 1
      /\ \A i \in 1..Len(unregister) : unregister'[i] = unregister[i]
      /\ unregister'[Len(unregister) + 1] = c
  BY <1>1, AppendFacts
<1> QED
  BY <1>1, <1>2 DEF Queued, Places

LEMMA OnceNext ==
  TypeInv /\ UnregisteredOnce /\ [Next]_vars => UnregisteredOnce'
<1> SUFFICES ASSUME TypeInv, UnregisteredOnce, [Next]_vars PROVE UnregisteredOnce'
  OBVIOUS
<1> USE DEF TypeInv
<1>1. ASSUME UNCHANGED <<unregister, evicted, closed>>,
             \A c \in Clients : Gone(c) => Gone(c)'
      PROVE  UnregisteredOnce'
  BY <1>1 DEF UnregisteredOnce, Queued
<1>2. ASSUME NEW c \in Clients,
             \/ Upgrade(c) \/ Register(c) \/ ReadFails(c) \/ Close(c)
             \/ WriteMessage(c) \/ WriteFails(c) \/ WriteClose(c)
             \/ PingFails(c) \/ Deliver(c)
      PROVE  UnregisteredOnce'
  BY <1>1, <1>2
     DEF Gone, Upgrade, Register, ReadFails, Close, WriteMessage, WriteFails, WriteClose,
         PingFails, Deliver, StopWriting, hubVars, chanVars, pumpVars,
         histVars, TypeOK
<1>3. ASSUME NEW c \in Clients, Unregister(c) PROVE UnregisteredOnce'
  <2>1. /\ unregister' = Append(unregister, c) /\ readPump[c] = "leaving"
        /\ readPump' = [readPump EXCEPT ![c] = "closing"]
        /\ UNCHANGED <<evicted, closed>>
    BY <1>3 DEF Unregister, chanVars, histVars
  <2>2. \A i \in Places : ~Queued(c, i) \/ c \in evicted
    BY <2>1 DEF UnregisteredOnce, Gone
  <2>3. \A d \in Clients, i \in Places :
          Queued(d, i)' => Queued(d, i) \/ (d = c /\ i = Len(unregister) + 1)
    BY <2>1, AppendedPlace
  <2>4. c \notin evicted => c \notin closed
    BY <2>1 DEF UnregisteredOnce, Gone
  <2>5. \A d \in Clients : Gone(d) \/ d = c => Gone(d)'
    BY <2>1 DEF TypeOK, Gone
  <2> QED
    <3> SUFFICES ASSUME NEW d \in Clients \ evicted'
                 PROVE  /\ \A i, j \in Places : Queued(d, i)' /\ Queued(d, j)' => i = j
                        /\ \A i \in Places : Queued(d, i)' => Gone(d)' /\ d \notin closed'
                        /\ d \in closed' => Gone(d)'
      BY DEF UnregisteredOnce
    <3>1. d \in Clients \ evicted
      BY <2>1
    <3>2. CASE d = c
      BY <2>1, <2>2, <2>3, <2>4, <2>5, <3>1, <3>2
    <3>3. CASE d # c
      BY <2>1, <2>3, <2>5, <3>1, <3>3 DEF UnregisteredOnce
    <3> QED
      BY <3>2, <3>3
<1>4. ASSUME NEW c \in Clients, Evict(c) PROVE UnregisteredOnce'
  <2>1. /\ unregister' \in {Append(unregister, c), unregister}
        /\ evicted' = evicted \cup {c} /\ UNCHANGED <<closed, readPump>>
    BY <1>4 DEF Evict, chanVars, pumpVars
  <2>2. \A d \in Clients \ {c}, i \in Places : Queued(d, i)' => Queued(d, i)
    BY <2>1, AppendedPlace DEF Queued
  <2> QED
    BY <2>1, <2>2 DEF UnregisteredOnce, Gone
<1>5. ASSUME RunUnregister PROVE UnregisteredOnce'
  <2> DEFINE c == Head(unregister)
  <2>1. /\ c = unregister[1] /\ c \in Clients
        /\ Len(unregister) \in Nat \ {0}
        /\ Len(unregister') = Len(unregister) - 1
        /\ \A i \in 1..Len(unregister') : unregister'[i] = unregister[i + 1]
    BY <1>5, TailFacts DEF RunUnregister, TypeOK
  <2>2. /\ closed' = closed \cup {c} /\ UNCHANGED <<evicted, readPump>>
    BY <1>5 DEF RunUnregister, Closing, pumpVars, histVars
  <2>3. Queued(c, 1) /\ 1 \in Places
    <3>1. Len(unregister) <= UnregCap /\ UnregCap \in Nat
      BY HubAssumption DEF HubAssumption, TypeOK
    <3> QED
      BY ONLY <2>1, <3>1 DEF Queued, Places
  <2>4. \A d \in Clients, i \in Places :
          Queued(d, i)' => Queued(d, i + 1) /\ i + 1 \in Places
    <3>1. Len(unregister) <= UnregCap /\ UnregCap \in Nat
      BY HubAssumption DEF HubAssumption, TypeOK
    <3> QED
      BY <2>1, <3>1 DEF Queued, Places
  <2> QED
    <3> SUFFICES ASSUME NEW d \in Clients \ evicted'
                 PROVE  /\ \A i, j \in Places : Queued(d, i)' /\ Queued(d, j)' => i = j
                        /\ \A i \in Places : Queued(d, i)' => Gone(d)' /\ d \notin closed'
                        /\ d \in closed' => Gone(d)'
      BY DEF UnregisteredOnce
    <3>1. d \in Clients \ evicted
      BY <2>2
    <3>2. ASSUME NEW i \in Places, NEW j \in Places, Queued(d, i)', Queued(d, j)' PROVE i = j
      <4>1. i + 1 = j + 1
        BY <2>4, <3>1, <3>2 DEF UnregisteredOnce
      <4> QED
        BY <4>1, HubAssumption DEF Places, HubAssumption
    <3>3. ASSUME NEW i \in Places, Queued(d, i)' PROVE d # c
      <4>1. Queued(d, i + 1) /\ i + 1 \in Places
        BY <2>1, <2>4, <3>1, <3>3
      <4>2. i + 1 # 1
        BY HubAssumption DEF Places, HubAssumption
      <4> QED
        BY <2>3, <3>1, <4>1, <4>2 DEF UnregisteredOnce
    <3>4. \A i \in Places : Queued(d, i)' => Gone(d) /\ d \notin closed
      BY <2>4, <3>1 DEF UnregisteredOnce
    <3>5. d \in closed' => Gone(d)
      BY <2>2, <2>3, <3>1 DEF UnregisteredOnce
    <3> QED
      BY <2>2, <3>2, <3>3, <3>4, <3>5 DEF Gone
<1>6. ASSUME \E g \in Groups : Broadcast(g) PROVE UnregisteredOnce'
  BY <1>1, <1>6 DEF Gone, Broadcast, chanVars, pumpVars
<1>7. CASE RunRegister \/ RunBroadcast
  BY <1>1, <1>7 DEF Gone, RunRegister, RunBroadcast, chanVars, pumpVars, histVars
<1>8. CASE RunDone \/ \E c \in Clients : SendOnClosed(c)
  BY <1>1, <1>8 DEF Gone, RunDone, SendOnClosed, chanVars, pumpVars, histVars
<1>9. CASE UNCHANGED vars
  BY <1>1, <1>9 DEF Gone, vars, hubVars, chanVars, pumpVars, histVars
<1> QED
  BY <1>2, <1>3, <1>4, <1>5, <1>6, <1>7, <1>8, <1>9 DEF Next

\* Only RunUnregister closes a channel, and a channel it finds closed is that
\* of a client that was evicted.
LEMMA CloseStep ==
  TypeInv /\ UnregisteredOnce /\ [Next]_vars
    => (status' = "double_close" /\ status # "double_close"
          => Head(unregister) \in evicted)
<1> SUFFICES ASSUME TypeInv, UnregisteredOnce, [Next]_vars,
                    status' = "double_close", status # "double_close"
             PROVE  Head(unregister) \in evicted
  OBVIOUS
<1>1. /\ RunUnregister /\ Head(unregister) \in closed
  BY DEF Next, Upgrade, Register, ReadFails, Unregister, Close, WriteMessage,
         WriteFails, WriteClose, PingFails, StopWriting, Deliver, Evict,
         SendOnClosed, Broadcast, RunRegister, RunUnregister, RunBroadcast,
         RunDone, vars, hubVars
<1>2. /\ Head(unregister) = unregister[1] /\ Head(unregister) \in Clients
      /\ Len(unregister) \in 1..UnregCap /\ UnregCap \in Nat
  BY <1>1, TailFacts, HubAssumption
     DEF RunUnregister, TypeInv, TypeOK, HubAssumption
<1>3. 1 \in Places /\ Queued(Head(unregister), 1)
  BY <1>2 DEF Places, Queued
<1> QED
  BY <1>1, <1>2, <1>3 DEF UnregisteredOnce

\* The hub closes a client's channel a second time, and the process dies, only
\* if it has evicted that very client: registrations, disconnects and broadcasts
\* alone never cause it, however they interleave and whatever the capacities.
THEOREM HubDoubleClose == Spec => DoubleCloseNeedsEviction
<1>1. Init => UnregisteredOnce
  BY HubAssumption DEF HubAssumption, Init, UnregisteredOnce, Queued, Places
<1>2. TypeInv /\ UnregisteredOnce /\ [Next]_vars
        => [status' = "double_close" /\ status # "double_close"
              => Head(unregister) \in evicted]_vars
  BY CloseStep
<1> QED
  BY TypeInvInit, TypeInvNext, OnceNext, <1>1, <1>2, PTL
     DEF Spec, DoubleCloseNeedsEviction

-----------------------------------------------------------------------------
(* The send on a closed channel.  Unregistering takes a client out of its  *)
(* room in the step that closes its channel, and no fan-out is under way   *)
(* then; only a registration selected later puts it back.                  *)

RoomsAreOpen ==
  /\ \A g \in Groups : \A c \in rooms[g] : GroupOf[c] = g
  /\ \A c \in closed : c \in Room(c) \cup targets => c \in late

SendInv == RoomsAreOpen /\ SendOnClosedNeedsLateRegister

LEMMA SendInvNext ==
  TypeInv /\ SendInv /\ [Next]_vars => SendInv'
<1> SUFFICES ASSUME TypeInv, SendInv, [Next]_vars PROVE SendInv'
  OBVIOUS
<1> USE HubAssumption
    DEF HubAssumption, TypeInv, SendInv, RoomsAreOpen, Room,
        SendOnClosedNeedsLateRegister
<1>1. ASSUME UNCHANGED <<rooms, closed, late, targets, status>>
      PROVE  SendInv'
  BY <1>1
<1>2. ASSUME NEW c \in Clients,
             \/ Upgrade(c) \/ Register(c) \/ ReadFails(c) \/ Unregister(c)
             \/ Close(c) \/ WriteMessage(c) \/ WriteFails(c) \/ WriteClose(c)
             \/ PingFails(c)
      PROVE  SendInv'
  BY <1>1, <1>2
     DEF Upgrade, Register, ReadFails, Unregister, Close, WriteMessage,
         WriteFails, WriteClose, PingFails, StopWriting, hubVars, chanVars,
         histVars
<1>3. ASSUME NEW c \in Clients, Deliver(c) \/ Evict(c) PROVE SendInv'
  BY <1>3 DEF Deliver, Evict, chanVars, histVars
<1>4. ASSUME NEW c \in Clients, SendOnClosed(c) PROVE SendInv'
  BY <1>4 DEF SendOnClosed, chanVars, histVars
<1>5. ASSUME NEW g \in Groups, Broadcast(g) PROVE SendInv'
  BY <1>1, <1>5 DEF Broadcast, chanVars
<1>6. CASE RunRegister
  <2>1. Head(register) \in Clients
    BY <1>6, TailFacts DEF RunRegister, TypeOK
  <2>2. /\ rooms' = [rooms EXCEPT ![GroupOf[Head(register)]] = @ \cup {Head(register)}]
        /\ late' = IF Head(register) \in closed THEN late \cup {Head(register)} ELSE late
        /\ targets = {} /\ UNCHANGED <<closed, targets, status>>
        /\ status = "running"
    BY <1>6 DEF RunRegister, RoomsWith, Selecting, chanVars
  <2>3. \A g \in Groups : rooms'[g] = IF g = GroupOf[Head(register)]
                                    THEN rooms[g] \cup {Head(register)} ELSE rooms[g]
    BY <2>1, <2>2 DEF TypeOK
  <2> QED
    BY <2>1, <2>2, <2>3
<1>7. CASE RunUnregister
  <2> DEFINE d == Head(unregister)
  <2>1. d \in Clients
    BY <1>7, TailFacts DEF RunUnregister, TypeOK
  <2>2. /\ rooms' = [rooms EXCEPT ![GroupOf[d]] = @ \ {d}]
        /\ closed' = closed \cup {d} /\ targets = {} /\ UNCHANGED <<late, targets>>
        /\ status' \in {"running", "double_close"}
    BY <1>7 DEF RunUnregister, RoomsWithout, Closing, Selecting, histVars
  <2> HIDE DEF d
  <2>3. \A g \in Groups : rooms'[g] = IF g = GroupOf[d] THEN rooms[g] \ {d} ELSE rooms[g]
    BY <2>1, <2>2 DEF TypeOK
  <2> QED
    BY <2>1, <2>2, <2>3
<1>8. CASE RunBroadcast
  <2>1. Head(broadcast) \in 1..Len(posted)
    <3>1. /\ Head(broadcast) = broadcast[1] /\ Len(broadcast) \in Nat \ {0}
      BY <1>8, TailFacts DEF RunBroadcast, TypeOK
    <3>2. Len(posted) \in Nat
      BY DEF TypeOK
    <3> QED
      BY <3>1, <3>2 DEF Fifo, Taken
  <2>2. posted[Head(broadcast)] \in Groups
    BY <2>1 DEF TypeOK
  <2> QED
    BY <1>8, <2>2 DEF RunBroadcast, Recipients, Selecting, TypeOK, chanVars, histVars
<1>9. CASE RunDone
  BY <1>9 DEF RunDone, chanVars, histVars
<1>10. CASE UNCHANGED vars
  BY <1>1, <1>10 DEF vars, hubVars, chanVars, histVars
<1> QED
  BY <1>2, <1>3, <1>4, <1>5, <1>6, <1>7, <1>8, <1>9, <1>10 DEF Next

\* The hub sends on a closed channel only to a client whose registration it
\* selected after its unregistration; the fan-out itself, which copies the
\* room and works on the copy, never outlives a channel.
THEOREM HubSendOnClosed == Spec => []SendOnClosedNeedsLateRegister
<1>1. Init => SendInv
  BY DEF Init, SendInv, RoomsAreOpen, Room, SendOnClosedNeedsLateRegister
<1>2. SendInv => SendOnClosedNeedsLateRegister
  BY DEF SendInv
<1> QED
  BY TypeInvInit, TypeInvNext, SendInvNext, <1>1, <1>2, PTL DEF Spec
=============================================================================
