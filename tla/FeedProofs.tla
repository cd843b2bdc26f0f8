----------------------------- MODULE FeedProofs ------------------------------
(***************************************************************************)
(* That Hub implements Feed, and loses nothing in a room, for any number   *)
(* of connections and groups and any capacities.  The inductive invariant  *)
(* follows the broadcasts of a connection's group through the fan-out, the *)
(* send channel and the connection.                                        *)
(***************************************************************************)
EXTENDS HubProofs

\* The last broadcast c has received, or that preceded its joining.
Reached(c) == IF got[c] = <<>> THEN start[c] ELSE got[c][Len(got[c])]

\* c has received broadcast i, or has it in its channel.
Has(c, i) ==
  \/ \E k \in 1..Len(got[c]) : got[c][k] = i
  \/ \E k \in 1..Len(send[c]) : send[c][k] = i

\* What the channel of c holds comes after what c has received, in order.
InOrder(c) ==
  /\ \A k \in 1..Len(send[c]) : /\ send[c][k] \in (Reached(c) + 1)..Taken
                                /\ posted[send[c][k]] = GroupOf[c]
  /\ \A j, k \in 1..Len(send[c]) : j < k => send[c][j] < send[c][k]
  /\ \A k \in 1..Len(got[c]) : got[c][k] <= Reached(c)
  /\ Reached(c) \in start[c]..Taken
  /\ c \notin joined => send[c] = <<>> /\ got[c] = <<>>

\* What is about to be sent to c comes after everything c has.
Targeted(c) ==
  c \in targets => /\ c \in joined
                   /\ msg = Taken /\ msg > Reached(c)
                   /\ posted[msg] = GroupOf[c]
                   /\ \A k \in 1..Len(send[c]) : send[c][k] < msg

\* Only an eviction, or the end of the connection, keeps a broadcast from c.
NoLoss(c) ==
  c \in joined \ evicted /\ writePump[c] = "running" =>
    \A i \in (start[c] + 1)..Taken : posted[i] = GroupOf[c] =>
      \/ Has(c, i)
      \/ i = msg /\ c \in targets
      \/ c \in closed /\ \A k \in 1..Len(send[c]) : send[c][k] < i

InRoom(c) ==
  /\ \A g \in Groups : c \in rooms[g] => g = GroupOf[c] /\ c \in joined
  /\ c \in joined \ closed => c \in Room(c)

Flow(c) == InOrder(c) /\ Targeted(c) /\ NoLoss(c) /\ InRoom(c)

\* c is in place i of the register channel.
Waiting(c, i) == i <= Len(register) /\ register[i] = c

RegisteredOnce ==
  \A c \in Clients :
    /\ \A i, j \in 1..RegCap : Waiting(c, i) /\ Waiting(c, j) => i = j
    /\ \A i \in 1..RegCap : Waiting(c, i) => c \notin joined
    /\ (c \in joined \/ \E i \in 1..RegCap : Waiting(c, i))
         => readPump[c] \notin {"none", "registering"}

FlowInv == RegisteredOnce /\ \A c \in Clients : Flow(c)

-----------------------------------------------------------------------------
(* A client is registered once *)

LEMMA RegisteredOnceNext ==
  TypeInv /\ RegisteredOnce /\ [Next]_vars => RegisteredOnce'
<1> SUFFICES ASSUME TypeInv, RegisteredOnce, [Next]_vars PROVE RegisteredOnce'
  OBVIOUS
<1>1. ASSUME UNCHANGED <<register, joined>>,
             \A c \in Clients : readPump[c] \notin {"none", "registering"}
                                  => readPump'[c] \notin {"none", "registering"}
      PROVE  RegisteredOnce'
  BY <1>1 DEF RegisteredOnce, Waiting
<1>2. ASSUME NEW c \in Clients, Register(c) PROVE RegisteredOnce'
  <2>1. /\ register' = Append(register, c) /\ joined' = joined
        /\ readPump[c] = "registering" /\ readPump' = [readPump EXCEPT ![c] = "reading"]
    BY <1>2 DEF Register, histVars
  <2>2. /\ register \in Seq(Clients) /\ Len(register) \in Nat /\ RegCap \in Nat
        /\ readPump \in [Clients -> {"none", "registering", "reading", "leaving",
                                   "closing", "done"}]
    BY HubAssumption DEF HubAssumption, TypeInv, TypeOK
  <2>3. /\ Len(register') = Len(register) + 1
        /\ \A i \in 1..Len(register) : register'[i] = register[i]
        /\ register'[Len(register) + 1] = c
    BY <2>1, <2>2, AppendFacts
  <2>4. \A d \in Clients, i \in 1..RegCap :
          Waiting(d, i)' => Waiting(d, i) \/ (d = c /\ i = Len(register) + 1)
    BY <2>2, <2>3 DEF Waiting
  <2>5. c \notin joined /\ \A i \in 1..RegCap : ~ Waiting(c, i)
    BY <2>1 DEF RegisteredOnce
  <2>6. \A d \in Clients : readPump'[d] = IF d = c THEN "reading" ELSE readPump[d]
    BY <2>1, <2>2
  <2> SUFFICES ASSUME NEW d \in Clients
               PROVE  /\ \A i, j \in 1..RegCap : Waiting(d, i)' /\ Waiting(d, j)' => i = j
                      /\ \A i \in 1..RegCap : Waiting(d, i)' => d \notin joined'
                      /\ (d \in joined' \/ \E i \in 1..RegCap : Waiting(d, i)')
                           => readPump'[d] \notin {"none", "registering"}
    BY DEF RegisteredOnce
  <2>7. CASE d = c
    BY <2>1, <2>4, <2>5, <2>6, <2>7
  <2>8. CASE d # c
    BY <2>1, <2>4, <2>6, <2>8 DEF RegisteredOnce
  <2> QED
    BY <2>7, <2>8
<1>3. ASSUME RunRegister PROVE RegisteredOnce'
  <2> DEFINE c == Head(register)
  <2>1. /\ c = register[1] /\ c \in Clients
        /\ Len(register) \in Nat \ {0} /\ Len(register) <= RegCap /\ RegCap \in Nat
        /\ Len(register') = Len(register) - 1
        /\ \A i \in 1..Len(register') : register'[i] = register[i + 1]
    BY <1>3, TailFacts, HubAssumption DEF HubAssumption, RunRegister, TypeInv, TypeOK
  <2>2. joined' = joined \cup {c} /\ readPump' = readPump
    BY <1>3 DEF RunRegister, pumpVars
  <2>3. \A d \in Clients, i \in 1..RegCap :
          Waiting(d, i)' => Waiting(d, i + 1) /\ i + 1 \in 1..RegCap
    BY <2>1 DEF Waiting
  <2>4. Waiting(c, 1) /\ 1 \in 1..RegCap
    BY <2>1 DEF Waiting
  <2>5. \A i \in 1..RegCap : i + 1 # 1
    OBVIOUS
  <2> HIDE DEF c
  <2> SUFFICES ASSUME NEW d \in Clients
               PROVE  /\ \A i, j \in 1..RegCap : Waiting(d, i)' /\ Waiting(d, j)' => i = j
                      /\ \A i \in 1..RegCap : Waiting(d, i)' => d \notin joined'
                      /\ (d \in joined' \/ \E i \in 1..RegCap : Waiting(d, i)')
                           => readPump'[d] \notin {"none", "registering"}
    BY DEF RegisteredOnce
  <2>6. \A i, j \in 1..RegCap : Waiting(d, i)' /\ Waiting(d, j)' => i = j
    <3> SUFFICES ASSUME NEW i \in 1..RegCap, NEW j \in 1..RegCap,
                        Waiting(d, i)', Waiting(d, j)'
                 PROVE  i = j
      OBVIOUS
    <3>1. i + 1 = j + 1
      BY <2>3 DEF RegisteredOnce
    <3> QED
      BY <3>1
  <2>7. \A i \in 1..RegCap : Waiting(d, i)' => d \notin joined'
    <3> SUFFICES ASSUME NEW i \in 1..RegCap, Waiting(d, i)' PROVE d \notin joined'
      OBVIOUS
    <3>1. Waiting(d, i + 1) /\ i + 1 \in 1..RegCap /\ d \notin joined
      BY <2>3 DEF RegisteredOnce
    <3>2. d # c
      BY <2>4, <2>5, <3>1 DEF RegisteredOnce
    <3> QED
      BY <2>2, <3>1, <3>2
  <2>8. (d \in joined' \/ \E i \in 1..RegCap : Waiting(d, i)')
           => readPump'[d] \notin {"none", "registering"}
    BY <2>1, <2>2, <2>3, <2>4 DEF RegisteredOnce
  <2> QED
    BY <2>6, <2>7, <2>8
<1>4. ASSUME NEW c \in Clients,
             \/ Upgrade(c) \/ ReadFails(c) \/ Unregister(c) \/ Close(c) \/ WriteMessage(c)
             \/ WriteFails(c) \/ WriteClose(c) \/ PingFails(c) \/ FanOut(c)
      PROVE  RegisteredOnce'
  BY <1>1, <1>4
     DEF Upgrade, ReadFails, Unregister, Close, WriteMessage, WriteFails, WriteClose,
         PingFails, FanOut, Deliver, Evict, SendOnClosed, StopWriting, hubVars,
         chanVars, pumpVars, histVars, TypeInv, TypeOK
<1>5. CASE RunUnregister \/ RunBroadcast \/ RunDone \/ \E g \in Groups : Broadcast(g)
  BY <1>1, <1>5 DEF RunUnregister, RunBroadcast, RunDone, Broadcast, pumpVars, histVars
<1>6. CASE UNCHANGED vars
  BY <1>1, <1>6 DEF vars, hubVars, pumpVars, histVars
<1> QED
  BY <1>2, <1>3, <1>4, <1>5, <1>6 DEF Next, FanOut

-----------------------------------------------------------------------------
(* The flow of broadcasts to one connection *)

\* A step that leaves alone what c has, and what the hub is sending, keeps the
\* flow to c.
LEMMA FlowFrame ==
  ASSUME TypeInv, NEW c \in Clients, Flow(c),
         UNCHANGED <<send[c], got[c], start[c], Taken, msg, rooms, joined, closed>>,
         (c \in targets') = (c \in targets), evicted \subseteq evicted',
         writePump'[c] = "running" => writePump[c] = "running" \/ c \notin joined,
         \A i \in 1..Taken : posted'[i] = posted[i]
  PROVE  Flow(c)'
<1>1. /\ start[c] \in Nat /\ Taken \in Nat
      /\ send[c] \in Seq(Nat) /\ got[c] \in Seq(Nat)
  BY DEF TypeInv, TypeOK, Fifo, Taken
<1>2. Reached(c)' = Reached(c) /\ Reached(c) \in start[c]..Taken
  BY DEF Reached, Flow, InOrder
<1>3. InOrder(c)'
  <2>1. \A k \in 1..Len(send[c]) : posted'[send[c][k]] = posted[send[c][k]]
    BY <1>1, <1>2 DEF Flow, InOrder
  <2> QED
    BY <1>2, <2>1 DEF Flow, InOrder
<1>4. Targeted(c)'
  <2>1. c \in targets => msg \in 1..Taken
    BY <1>1, <1>2 DEF Flow, Targeted
  <2> QED
    BY <1>2, <2>1 DEF Flow, Targeted
<1>5. NoLoss(c)'
  <2> SUFFICES ASSUME (c \in joined \ evicted /\ writePump[c] = "running")',
                      NEW i \in (start[c] + 1)..Taken, posted'[i] = GroupOf[c]
               PROVE  \/ Has(c, i)'
                      \/ i = msg /\ c \in targets
                      \/ c \in closed /\ \A k \in 1..Len(send[c]) : send[c][k] < i
    BY DEF NoLoss
  <2>1. posted[i] = GroupOf[c]
    BY <1>1
  <2>2. Has(c, i)' = Has(c, i)
    BY DEF Has
  <2> QED
    BY <2>1, <2>2 DEF Flow, NoLoss
<1>6. InRoom(c)'
  BY DEF Flow, InRoom, Room
<1> QED
  BY <1>3, <1>4, <1>5, <1>6 DEF Flow

\* Taking a message from the channel: what is left comes after it.
LEMMA FlowTaken ==
  ASSUME TypeInv, NEW c \in Clients, Flow(c), send[c] # <<>>
  PROVE  LET m == Head(send[c]) IN
         /\ m \in (Reached(c) + 1)..Taken /\ posted[m] = GroupOf[c]
         /\ send[c][1] = m /\ Len(send[c]) \in Nat \ {0}
         /\ Len(Tail(send[c])) = Len(send[c]) - 1
         /\ \A k \in 1..Len(Tail(send[c])) :
              /\ Tail(send[c])[k] = send[c][k + 1]
              /\ k + 1 \in 1..Len(send[c])
              /\ Tail(send[c])[k] \in (m + 1)..Taken
              /\ posted[Tail(send[c])[k]] = GroupOf[c]
         /\ \A j, k \in 1..Len(Tail(send[c])) :
              j < k => Tail(send[c])[j] < Tail(send[c])[k]
         /\ c \in joined
<1> DEFINE s == send[c]
<1>1. s \in Seq(Nat) /\ s # <<>>
  BY DEF TypeInv, TypeOK
<1>2. /\ Head(s) = s[1] /\ Head(s) \in Nat
      /\ Len(s) \in Nat \ {0} /\ Len(Tail(s)) = Len(s) - 1
      /\ \A k \in 1..Len(Tail(s)) : Tail(s)[k] = s[k + 1] /\ k + 1 \in 1..Len(s)
  <2> HIDE DEF s
  <2>1. /\ Head(s) = s[1] /\ Head(s) \in Nat
        /\ Len(s) \in Nat \ {0} /\ Len(Tail(s)) = Len(s) - 1
        /\ \A k \in 1..Len(Tail(s)) : Tail(s)[k] = s[k + 1]
    BY <1>1, TailFacts
  <2> QED
    BY <2>1
<1>3. /\ \A k \in 1..Len(s) : s[k] \in (Reached(c) + 1)..Taken
                              /\ posted[s[k]] = GroupOf[c]
      /\ \A j, k \in 1..Len(s) : j < k => s[j] < s[k]
      /\ c \in joined
      /\ Reached(c) \in Int /\ Taken \in Int
  <2>1. start[c] \in Nat /\ Taken \in Nat
    BY DEF TypeInv, TypeOK, Fifo, Taken
  <2> QED
    BY <2>1 DEF Flow, InOrder
<1> HIDE DEF s
<1>4. \A k \in 1..Len(Tail(s)) :
        Tail(s)[k] \in (s[1] + 1)..Taken /\ posted[Tail(s)[k]] = GroupOf[c]
  <2> TAKE k \in 1..Len(Tail(s))
  <2>1. Tail(s)[k] = s[k + 1] /\ k + 1 \in 1..Len(s) /\ 1 \in 1..Len(s) /\ 1 < k + 1
    BY <1>2
  <2>2. s[1] < s[k + 1] /\ s[k + 1] \in (Reached(c) + 1)..Taken
        /\ posted[s[k + 1]] = GroupOf[c] /\ s[1] \in Int
    BY <1>3, <2>1
  <2> QED
    BY <1>3, <2>1, <2>2
<1>5. ASSUME NEW j \in 1..Len(Tail(s)), NEW k \in 1..Len(Tail(s)), j < k
      PROVE  Tail(s)[j] < Tail(s)[k]
  <2>1. j + 1 < k + 1 /\ j + 1 \in 1..Len(s) /\ k + 1 \in 1..Len(s)
    BY <1>2, <1>5
  <2> QED
    BY <1>2, <1>3, <2>1
<1>6. s[1] \in (Reached(c) + 1)..Taken /\ posted[s[1]] = GroupOf[c]
  BY <1>2, <1>3
<1> QED
  BY <1>2, <1>3, <1>4, <1>5, <1>6 DEF s

LEMMA FlowWrite ==
  ASSUME TypeInv, NEW c \in Clients, Flow(c), WriteMessage(c)
  PROVE  Flow(c)'
<1> DEFINE m == Head(send[c])
<1> DEFINE t == Tail(send[c])
<1>1. /\ m \in (Reached(c) + 1)..Taken /\ posted[m] = GroupOf[c]
      /\ send[c][1] = m /\ Len(send[c]) \in Nat \ {0}
      /\ Len(t) = Len(send[c]) - 1
      /\ \A k \in 1..Len(t) : /\ t[k] = send[c][k + 1] /\ k + 1 \in 1..Len(send[c])
                              /\ t[k] \in (m + 1)..Taken /\ posted[t[k]] = GroupOf[c]
      /\ \A j, k \in 1..Len(t) : j < k => t[j] < t[k]
      /\ c \in joined
  <2>1. send[c] # <<>>
    BY DEF WriteMessage
  <2> QED
    BY <2>1, FlowTaken
<1>2. /\ send'[c] = t /\ got'[c] = Append(got[c], m)
      /\ UNCHANGED <<start, Taken, posted, msg, rooms, joined, closed,
                     targets, evicted, writePump>>
  BY DEF WriteMessage, TypeInv, TypeOK, hubVars, pumpVars, Taken
<1>3. /\ start[c] \in Nat /\ Taken \in Nat /\ got[c] \in Seq(Nat) /\ m \in Nat
      /\ send[c] \in Seq(Nat)
  <2>1. /\ start[c] \in Nat /\ Taken \in Nat /\ got[c] \in Seq(Nat)
        /\ send[c] \in Seq(Nat)
    BY DEF TypeInv, TypeOK, Fifo, Taken
  <2>2. Reached(c) \in Nat
    BY <2>1 DEF Flow, InOrder
  <2> QED
    BY <1>1, <2>1, <2>2
<1>4. /\ Len(got'[c]) = Len(got[c]) + 1 /\ Len(got[c]) \in Nat
      /\ \A k \in 1..Len(got[c]) : got'[c][k] = got[c][k]
      /\ got'[c][Len(got[c]) + 1] = m /\ got'[c] # <<>>
  <2> HIDE DEF m
  <2> DEFINE s == got[c]
  <2>1. s \in Seq(Nat)
    BY <1>3
  <2> HIDE DEF s
  <2>2. /\ Len(Append(s, m)) = Len(s) + 1 /\ Len(s) \in Nat
        /\ \A k \in 1..Len(s) : Append(s, m)[k] = s[k]
        /\ Append(s, m)[Len(s) + 1] = m /\ Append(s, m) # <<>>
    BY <1>3, <2>1, AppendFacts
  <2> QED
    BY <1>2, <2>2 DEF s
<1> HIDE DEF m, t
<1>5. Reached(c)' = m
  BY <1>2, <1>4 DEF Reached
<1>6. Reached(c) \in start[c]..Taken /\ \A k \in 1..Len(got[c]) : got[c][k] <= Reached(c)
  BY DEF Flow, InOrder
<1>7. InOrder(c)'
  <2>1. \A k \in 1..Len(got'[c]) : got'[c][k] <= m
    <3> SUFFICES ASSUME NEW k \in 1..Len(got'[c]) PROVE got'[c][k] <= m
      OBVIOUS
    <3>1. CASE k = Len(got[c]) + 1
      BY <1>3, <1>4, <3>1
    <3>2. CASE k \in 1..Len(got[c])
      <4>1. got[c][k] \in Nat /\ got'[c][k] = got[c][k] /\ got[c][k] <= Reached(c)
        <5> DEFINE s == got[c]
        <5>1. s \in Seq(Nat) /\ k \in 1..Len(s)
          BY <1>3, <3>2
        <5> HIDE DEF s
        <5>2. s[k] \in Nat
          BY ONLY <5>1
        <5> QED
          BY <1>4, <1>6, <3>2, <5>2 DEF s
      <4>2. Reached(c) < m /\ Reached(c) \in Nat
        BY <1>1, <1>3, <1>6
      <4> QED
        BY ONLY <1>3, <4>1, <4>2
    <3> QED
      BY <1>4, <3>1, <3>2
  <2>2. m \in start[c]..Taken
    BY <1>1, <1>3, <1>6
  <2>3. \A k \in 1..Len(send'[c]) : send'[c][k] \in (m + 1)..Taken
                                    /\ posted[send'[c][k]] = GroupOf[c]
    BY <1>1, <1>2
  <2>4. \A j, k \in 1..Len(send'[c]) : j < k => send'[c][j] < send'[c][k]
    BY <1>1, <1>2
  <2> QED
    BY <1>1, <1>2, <1>5, <2>1, <2>2, <2>3, <2>4 DEF InOrder
<1>8. Targeted(c)'
  <2> SUFFICES ASSUME c \in targets
               PROVE  /\ c \in joined /\ msg = Taken /\ msg > m
                      /\ posted[msg] = GroupOf[c]
                      /\ \A k \in 1..Len(t) : t[k] < msg
    BY <1>2, <1>5 DEF Targeted
  <2>1. /\ msg = Taken /\ posted[msg] = GroupOf[c] /\ c \in joined
        /\ \A k \in 1..Len(send[c]) : send[c][k] < msg
    BY DEF Flow, Targeted
  <2>2. 1 \in 1..Len(send[c])
    BY <1>1
  <2>3. m < msg
    BY <1>1, <2>1, <2>2
  <2> QED
    BY <1>1, <1>3, <2>1, <2>3
<1>9. NoLoss(c)'
  <2> SUFFICES ASSUME c \in joined \ evicted, writePump[c] = "running",
                      NEW i \in (start[c] + 1)..Taken, posted[i] = GroupOf[c]
               PROVE  \/ Has(c, i)'
                      \/ i = msg /\ c \in targets
                      \/ c \in closed /\ \A k \in 1..Len(t) : t[k] < i
    BY <1>2 DEF NoLoss
  <2>1. CASE \E k \in 1..Len(got[c]) : got[c][k] = i
    BY <1>4, <2>1 DEF Has
  <2>2. CASE \E k \in 1..Len(send[c]) : send[c][k] = i
    <3>1. PICK k \in 1..Len(send[c]) : send[c][k] = i
      BY <2>2
    <3>2. CASE k = 1
      BY <1>1, <1>4, <3>1, <3>2 DEF Has
    <3>3. CASE k # 1
      <4>1. k - 1 \in 1..Len(t) /\ (k - 1) + 1 = k
        BY <1>1, <3>3
      <4>2. send'[c][k - 1] = i /\ k - 1 \in 1..Len(send'[c])
        BY <1>1, <1>2, <3>1, <4>1
      <4> QED
        BY <4>2 DEF Has
    <3> QED
      BY <3>2, <3>3
  <2>3. CASE c \in closed /\ \A k \in 1..Len(send[c]) : send[c][k] < i
    BY <1>1, <2>3
  <2> QED
    BY <2>1, <2>2, <2>3 DEF Flow, NoLoss, Has
<1>10. InRoom(c)'
  BY <1>2 DEF Flow, InRoom, Room
<1> QED
  BY <1>7, <1>8, <1>9, <1>10 DEF Flow

\* A failed write ends the write pump; what was in the channel keeps its order.
LEMMA FlowFail ==
  ASSUME TypeInv, NEW c \in Clients, Flow(c), WriteFails(c)
  PROVE  Flow(c)'
<1> DEFINE m == Head(send[c])
<1> DEFINE t == Tail(send[c])
<1>1. /\ m \in (Reached(c) + 1)..Taken
      /\ Len(send[c]) \in Nat \ {0} /\ Len(t) = Len(send[c]) - 1
      /\ \A k \in 1..Len(t) : /\ t[k] = send[c][k + 1] /\ k + 1 \in 1..Len(send[c])
                              /\ t[k] \in (m + 1)..Taken /\ posted[t[k]] = GroupOf[c]
      /\ \A j, k \in 1..Len(t) : j < k => t[j] < t[k]
      /\ c \in joined
  <2>1. send[c] # <<>>
    BY DEF WriteFails
  <2> QED
    BY <2>1, FlowTaken
<1>2. /\ send'[c] = t /\ writePump'[c] = "done"
      /\ UNCHANGED <<start, Taken, posted, msg, rooms, joined, closed,
                     targets, evicted, got>>
  BY DEF WriteFails, StopWriting, TypeInv, TypeOK, hubVars, histVars, Taken
<1>3. start[c] \in Nat /\ Taken \in Nat /\ Reached(c) \in Nat
  BY DEF TypeInv, TypeOK, Fifo, Taken, Flow, InOrder
<1> HIDE DEF m, t
<1>4. Reached(c)' = Reached(c)
  BY <1>2 DEF Reached
<1>5. InOrder(c)'
  BY <1>1, <1>2, <1>3, <1>4 DEF Flow, InOrder
<1>6. Targeted(c)'
  BY <1>1, <1>2, <1>4 DEF Flow, Targeted
<1>7. NoLoss(c)' /\ InRoom(c)'
  BY <1>2 DEF Flow, NoLoss, InRoom, Room
<1> QED
  BY <1>5, <1>6, <1>7 DEF Flow

LEMMA FlowDeliver ==
  ASSUME TypeInv, NEW c \in Clients, Flow(c), Deliver(c)
  PROVE  Flow(c)'
<1> DEFINE s == send[c]
<1>1. /\ send'[c] = Append(s, msg) /\ c \notin targets' /\ c \in targets
      /\ c \notin closed
      /\ UNCHANGED <<start, Taken, posted, msg, rooms, joined, closed,
                     evicted, writePump, got>>
  BY DEF Deliver, TypeInv, TypeOK, pumpVars, histVars, Taken
<1>2. /\ start[c] \in Nat /\ Taken \in Nat /\ Reached(c) \in Nat
      /\ s \in Seq(Nat) /\ msg \in Nat
  BY DEF TypeInv, TypeOK, Fifo, Taken, Flow, InOrder
<1>3. /\ c \in joined /\ msg = Taken /\ msg > Reached(c)
      /\ posted[msg] = GroupOf[c] /\ \A k \in 1..Len(s) : s[k] < msg
  BY <1>1 DEF Flow, Targeted
<1>4. /\ \A k \in 1..Len(s) : s[k] \in (Reached(c) + 1)..Taken
                              /\ posted[s[k]] = GroupOf[c]
      /\ \A j, k \in 1..Len(s) : j < k => s[j] < s[k]
  BY DEF Flow, InOrder
<1>5. Reached(c)' = Reached(c)
  BY <1>1 DEF Reached
<1> HIDE DEF s
<1>6. /\ Len(send'[c]) = Len(s) + 1 /\ Len(s) \in Nat
      /\ \A k \in 1..Len(s) : send'[c][k] = s[k]
      /\ send'[c][Len(s) + 1] = msg
  BY <1>1, <1>2, AppendFacts
<1>7. InOrder(c)'
  <2>1. \A k \in 1..Len(send'[c]) : k \in 1..Len(s) \/ k = Len(s) + 1
    BY <1>6
  <2>2. \A k \in 1..Len(send'[c]) : send'[c][k] \in (Reached(c) + 1)..Taken
                                    /\ posted[send'[c][k]] = GroupOf[c]
    BY <1>2, <1>3, <1>4, <1>6, <2>1
  <2>3. \A j, k \in 1..Len(send'[c]) : j < k => send'[c][j] < send'[c][k]
    <3> SUFFICES ASSUME NEW j \in 1..Len(send'[c]), NEW k \in 1..Len(send'[c]), j < k
                 PROVE  send'[c][j] < send'[c][k]
      OBVIOUS
    <3>1. j \in 1..Len(s)
      BY <1>6
    <3> QED
      BY <1>3, <1>4, <1>6, <2>1, <3>1
  <2> QED
    BY <1>1, <1>3, <1>5, <2>2, <2>3 DEF Flow, InOrder
<1>8. Targeted(c)'
  BY <1>1 DEF Targeted
<1>9. NoLoss(c)'
  <2> SUFFICES ASSUME c \in joined \ evicted, writePump[c] = "running",
                      NEW i \in (start[c] + 1)..Taken, posted[i] = GroupOf[c]
               PROVE  Has(c, i)'
    BY <1>1 DEF NoLoss
  <2>1. CASE \E k \in 1..Len(got[c]) : got[c][k] = i
    BY <1>1, <2>1 DEF Has
  <2>2. CASE \E k \in 1..Len(s) : s[k] = i
    <3>1. \A k \in 1..Len(s) : k \in 1..Len(send'[c])
      BY <1>6
    <3> QED
      BY <1>6, <2>2, <3>1 DEF Has
  <2>3. CASE i = msg
    <3>1. Len(s) + 1 \in 1..Len(send'[c])
      BY <1>6
    <3> QED
      BY <1>6, <2>3, <3>1 DEF Has
  <2> QED
    BY <1>1, <2>1, <2>2, <2>3 DEF Flow, NoLoss, Has, s
<1>10. InRoom(c)'
  BY <1>1 DEF Flow, InRoom, Room
<1> QED
  BY <1>7, <1>8, <1>9, <1>10 DEF Flow

LEMMA FlowJoin ==
  ASSUME TypeInv, RegisteredOnce, NEW c \in Clients, Flow(c), RunRegister
  PROVE  Flow(c)'
<1> DEFINE d == Head(register)
<1>1. d \in Clients /\ d = register[1] /\ Len(register) \in Nat \ {0}
  BY TailFacts DEF RunRegister, TypeInv, TypeOK
<1>2. d \notin joined
  <2>1. Waiting(d, 1) /\ 1 \in 1..RegCap
    <3>1. Len(register) <= RegCap /\ RegCap \in Nat
      BY HubAssumption DEF HubAssumption, TypeInv, TypeOK
    <3> QED
      BY ONLY <1>1, <3>1 DEF Waiting
  <2> QED
    BY <1>1, <2>1 DEF RegisteredOnce
<1>3. /\ rooms' = [rooms EXCEPT ![GroupOf[d]] = @ \cup {d}]
      /\ joined' = joined \cup {d} /\ start' = [start EXCEPT ![d] = Taken]
      /\ targets = {}
      /\ UNCHANGED <<Taken, posted, msg, targets, closed, evicted, writePump,
                     got, send>>
  BY DEF RunRegister, RoomsWith, Selecting, chanVars, pumpVars, Taken
<1>4. /\ GroupOf \in [Clients -> Groups] /\ rooms \in [Groups -> SUBSET Clients]
      /\ start \in [Clients -> Nat] /\ Taken \in Nat
  BY HubAssumption DEF HubAssumption, TypeInv, TypeOK, Fifo, Taken
<1> HIDE DEF d
<1>5. InRoom(c)'
  <2>1. \A g \in Groups : rooms'[g] = IF g = GroupOf[d] THEN rooms[g] \cup {d} ELSE rooms[g]
    BY <1>3, <1>4
  <2> QED
    BY <1>1, <1>3, <1>4, <2>1 DEF Flow, InRoom, Room
<1>6. Targeted(c)'
  BY <1>3 DEF Targeted
<1>7. CASE c = d
  <2>1. send[c] = <<>> /\ got[c] = <<>> /\ start'[c] = Taken
    BY <1>1, <1>2, <1>3, <1>4, <1>7 DEF Flow, InOrder
  <2>2. InOrder(c)' /\ NoLoss(c)'
    BY <1>3, <1>4, <1>7, <2>1 DEF InOrder, NoLoss, Reached
  <2> QED
    BY <1>5, <1>6, <2>2 DEF Flow
<1>8. CASE c # d
  <2>1. start'[c] = start[c] /\ (c \in joined' <=> c \in joined)
    BY <1>1, <1>3, <1>4, <1>8
  <2>2. InOrder(c)' /\ NoLoss(c)'
    BY <1>3, <2>1 DEF Flow, InOrder, NoLoss, Has, Reached
  <2> QED
    BY <1>5, <1>6, <2>2 DEF Flow
<1> QED
  BY <1>7, <1>8

LEMMA FlowLeave ==
  ASSUME TypeInv, NEW c \in Clients, Flow(c), RunUnregister
  PROVE  Flow(c)'
<1> DEFINE d == Head(unregister)
<1>1. d \in Clients
  BY TailFacts DEF RunUnregister, TypeInv, TypeOK
<1>2. /\ rooms' = [rooms EXCEPT ![GroupOf[d]] = @ \ {d}]
      /\ closed' = closed \cup {d} /\ targets = {}
      /\ UNCHANGED <<joined, start, Taken, posted, msg, targets, evicted,
                     writePump, got, send>>
  BY DEF RunUnregister, RoomsWithout, Closing, Selecting, pumpVars, histVars, Taken
<1>3. /\ GroupOf \in [Clients -> Groups] /\ rooms \in [Groups -> SUBSET Clients]
      /\ start[c] \in Nat /\ Taken \in Nat
  BY HubAssumption DEF HubAssumption, TypeInv, TypeOK, Fifo, Taken
<1> HIDE DEF d
<1>4. InRoom(c)'
  <2>1. \A g \in Groups : rooms'[g] = IF g = GroupOf[d] THEN rooms[g] \ {d} ELSE rooms[g]
    BY <1>2, <1>3
  <2> QED
    BY <1>1, <1>2, <1>3, <2>1 DEF Flow, InRoom, Room
<1>5. InOrder(c)' /\ Targeted(c)' /\ NoLoss(c)'
  BY <1>2 DEF Flow, InOrder, Targeted, NoLoss, Has, Reached
<1> QED
  BY <1>4, <1>5 DEF Flow

\* The clients the hub sends a broadcast to are those of its group's room.
LEMMA FlowTake ==
  ASSUME TypeInv, NEW c \in Clients, Flow(c), RunBroadcast
  PROVE  Flow(c)'
<1>1. /\ Head(broadcast) = Taken + 1 /\ Head(broadcast) \in 1..Len(posted)
      /\ Taken' = Taken + 1 /\ Taken \in Nat
  <2>1. /\ Head(broadcast) = broadcast[1] /\ Len(broadcast) \in Nat \ {0}
        /\ Len(Tail(broadcast)) = Len(broadcast) - 1
    BY TailFacts DEF RunBroadcast, TypeInv, TypeOK
  <2>2. Len(posted) \in Nat
    BY DEF TypeInv, TypeOK
  <2>3. broadcast[1] = Taken + 1
    BY <2>1 DEF TypeInv, Fifo
  <2> QED
    BY <2>1, <2>2, <2>3 DEF RunBroadcast, TypeInv, Fifo, Taken, histVars
<1>2. /\ msg' = Taken + 1 /\ targets' = rooms[posted[Taken + 1]] /\ targets = {}
      /\ posted[Taken + 1] \in Groups
      /\ UNCHANGED <<joined, start, posted, rooms, closed, evicted,
                     writePump, got, send>>
  BY <1>1 DEF RunBroadcast, Recipients, Selecting, chanVars, pumpVars,
              histVars, TypeInv, TypeOK
<1>3. /\ start[c] \in Nat /\ send[c] \in Seq(Nat) /\ Reached(c) \in Nat
      /\ Reached(c) \in start[c]..Taken
  BY <1>1 DEF TypeInv, TypeOK, Flow, InOrder
<1>4. Reached(c)' = Reached(c)
  BY <1>2 DEF Reached
<1>5. \A k \in 1..Len(send[c]) : send[c][k] \in (Reached(c) + 1)..Taken
  BY DEF Flow, InOrder
<1>6. InOrder(c)'
  <2>1. Reached(c) \in start[c]..(Taken + 1)
    BY <1>1, <1>3
  <2>2. \A k \in 1..Len(send[c]) : send[c][k] \in (Reached(c) + 1)..(Taken + 1)
    BY <1>1, <1>3, <1>5
  <2> QED
    BY <1>1, <1>2, <1>4, <2>1, <2>2 DEF Flow, InOrder
<1>7. Targeted(c)'
  <2> SUFFICES ASSUME c \in targets'
               PROVE  /\ c \in joined /\ Taken + 1 > Reached(c)
                      /\ posted[Taken + 1] = GroupOf[c]
                      /\ \A k \in 1..Len(send[c]) : send[c][k] < Taken + 1
    BY <1>1, <1>2, <1>4 DEF Targeted
  <2>1. posted[Taken + 1] = GroupOf[c] /\ c \in joined
    BY <1>2 DEF Flow, InRoom
  <2> QED
    BY <1>1, <1>3, <1>5, <2>1
<1>8. NoLoss(c)'
  <2> SUFFICES ASSUME c \in joined \ evicted, writePump[c] = "running",
                      NEW i \in (start[c] + 1)..(Taken + 1), posted[i] = GroupOf[c]
               PROVE  \/ Has(c, i)'
                      \/ i = Taken + 1 /\ c \in targets'
                      \/ c \in closed /\ \A k \in 1..Len(send[c]) : send[c][k] < i
    BY <1>1, <1>2 DEF NoLoss
  <2>1. CASE i = Taken + 1
    <3>1. \A k \in 1..Len(send[c]) : send[c][k] < i
      <4> TAKE k \in 1..Len(send[c])
      <4>1. send[c][k] \in (Reached(c) + 1)..Taken
        BY ONLY <1>5
      <4> QED
        BY ONLY <1>1, <1>3, <2>1, <4>1
    <3>2. c \notin closed => c \in targets'
      BY <1>2, <2>1 DEF Flow, InRoom, Room
    <3> QED
      BY ONLY <2>1, <3>1, <3>2
  <2>2. CASE i \in (start[c] + 1)..Taken
    BY <1>2, <2>2 DEF Flow, NoLoss, Has
  <2> QED
    BY <1>1, <1>3, <2>1, <2>2
<1>9. InRoom(c)'
  BY <1>2 DEF Flow, InRoom, Room
<1> QED
  BY <1>6, <1>7, <1>8, <1>9 DEF Flow

-----------------------------------------------------------------------------
LEMMA FlowInvInit == Init => FlowInv
<1> SUFFICES ASSUME Init PROVE FlowInv
  OBVIOUS
<1>1. RegisteredOnce
  BY DEF Init, RegisteredOnce, Waiting
<1>2. ASSUME NEW c \in Clients PROVE Flow(c)
  <2>1. /\ send[c] = <<>> /\ got[c] = <<>> /\ start[c] = 0 /\ Taken = 0
        /\ targets = {} /\ joined = {} /\ \A g \in Groups : rooms[g] = {}
    BY <1>2 DEF Init, Taken
  <2> QED
    BY <2>1 DEF Flow, InOrder, Targeted, NoLoss, InRoom, Reached
<1> QED
  BY <1>1, <1>2 DEF FlowInv

LEMMA FlowInvNext == TypeInv /\ FlowInv /\ [Next]_vars => FlowInv'
<1> SUFFICES ASSUME TypeInv, FlowInv, [Next]_vars PROVE FlowInv'
  OBVIOUS
<1>1. RegisteredOnce /\ RegisteredOnce'
  BY RegisteredOnceNext DEF FlowInv
<1> SUFFICES ASSUME NEW c \in Clients PROVE Flow(c)'
  BY <1>1 DEF FlowInv
<1>2. Flow(c)
  BY DEF FlowInv
<1>3. ASSUME NEW d \in Clients,
             Upgrade(d) \/ ReadFails(d) \/ Unregister(d) \/ Close(d)
             \/ WriteClose(d) \/ PingFails(d)
      PROVE  Flow(c)'
  <2>1. UNCHANGED <<send, got, start, Taken, msg, rooms, joined, closed, targets,
                    evicted, posted>>
    BY <1>3 DEF Upgrade, ReadFails, Unregister, Close, WriteClose, PingFails,
                StopWriting, hubVars, chanVars, histVars, Taken
  <2>2. writePump'[c] = "running" => writePump[c] = "running"
    BY <1>3 DEF Upgrade, ReadFails, Unregister, Close, WriteClose, PingFails,
                StopWriting, TypeInv, TypeOK
  <2> QED
    BY <1>2, <2>1, <2>2, FlowFrame
<1>4. ASSUME NEW d \in Clients, Register(d) PROVE Flow(c)'
  <2>1. UNCHANGED <<send, got, start, Taken, msg, rooms, joined, closed, targets,
                    evicted, posted>>
    BY <1>4 DEF Register, chanVars, histVars, Taken
  <2>2. d \notin joined
    BY <1>1, <1>4 DEF Register, RegisteredOnce
  <2>3. writePump'[c] = "running" => writePump[c] = "running" \/ c \notin joined
    BY <1>4, <2>2 DEF Register, TypeInv, TypeOK
  <2> QED
    BY <1>2, <2>1, <2>3, FlowFrame
<1>5. ASSUME NEW d \in Clients, WriteMessage(d) \/ WriteFails(d) \/ Deliver(d)
      PROVE  Flow(c)'
  <2>1. CASE c = d
    BY <1>2, <1>5, <2>1, FlowWrite, FlowFail, FlowDeliver
  <2>2. CASE c # d
    <3>1. UNCHANGED <<start, Taken, msg, rooms, joined, closed, evicted, posted>>
      BY <1>5 DEF WriteMessage, WriteFails, Deliver, StopWriting, hubVars,
                  pumpVars, histVars, Taken
    <3>2. UNCHANGED <<send[c], got[c], writePump[c]>> /\ (c \in targets') = (c \in targets)
      <4>1. CASE WriteMessage(d)
        BY <2>2, <4>1 DEF WriteMessage, hubVars, pumpVars, TypeInv, TypeOK
      <4>2. CASE WriteFails(d)
        BY <2>2, <4>2 DEF WriteFails, StopWriting, hubVars, histVars, TypeInv, TypeOK
      <4>3. CASE Deliver(d)
        BY <2>2, <4>3 DEF Deliver, pumpVars, histVars, TypeInv, TypeOK
      <4> QED
        BY <1>5, <4>1, <4>2, <4>3
    <3> QED
      BY <1>2, <3>1, <3>2, FlowFrame
  <2> QED
    BY <2>1, <2>2
<1>6. ASSUME NEW d \in Clients, Evict(d) PROVE Flow(c)'
  <2>1. CASE c = d
    <3>1. /\ UNCHANGED <<send, got, start, Taken, msg, rooms, joined, closed, posted>>
          /\ c \in evicted' /\ targets' \subseteq targets
      BY <1>6, <2>1 DEF Evict, chanVars, pumpVars, Taken
    <3>2. InOrder(c)' /\ Targeted(c)' /\ NoLoss(c)' /\ InRoom(c)'
      BY <1>2, <3>1 DEF Flow, InOrder, Targeted, NoLoss, InRoom, Room, Reached
    <3> QED
      BY <3>2 DEF Flow
  <2>2. CASE c # d
    <3>1. /\ UNCHANGED <<send, got, start, Taken, msg, rooms, joined, closed, posted,
                         writePump>>
          /\ evicted \subseteq evicted' /\ (c \in targets') = (c \in targets)
      BY <1>6, <2>2 DEF Evict, chanVars, pumpVars, Taken
    <3> QED
      BY <1>2, <3>1, FlowFrame
  <2> QED
    BY <2>1, <2>2
<1>7. CASE RunDone \/ \E d \in Clients : SendOnClosed(d)
  <2>1. UNCHANGED <<send, got, start, Taken, msg, rooms, joined, closed, targets,
                    evicted, posted, writePump>>
    BY <1>7 DEF RunDone, SendOnClosed, chanVars, pumpVars, histVars, Taken
  <2> QED
    BY <1>2, <2>1, FlowFrame
<1>8. ASSUME NEW g \in Groups, Broadcast(g) PROVE Flow(c)'
  <2>1. /\ UNCHANGED <<send, got, start, msg, rooms, joined, closed, targets,
                       evicted, writePump>>
        /\ posted' = Append(posted, g) /\ broadcast' = Append(broadcast, Len(posted) + 1)
    BY <1>8 DEF Broadcast, chanVars, pumpVars
  <2>2. posted \in Seq(Groups) /\ broadcast \in Seq(Nat)
        /\ Len(broadcast) <= Len(posted)
    BY DEF TypeInv, TypeOK, Fifo
  <2>3. /\ Len(posted') = Len(posted) + 1 /\ Len(broadcast') = Len(broadcast) + 1
        /\ \A i \in 1..Len(posted) : posted'[i] = posted[i]
        /\ Len(posted) \in Nat /\ Len(broadcast) \in Nat
    BY <2>1, <2>2, AppendFacts
  <2>4. Taken' = Taken /\ \A i \in 1..Taken : posted'[i] = posted[i]
    BY <2>2, <2>3 DEF Taken
  <2> QED
    BY <1>2, <2>1, <2>4, FlowFrame
<1>9. CASE RunRegister \/ RunUnregister \/ RunBroadcast
  BY <1>1, <1>2, <1>9, FlowJoin, FlowLeave, FlowTake
<1>10. CASE UNCHANGED vars
  <2>1. UNCHANGED <<send, got, start, Taken, msg, rooms, joined, closed, targets,
                    evicted, posted, writePump>>
    BY <1>10 DEF vars, hubVars, chanVars, pumpVars, histVars, Taken
  <2> QED
    BY <1>2, <2>1, FlowFrame
<1> QED
  BY <1>3, <1>4, <1>5, <1>6, <1>7, <1>8, <1>9, <1>10 DEF Next

LEMMA FlowCorrect == Spec => [](TypeInv /\ FlowInv)
<1>1. Init => TypeInv /\ FlowInv
  BY TypeInvInit, FlowInvInit
<1>2. TypeInv /\ FlowInv /\ [Next]_vars => (TypeInv /\ FlowInv)'
  BY TypeInvNext, FlowInvNext
<1> QED
  BY <1>1, <1>2, PTL DEF Spec

\* A client that has joined, is not unregistered, whose write pump runs and
\* that was never found full has received, or has queued, every broadcast of
\* its group that the hub took since it joined.
THEOREM HubNothingLost == Spec => []NothingLostInRoom
<1>1. TypeInv /\ FlowInv => NothingLostInRoom
  <2> SUFFICES ASSUME TypeInv, FlowInv, NEW c \in Clients,
                      c \in joined \ (closed \cup evicted \cup targets),
                      writePump[c] = "running",
                      NEW i \in (start[c] + 1)..Taken, posted[i] = GroupOf[c]
               PROVE  i \in ToSet(got[c] \o send[c])
    BY DEF NothingLostInRoom
  <2>1. Has(c, i)
    BY DEF FlowInv, Flow, NoLoss
  <2> DEFINE p == got[c]
  <2> DEFINE q == send[c]
  <2>2. p \in Seq(Nat) /\ q \in Seq(Nat)
    BY DEF TypeInv, TypeOK
  <2>3. (\E k \in 1..Len(p) : p[k] = i) \/ (\E k \in 1..Len(q) : q[k] = i)
    BY <2>1 DEF Has
  <2> HIDE DEF p, q
  <2>4. /\ Len(p \o q) = Len(p) + Len(q) /\ Len(p) \in Nat /\ Len(q) \in Nat
        /\ \A k \in 1..Len(p) : (p \o q)[k] = p[k]
        /\ \A k \in 1..Len(q) : (p \o q)[Len(p) + k] = q[k]
    BY <2>2
  <2>5. \E k \in 1..Len(p \o q) : (p \o q)[k] = i
    <3>1. CASE \E k \in 1..Len(p) : p[k] = i
      <4>1. \A k \in 1..Len(p) : k \in 1..Len(p \o q)
        BY <2>4
      <4> QED
        BY <2>4, <3>1, <4>1
    <3>2. CASE \E k \in 1..Len(q) : q[k] = i
      <4>1. \A k \in 1..Len(q) : Len(p) + k \in 1..Len(p \o q)
        BY <2>4
      <4> QED
        BY <2>4, <3>2, <4>1
    <3> QED
      BY <2>3, <3>1, <3>2
  <2>6. ToSet(p \o q) = {(p \o q)[k] : k \in DOMAIN (p \o q)}
    BY DEF ToSet
  <2>7. DOMAIN (p \o q) = 1..Len(p \o q)
    BY <2>2
  <2> QED
    BY <2>5, <2>6, <2>7 DEF p, q
<1> QED
  BY FlowCorrect, <1>1, PTL

-----------------------------------------------------------------------------
(* The refinement *)

LEMMA FeedInit == Init => FeedOf!Init
  BY DEF Init, FeedOf!Init

LEMMA FeedNext ==
  TypeInv /\ FlowInv /\ [Next]_vars => [FeedOf!Next]_(FeedOf!vars)
<1> SUFFICES ASSUME TypeInv, FlowInv, [Next]_vars
             PROVE  [FeedOf!Next]_(FeedOf!vars)
  OBVIOUS
<1>1. ASSUME UNCHANGED <<posted, joined, start, got, evicted>>
      PROVE  UNCHANGED FeedOf!vars
  BY <1>1 DEF FeedOf!vars
<1>2. ASSUME NEW c \in Clients,
             \/ Upgrade(c) \/ Register(c) \/ ReadFails(c) \/ Unregister(c) \/ Close(c)
             \/ WriteFails(c) \/ WriteClose(c) \/ PingFails(c) \/ Deliver(c)
             \/ SendOnClosed(c)
      PROVE  UNCHANGED FeedOf!vars
  BY <1>1, <1>2 DEF Upgrade, Register, ReadFails, Unregister, Close, WriteFails,
                    WriteClose, PingFails, Deliver, SendOnClosed, histVars
<1>3. ASSUME NEW c \in Clients, WriteMessage(c) PROVE FeedOf!Receive(c)
  <2> DEFINE m == Head(send[c])
  <2>1. /\ m \in (Reached(c) + 1)..Taken /\ posted[m] = GroupOf[c]
        /\ Len(send[c]) \in Nat \ {0} /\ send[c][1] = m /\ c \in joined
    <3>1. send[c] # <<>> /\ Flow(c)
      BY <1>3 DEF WriteMessage, FlowInv
    <3> QED
      BY <3>1, FlowTaken
  <2>2. /\ got' = [got EXCEPT ![c] = Append(@, m)]
        /\ UNCHANGED <<posted, joined, start, evicted>> /\ writePump[c] = "running"
    BY <1>3 DEF WriteMessage
  <2>3. FeedOf!Position(c) = Reached(c)
    BY DEF FeedOf!Position, Reached
  <2>4. /\ start[c] \in Nat /\ Taken \in Nat /\ Len(posted) \in Nat /\ Taken <= Len(posted)
        /\ Reached(c) \in start[c]..Taken
        /\ Len(broadcast) \in Nat /\ got[c] \in Seq(Nat)
    <3>1. /\ Len(posted) \in Nat /\ Len(broadcast) \in Nat /\ start[c] \in Nat
          /\ got[c] \in Seq(Nat)
      BY DEF TypeInv, TypeOK
    <3> QED
      BY <3>1 DEF TypeInv, Fifo, Taken, FlowInv, Flow, InOrder
  <2> HIDE DEF m
  <2>5. c \in evicted \/ FeedOf!IsNext(c, m)
    <3> SUFFICES ASSUME c \notin evicted, NEW j \in (Reached(c) + 1)..(m - 1),
                        posted[j] = GroupOf[c]
                 PROVE  FALSE
      BY <2>3 DEF FeedOf!IsNext
    <3>1. j \in (start[c] + 1)..Taken /\ j < m /\ j > Reached(c)
      BY <2>1, <2>4
    <3>2. /\ \A k \in 1..Len(got[c]) : got[c][k] <= Reached(c)
          /\ \A k, l \in 1..Len(send[c]) : k < l => send[c][k] < send[c][l]
          /\ \A k \in 1..Len(send[c]) : send[c][k] \in (Reached(c) + 1)..Taken
          /\ c \in targets => \A k \in 1..Len(send[c]) : send[c][k] < msg
      BY DEF FlowInv, Flow, InOrder, Targeted
    <3>3. \/ Has(c, j)
          \/ j = msg /\ c \in targets
          \/ \A k \in 1..Len(send[c]) : send[c][k] < j
      BY <2>1, <2>2, <3>1 DEF FlowInv, Flow, NoLoss
    <3>4. 1 \in 1..Len(send[c]) /\ m \in Int /\ j \in Int
      BY <2>1, <2>4, <3>1
    <3>5. ASSUME NEW k \in 1..Len(got[c]), got[c][k] = j PROVE FALSE
      BY <2>4, <3>1, <3>2, <3>5
    <3>6. ASSUME NEW k \in 1..Len(send[c]), send[c][k] = j PROVE FALSE
      <4>1. k = 1 \/ 1 < k
        OBVIOUS
      <4> QED
        BY <2>1, <3>1, <3>2, <3>4, <3>6, <4>1
    <3>7. CASE j = msg /\ c \in targets
      BY <2>1, <3>1, <3>2, <3>4, <3>7
    <3>8. CASE \A k \in 1..Len(send[c]) : send[c][k] < j
      BY <2>1, <3>1, <3>4, <3>8
    <3> QED
      BY <3>3, <3>5, <3>6, <3>7, <3>8 DEF Has
  <2>6. m \in (FeedOf!Position(c) + 1)..Len(posted)
    BY <2>1, <2>3, <2>4
  <2> QED
    BY <2>1, <2>2, <2>5, <2>6 DEF FeedOf!Receive
<1>4. ASSUME NEW c \in Clients, Evict(c) PROVE FeedOf!FallBehind(c)
  <2>1. c \in joined
    BY <1>4 DEF Evict, FlowInv, Flow, Targeted
  <2> QED
    BY <1>4, <2>1 DEF Evict, FeedOf!FallBehind
<1>5. ASSUME NEW g \in Groups, Broadcast(g) PROVE FeedOf!Publish(g)
  BY <1>5 DEF Broadcast, FeedOf!Publish
<1>6. ASSUME RunRegister PROVE \E c \in Clients : FeedOf!Join(c)
  <2> DEFINE c == Head(register)
  <2>1. c \in Clients /\ c = register[1] /\ Len(register) \in Nat \ {0}
    BY <1>6, TailFacts DEF RunRegister, TypeInv, TypeOK
  <2>2. c \notin joined
    <3>1. Waiting(c, 1) /\ 1 \in 1..RegCap
      BY <2>1, HubAssumption DEF HubAssumption, Waiting, TypeInv, TypeOK
    <3> QED
      BY <2>1, <3>1 DEF FlowInv, RegisteredOnce
  <2>3. Taken \in 0..Len(posted)
    BY DEF Taken, TypeInv, TypeOK, Fifo
  <2>4. /\ joined' = joined \cup {c} /\ start' = [start EXCEPT ![c] = Taken]
        /\ UNCHANGED <<posted, got, evicted>>
    BY <1>6 DEF RunRegister
  <2> HIDE DEF c
  <2> QED
    BY <2>1, <2>2, <2>3, <2>4 DEF FeedOf!Join
<1>7. CASE RunUnregister \/ RunBroadcast \/ RunDone \/ UNCHANGED vars
  BY <1>1, <1>7 DEF RunUnregister, RunBroadcast, RunDone, vars, histVars
<1> QED
  BY <1>2, <1>3, <1>4, <1>5, <1>6, <1>7 DEF Next, FeedOf!Next

\* The hub implements the feed: a client receives the broadcasts of its own
\* group only, each once and in order, and without a gap unless the hub found
\* its buffer full.
THEOREM HubImplementsFeed == Spec => FeedSpec
<1>1. Init => FeedOf!Init
  BY FeedInit
<1>2. TypeInv /\ FlowInv /\ [Next]_vars => [FeedOf!Next]_(FeedOf!vars)
  BY FeedNext
<1> QED
  BY FlowCorrect, <1>1, <1>2, PTL DEF Spec, FeedSpec, FeedOf!Spec
=============================================================================
