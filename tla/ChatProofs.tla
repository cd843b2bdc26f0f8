----------------------------- MODULE ChatProofs ------------------------------
(* What TLAPS proves of Chat, for any number of connections, users and     *)
(* messages, any length of a page, with and without failures.              *)
EXTENDS Chat, FiniteSetTheorems, TLAPS

Steps    == {"start", "save", "broadcast", "done", "failed", "dropped"}
Contexts == {"none", "live", "cut", "cancelled"}
Message  == [from : Clients, step : Steps, ctx : Contexts]

\* What a connection or a request for history has come to, and by whose right.
Admitted ==
  \A c \in Clients :
    /\ conn[c] # "none" => UserOf[c] \in ever
    /\ fetch[c].step # "none" => UserOf[c] \in ever
    /\ fetch[c].step # "done" => fetch[c].page = {} /\ ~fetch[c].after
    /\ fetch[c].after => c \in joined
    /\ c \in joined => conn[c] = "open"

\* A context that is cancelled was cancelled by its own handler's return.
Returned ==
  \A m \in DOMAIN messages :
    /\ conn[messages[m].from] = "open"
    /\ messages[m].step = "save" => messages[m].ctx # "none"
    /\ messages[m].ctx \in {"cut", "cancelled"}
         => request[messages[m].from] \in {"cancelled", "lent"}

\* A goroutine that is about to broadcast has saved its message.
SavedFirst ==
  alive => \A m \in DOMAIN messages : messages[m].step = "broadcast" => m \in stored

Inv == /\ TypeOK /\ Admitted /\ Returned /\ SavedFirst
       /\ BroadcastsAreStored /\ NoGap /\ DroppedNeedsReturn

-----------------------------------------------------------------------------
(* Sequences                                                               *)

\* A function on the domain of a sequence is a sequence of its length.
LEMMA SameLength ==
  ASSUME NEW S, NEW T, NEW s \in Seq(S), NEW f \in [DOMAIN s -> T]
  PROVE  f \in Seq(T) /\ Len(f) = Len(s) /\ DOMAIN f = DOMAIN s
<1>1. Len(s) \in Nat /\ DOMAIN s = 1..Len(s)
  OBVIOUS
<1>2. f \in [1..Len(s) -> T]
  BY <1>1
<1> QED
  BY <1>1, <1>2

LEMMA AppendFacts ==
  ASSUME NEW S, NEW s \in Seq(S), NEW e \in S
  PROVE  /\ Append(s, e) \in Seq(S)
         /\ Len(Append(s, e)) = Len(s) + 1
         /\ DOMAIN Append(s, e) = DOMAIN s \cup {Len(s) + 1}
         /\ \A i \in DOMAIN s : Append(s, e)[i] = s[i]
         /\ Append(s, e)[Len(s) + 1] = e
  OBVIOUS

LEMMA MessageTypes ==
  ASSUME TypeOK
  PROVE  /\ messages \in Seq(Message) /\ DOMAIN messages \subseteq Nat
         /\ \A m \in DOMAIN messages : messages[m] \in Message
<1>1. messages \in Seq(Message)
  BY DEF TypeOK, Message, Steps, Contexts
<1> QED
  BY <1>1

\* The connection, and only that, opens or gets another context.
LEMMA ConnStep ==
  ASSUME Inv, NEW c \in Clients,
         UNCHANGED <<memberVars, messages, stored, sent, fetch, feedVars>>,
         \/ Admit(c)
         \/ Connect(c)
         \/ Lend(c)
  PROVE  Inv'
<1>1. TypeOK'
  BY DEF Inv, TypeOK, Admit, Connect, Lend, memberVars, feedVars
<1>2. /\ \A d \in Clients : conn[d] = "open" => conn'[d] = "open"
      /\ \A d \in Clients : conn'[d] # "none" => UserOf[d] \in ever
      /\ \A d \in Clients : conn[d] = "open" /\ request[d] \in {"cancelled", "lent"}
                              => request'[d] \in {"cancelled", "lent"}
  BY DEF Inv, TypeOK, Admitted, Admit, Connect, Lend, IsMember
<1>3. Admitted' /\ Returned'
  <2>1. \A m \in DOMAIN messages : messages[m].from \in Clients
    BY MessageTypes DEF Inv, Message
  <2> QED
    BY <1>2, <2>1 DEF Inv, Admitted, Returned, memberVars, feedVars
<1>4. SavedFirst' /\ BroadcastsAreStored' /\ NoGap'
  BY DEF Inv, SavedFirst, BroadcastsAreStored, NoGap, memberVars, feedVars
<1>5. DroppedNeedsReturn'
  <2>1. \A m \in DOMAIN messages : /\ messages[m].from \in Clients
                                   /\ conn[messages[m].from] = "open"
    BY MessageTypes DEF Inv, Message, Returned
  <2> QED
    BY <1>2, <2>1 DEF Inv, DroppedNeedsReturn, memberVars
<1> QED
  BY <1>1, <1>3, <1>4, <1>5 DEF Inv

\* A step of one goroutine, which leaves the connections alone.
LEMMA MessageStep ==
  ASSUME Inv, NEW m \in DOMAIN messages, NEW r \in Message,
         UNCHANGED <<memberVars, conn, request, fetch, feedVars, sent>>,
         messages' = [messages EXCEPT ![m] = r],
         r.from = messages[m].from,
         r.step = "save" => r.ctx # "none",
         r.ctx \in {"cut", "cancelled"} => request[r.from] \in {"cancelled", "lent"},
         stored \subseteq stored', stored' \subseteq stored \cup {m},
         r.step = "broadcast" => m \in stored',
         alive /\ r.step = "dropped" => request[r.from] \in {"cancelled", "lent"}
  PROVE  Inv'
<1>1. /\ messages \in Seq(Message) /\ messages' \in [DOMAIN messages -> Message]
      /\ \A k \in DOMAIN messages : messages[k] \in Message
  BY MessageTypes DEF Inv
<1>2. messages' \in Seq(Message) /\ Len(messages') = Len(messages)
      /\ DOMAIN messages' = DOMAIN messages
  BY <1>1, SameLength
<1>3. \A k \in DOMAIN messages : messages'[k] = IF k = m THEN r ELSE messages[k]
  BY <1>1
<1>4. TypeOK'
  BY <1>2 DEF Inv, TypeOK, Message, Steps, Contexts, memberVars, feedVars
<1>5. Admitted' /\ Returned'
  BY <1>2, <1>3 DEF Inv, Admitted, Returned, memberVars, feedVars
<1>6. SavedFirst' /\ DroppedNeedsReturn'
  BY <1>2, <1>3 DEF Inv, SavedFirst, DroppedNeedsReturn, memberVars
<1>7. BroadcastsAreStored' /\ NoGap'
  BY DEF Inv, BroadcastsAreStored, NoGap, memberVars, feedVars
<1> QED
  BY <1>4, <1>5, <1>6, <1>7 DEF Inv

LEMMA GoroutineStep ==
  ASSUME Inv, NEW m \in DOMAIN messages, GetContext(m) \/ Save(m) \/ SaveFails(m)
  PROVE  Inv'
<1>1. /\ messages[m] \in Message /\ messages[m].from \in Clients
      /\ conn[messages[m].from] = "open"
  BY MessageTypes DEF Inv, Message, Returned
<1>2. CASE GetContext(m)
  <2> DEFINE r == [messages[m] EXCEPT
        !.step = "save",
        !.ctx = IF request[messages[m].from] = "cancelled" THEN "cancelled" ELSE "live"]
  <2>1. /\ r \in Message /\ r.from = messages[m].from /\ r.step = "save"
        /\ r.ctx \in {"live", "cancelled"}
        /\ r.ctx = "cancelled" => request[r.from] = "cancelled"
    BY <1>1 DEF Message, Steps, Contexts
  <2>2. /\ messages' = [messages EXCEPT ![m] = r]
        /\ UNCHANGED <<memberVars, conn, request, fetch, feedVars, sent, stored>>
    BY <1>1, <1>2 DEF GetContext, Message
  <2> HIDE DEF r
  <2> QED
    BY <2>1, <2>2, MessageStep
<1>3. CASE Save(m)
  <2> DEFINE r == [messages[m] EXCEPT !.step = "broadcast"]
  <2>1. /\ r \in Message /\ r.from = messages[m].from /\ r.step = "broadcast"
        /\ r.ctx = "live"
    BY <1>1, <1>3 DEF Save, Message, Steps
  <2>2. /\ messages' = [messages EXCEPT ![m] = r] /\ stored' = stored \cup {m}
        /\ UNCHANGED <<memberVars, conn, request, fetch, feedVars, sent>>
    BY <1>3 DEF Save
  <2> HIDE DEF r
  <2> QED
    BY <2>1, <2>2, MessageStep
<1>4. CASE SaveFails(m)
  <2> DEFINE r == [messages[m] EXCEPT
        !.step = IF messages[m].ctx = "live" /\ alive THEN "failed" ELSE "dropped"]
  <2>1. /\ r \in Message /\ r.from = messages[m].from
        /\ r.step \in {"failed", "dropped"} /\ r.ctx = messages[m].ctx
        /\ r.step = "dropped" => messages[m].ctx # "live" \/ ~alive
    BY <1>1 DEF Message, Steps
  <2>2. /\ messages' = [messages EXCEPT ![m] = r]
        /\ stored \subseteq stored' /\ stored' \subseteq stored \cup {m}
        /\ UNCHANGED <<memberVars, conn, request, fetch, feedVars, sent>>
    BY <1>4 DEF SaveFails
  <2>3. /\ messages[m].ctx \in {"cut", "cancelled"}
             => request[messages[m].from] \in {"cancelled", "lent"}
        /\ messages[m].ctx \in {"live", "cut", "cancelled"}
    BY <1>1, <1>4 DEF SaveFails, Inv, Returned, Message, Contexts
  <2> HIDE DEF r
  <2>4. alive /\ r.step = "dropped" => request[r.from] \in {"cancelled", "lent"}
    BY <2>1, <2>3
  <2> QED
    BY <2>1, <2>2, <2>3, <2>4, MessageStep
<1> QED
  BY <1>2, <1>3, <1>4

\* The hub has as many broadcasts as messages were handed to it.
LEMMA LogLength ==
  ASSUME TypeOK
  PROVE  Len([i \in DOMAIN sent |-> "group"]) = Len(sent) /\ Len(sent) \in Nat
<1>1. sent \in Seq(DOMAIN messages)
  BY DEF TypeOK
<1> DEFINE f == [i \in DOMAIN sent |-> "group"]
<1>2. f \in [DOMAIN sent -> {"group"}]
  OBVIOUS
<1> HIDE DEF f
<1>3. Len(f) = Len(sent)
  BY <1>1, <1>2, SameLength
<1> QED
  BY <1>1, <1>3 DEF f

LEMMA BroadcastStep ==
  ASSUME Inv, NEW m \in DOMAIN messages, BroadcastMessage(m)
  PROVE  Inv'
<1>1. /\ messages \in Seq(Message) /\ messages[m] \in Message
      /\ DOMAIN messages \subseteq Nat
  BY MessageTypes DEF Inv
<1> DEFINE r == [messages[m] EXCEPT !.step = "done"]
<1>2. r \in Message /\ r.from = messages[m].from /\ r.step = "done" /\ r.ctx = messages[m].ctx
  BY <1>1 DEF Message, Steps
<1>3. /\ messages' = [messages EXCEPT ![m] = r] /\ messages[m].step = "broadcast"
      /\ sent' = Append(sent, m)
      /\ UNCHANGED <<memberVars, conn, request, stored, fetch, feedVars>>
  BY DEF BroadcastMessage, Hub!Publish, feedVars
<1> HIDE DEF r
<1>4. messages' \in [DOMAIN messages -> Message]
  BY <1>1, <1>2, <1>3, MessageTypes DEF Inv
<1>5. messages' \in Seq(Message) /\ Len(messages') = Len(messages)
      /\ DOMAIN messages' = DOMAIN messages
  BY <1>1, <1>4, SameLength
<1>6. \A k \in DOMAIN messages : messages'[k] = IF k = m THEN r ELSE messages[k]
  BY <1>3
<1>7. /\ sent' \in Seq(DOMAIN messages) /\ Len(sent') = Len(sent) + 1 /\ Len(sent) \in Nat
      /\ DOMAIN sent' = DOMAIN sent \cup {Len(sent) + 1}
      /\ \A i \in DOMAIN sent : sent'[i] = sent[i]
      /\ sent'[Len(sent) + 1] = m /\ DOMAIN sent = 1..Len(sent)
  <2>1. sent \in Seq(DOMAIN messages)
    BY DEF Inv, TypeOK
  <2> QED
    BY <1>3, <2>1, AppendFacts
<1>8. TypeOK'
  BY <1>3, <1>5, <1>7 DEF Inv, TypeOK, Message, Steps, Contexts, memberVars, feedVars
<1>9. Admitted' /\ Returned'
  BY <1>2, <1>3, <1>5, <1>6 DEF Inv, Admitted, Returned, memberVars, feedVars
<1>10. SavedFirst' /\ DroppedNeedsReturn'
  BY <1>2, <1>3, <1>5, <1>6 DEF Inv, SavedFirst, DroppedNeedsReturn, memberVars
<1>11. BroadcastsAreStored'
  BY <1>3, <1>7 DEF Inv, SavedFirst, BroadcastsAreStored, memberVars
<1>12. NoGap'
  <2>1. \A c \in Clients : start[c] \in 0..Len(sent)
    BY DEF Inv, TypeOK
  <2>2. \A c \in Clients : \A i \in 1..start[c] : sent'[i] = sent[i]
    BY <1>7, <2>1
  <2> QED
    BY <1>3, <2>2 DEF Inv, NoGap, memberVars, feedVars
<1> QED
  BY <1>8, <1>9, <1>10, <1>11, <1>12 DEF Inv

LEMMA CancelStep ==
  ASSUME Inv, NEW c \in Clients, Cancel(c)
  PROVE  Inv'
<1>1. /\ messages \in Seq(Message)
      /\ \A m \in DOMAIN messages : messages[m] \in Message
  BY MessageTypes DEF Inv
<1>2. /\ messages' = Cut(c) /\ request' = [request EXCEPT ![c] = "cancelled"]
      /\ UNCHANGED <<memberVars, conn, stored, sent, fetch, feedVars>>
  BY DEF Cancel
<1>3. \A m \in DOMAIN messages :
        /\ Cut(c)[m] \in Message
        /\ Cut(c)[m].from = messages[m].from /\ Cut(c)[m].step = messages[m].step
        /\ Cut(c)[m].ctx = messages[m].ctx \/ (Cut(c)[m].ctx = "cut" /\ messages[m].from = c)
  BY <1>1 DEF Cut, Message, Contexts
<1>4. Cut(c) \in [DOMAIN messages -> Message]
  BY <1>3 DEF Cut
<1>5. messages' \in Seq(Message) /\ Len(messages') = Len(messages)
      /\ DOMAIN messages' = DOMAIN messages
  BY <1>1, <1>2, <1>4, SameLength
<1>6. \A d \in Clients : request'[d] = IF d = c THEN "cancelled" ELSE request[d]
  BY <1>2 DEF Inv, TypeOK
<1>7. TypeOK'
  BY <1>2, <1>5 DEF Inv, TypeOK, Message, Steps, Contexts, memberVars, feedVars
<1>8. Admitted' /\ Returned'
  <2>1. \A m \in DOMAIN messages : messages[m].from \in Clients
    BY <1>1 DEF Message
  <2> QED
    BY <1>2, <1>3, <1>5, <1>6, <2>1 DEF Inv, Admitted, Returned, memberVars, feedVars
<1>9. SavedFirst' /\ DroppedNeedsReturn'
  <2>1. \A m \in DOMAIN messages : messages[m].from \in Clients
    BY <1>1 DEF Message
  <2> QED
    BY <1>2, <1>3, <1>5, <1>6, <2>1 DEF Inv, SavedFirst, DroppedNeedsReturn, memberVars
<1>10. BroadcastsAreStored' /\ NoGap'
  BY <1>2 DEF Inv, BroadcastsAreStored, NoGap, memberVars, feedVars
<1> QED
  BY <1>7, <1>8, <1>9, <1>10 DEF Inv

LEMMA ReadStep ==
  ASSUME Inv, NEW c \in Clients, Read(c)
  PROVE  Inv'
<1> DEFINE r == [from |-> c, step |-> "start", ctx |-> "none"]
<1>1. /\ messages \in Seq(Message) /\ r \in Message /\ Len(messages) \in Nat
      /\ MaxMessages \in Nat
  BY MessageTypes, ChatAssumption DEF Inv, Message, Steps, Contexts, ChatAssumption
<1>2. /\ messages' = Append(messages, r) /\ Len(messages) < MaxMessages /\ conn[c] = "open"
      /\ UNCHANGED <<memberVars, conn, request, stored, sent, fetch, feedVars>>
  BY DEF Read
<1>3. r.from = c /\ r.step = "start" /\ r.ctx = "none"
  OBVIOUS
<1> HIDE DEF r
<1>4. /\ messages' \in Seq(Message) /\ Len(messages') = Len(messages) + 1
      /\ DOMAIN messages' = DOMAIN messages \cup {Len(messages) + 1}
      /\ \A m \in DOMAIN messages : messages'[m] = messages[m]
      /\ messages'[Len(messages) + 1] = r
  BY <1>1, <1>2, AppendFacts
<1>5. TypeOK'
  <2>1. Len(messages') <= MaxMessages
    BY <1>1, <1>2, <1>4
  <2>2. sent \in Seq(DOMAIN messages')
    <3>1. sent \in Seq(DOMAIN messages) /\ DOMAIN messages \subseteq DOMAIN messages'
      BY <1>4 DEF Inv, TypeOK
    <3> QED
      BY <3>1
  <2>3. \A d \in Clients : fetch[d] \in [step : {"none", "checked", "done"}, after : BOOLEAN,
                                         page : SUBSET DOMAIN messages']
    <3>1. \A d \in Clients : fetch[d] \in [step : {"none", "checked", "done"}, after : BOOLEAN,
                                           page : SUBSET DOMAIN messages]
      BY DEF Inv, TypeOK
    <3> QED
      BY <1>4, <3>1
  <2>4. fetch \in [Clients -> [step : {"none", "checked", "done"}, after : BOOLEAN,
                               page : SUBSET DOMAIN messages']]
    BY <2>3 DEF Inv, TypeOK
  <2> QED
    BY <1>2, <1>4, <2>1, <2>2, <2>4
       DEF Inv, TypeOK, Message, Steps, Contexts, memberVars, feedVars
<1>6. Admitted' /\ Returned'
  BY <1>2, <1>3, <1>4 DEF Inv, Admitted, Returned, memberVars, feedVars
<1>7. SavedFirst' /\ DroppedNeedsReturn'
  BY <1>2, <1>3, <1>4 DEF Inv, SavedFirst, DroppedNeedsReturn, memberVars
<1>8. BroadcastsAreStored' /\ NoGap'
  BY <1>2 DEF Inv, BroadcastsAreStored, NoGap, memberVars, feedVars
<1> QED
  BY <1>5, <1>6, <1>7, <1>8 DEF Inv

LEMMA JoinStep ==
  ASSUME Inv, NEW c \in Clients, Join(c)
  PROVE  Inv'
<1>1. /\ c \notin joined /\ joined' = joined \cup {c} /\ conn[c] = "open"
      /\ UNCHANGED <<memberVars, conn, request, messages, stored, sent, fetch>>
  BY DEF Join, Hub!Join
<1>2. PICK n \in 0..Len(sent) : start' = [start EXCEPT ![c] = n]
  <2>1. Len([i \in DOMAIN sent |-> "group"]) = Len(sent)
    BY LogLength DEF Inv
  <2> QED
    BY <2>1 DEF Join, Hub!Join
<1>3. TypeOK'
  BY <1>1, <1>2 DEF Inv, TypeOK, memberVars
<1>4. Admitted' /\ Returned'
  BY <1>1 DEF Inv, Admitted, Returned, memberVars
<1>5. SavedFirst' /\ BroadcastsAreStored' /\ DroppedNeedsReturn'
  BY <1>1 DEF Inv, SavedFirst, BroadcastsAreStored, DroppedNeedsReturn, memberVars
<1>6. NoGap'
  <2>1. \A d \in Clients : fetch[d].after => start'[d] = start[d]
    BY <1>1, <1>2 DEF Inv, Admitted, TypeOK
  <2> QED
    BY <1>1, <2>1 DEF Inv, NoGap, memberVars
<1> QED
  BY <1>3, <1>4, <1>5, <1>6 DEF Inv

LEMMA HistoryStep ==
  ASSUME Inv, NEW c \in Clients, CheckMember(c) \/ ListByGroup(c)
  PROVE  Inv'
<1>1. UNCHANGED <<memberVars, conn, request, messages, stored, sent, feedVars>>
  BY DEF CheckMember, ListByGroup
<1>2. /\ Returned' /\ SavedFirst' /\ BroadcastsAreStored' /\ DroppedNeedsReturn'
  BY <1>1 DEF Inv, Returned, SavedFirst, BroadcastsAreStored, DroppedNeedsReturn, memberVars
<1>3. CASE CheckMember(c)
  <2>1. /\ fetch[c].step = "none" /\ UserOf[c] \in ever
        /\ fetch' = [fetch EXCEPT ![c].step = "checked"]
    BY <1>3 DEF CheckMember, IsMember, Inv, TypeOK
  <2>2. \A d \in Clients :
          /\ fetch'[d].page = fetch[d].page /\ fetch'[d].after = fetch[d].after
          /\ fetch'[d].step = IF d = c THEN "checked" ELSE fetch[d].step
    BY <2>1 DEF Inv, TypeOK
  <2>3. TypeOK'
    BY <1>1, <2>1 DEF Inv, TypeOK, memberVars, feedVars
  <2>4. Admitted' /\ NoGap'
    BY <1>1, <2>1, <2>2 DEF Inv, Admitted, NoGap, memberVars, feedVars
  <2> QED
    BY <1>2, <2>3, <2>4 DEF Inv
<1>4. CASE ListByGroup(c)
  <2>1. PICK P \in Pages :
          fetch' = [fetch EXCEPT ![c] = [step |-> "done", after |-> c \in joined, page |-> P]]
    BY <1>4 DEF ListByGroup
  <2>2. /\ P \subseteq stored /\ Cardinality(P) <= Limit
        /\ \A m \in stored \ P : Cardinality(P) = Limit /\ \A k \in P : k > m
        /\ stored \subseteq DOMAIN messages
    BY DEF Pages, Inv, TypeOK
  <2>3. \A d \in Clients : fetch'[d] = IF d = c THEN [step |-> "done", after |-> c \in joined, page |-> P]
                                               ELSE fetch[d]
    BY <2>1 DEF Inv, TypeOK
  <2>4. TypeOK'
    BY <1>1, <2>1, <2>2, <2>3 DEF Inv, TypeOK, memberVars, feedVars
  <2>5. Admitted'
    <3>1. UserOf[c] \in ever /\ fetch'[c].step = "done"
      BY <1>4, <2>3 DEF ListByGroup, Inv, Admitted
    <3>2. fetch'[c].after => c \in joined
      <4> DEFINE b == c \in joined
      <4>1. b \in BOOLEAN
        OBVIOUS
      <4>2. fetch'[c] = [step |-> "done", after |-> b, page |-> P]
        BY <2>3
      <4> HIDE DEF b
      <4>3. fetch'[c].after = b
        BY <4>1, <4>2
      <4> QED
        BY <4>3 DEF b
    <3>3. \A d \in Clients : d # c => fetch'[d] = fetch[d]
      BY <2>3
    <3> QED
      BY <1>1, <3>1, <3>2, <3>3 DEF Inv, Admitted, memberVars, feedVars
  <2>6. NoGap'
    <3> SUFFICES ASSUME alive, NEW d \in Clients, fetch'[d].after, NEW i \in 1..start[d]
                 PROVE  \/ sent[i] \in fetch'[d].page
                        \/ /\ Cardinality(fetch'[d].page) = Limit
                           /\ \A k \in fetch'[d].page : k > sent[i]
      BY <1>1 DEF NoGap, memberVars, feedVars
    <3>1. CASE d = c
      <4>1. i \in DOMAIN sent
        BY DEF Inv, TypeOK
      <4>2. sent[i] \in stored
        BY <4>1 DEF Inv, BroadcastsAreStored
      <4> QED
        BY <2>2, <2>3, <3>1, <4>2
    <3>2. CASE d # c
      BY <2>3, <3>2 DEF Inv, NoGap
    <3> QED
      BY <3>1, <3>2
  <2> QED
    BY <1>2, <2>4, <2>5, <2>6 DEF Inv
<1> QED
  BY <1>3, <1>4

LEMMA MemberStep ==
  ASSUME Inv, (\E u \in Users : MemberEnters(u) \/ MemberLeaves(u)) \/ DeleteGroup
  PROVE  Inv'
<1>1. /\ UNCHANGED <<conn, request, messages, sent, fetch, feedVars>>
      /\ ever \subseteq ever' /\ alive' \in BOOLEAN
      /\ alive' => alive /\ stored' = stored
      /\ members' \subseteq ever' /\ ever' \subseteq Users /\ stored' \subseteq stored
  <2>1. /\ alive \in BOOLEAN /\ members \subseteq ever /\ ever \subseteq Users
    BY DEF Inv, TypeOK
  <2>2. CASE \E u \in Users : MemberEnters(u) \/ MemberLeaves(u)
    BY <2>1, <2>2 DEF MemberEnters, MemberLeaves
  <2>3. CASE DeleteGroup
    BY <2>1, <2>3 DEF DeleteGroup
  <2> QED
    BY <2>2, <2>3
<1>2. TypeOK'
  BY <1>1 DEF Inv, TypeOK, feedVars
<1>3. Admitted' /\ Returned' /\ SavedFirst'
  BY <1>1 DEF Inv, Admitted, Returned, SavedFirst, feedVars
<1>4. BroadcastsAreStored' /\ NoGap' /\ DroppedNeedsReturn'
  BY <1>1 DEF Inv, BroadcastsAreStored, NoGap, DroppedNeedsReturn, feedVars
<1> QED
  BY <1>2, <1>3, <1>4 DEF Inv

-----------------------------------------------------------------------------
LEMMA InvInit == Init => Inv
<1> SUFFICES ASSUME Init PROVE Inv
  OBVIOUS
<1>1. TypeOK
  <2>1. Cardinality({}) = 0 /\ Limit \in Nat /\ MaxMessages \in Nat
    BY FS_EmptySet, ChatAssumption DEF ChatAssumption
  <2>2. fetch \in [Clients -> [step : {"none", "checked", "done"}, after : BOOLEAN,
                               page : SUBSET DOMAIN messages]]
    BY DEF Init
  <2>3. \A c \in Clients : Cardinality(fetch[c].page) <= Limit
    <3>1. \A c \in Clients : fetch[c].page = {}
      BY DEF Init
    <3>2. 0 <= Limit
      BY ChatAssumption DEF ChatAssumption
    <3> QED
      BY <2>1, <3>1, <3>2
  <2>4. /\ messages = <<>> /\ sent = <<>> /\ Len(messages) = 0 /\ Len(sent) = 0
        /\ \A c \in Clients : start[c] = 0
    BY DEF Init
  <2> QED
    BY <2>1, <2>2, <2>3, <2>4 DEF Init, TypeOK
<1>2. Admitted /\ Returned /\ SavedFirst
  BY DEF Init, Admitted, Returned, SavedFirst
<1>3. BroadcastsAreStored /\ NoGap /\ DroppedNeedsReturn
  BY DEF Init, BroadcastsAreStored, NoGap, DroppedNeedsReturn
<1> QED
  BY <1>1, <1>2, <1>3 DEF Inv

LEMMA InvNext == Inv /\ [Next]_vars => Inv'
<1> SUFFICES ASSUME Inv, [Next]_vars PROVE Inv'
  OBVIOUS
<1>1. ASSUME NEW c \in Clients, Admit(c) \/ Connect(c) \/ Lend(c) PROVE Inv'
  <2>1. UNCHANGED <<memberVars, messages, stored, sent, fetch, feedVars>>
    BY <1>1 DEF Admit, Connect, Lend
  <2> QED
    BY <1>1, <2>1, ConnStep
<1>2. ASSUME NEW c \in Clients,
             Cancel(c) \/ Read(c) \/ Join(c) \/ CheckMember(c) \/ ListByGroup(c)
      PROVE  Inv'
  BY <1>2, CancelStep, ReadStep, JoinStep, HistoryStep
<1>3. ASSUME NEW m \in DOMAIN messages,
             GetContext(m) \/ Save(m) \/ SaveFails(m) \/ BroadcastMessage(m)
      PROVE  Inv'
  BY <1>3, GoroutineStep, BroadcastStep
<1>4. CASE (\E u \in Users : MemberEnters(u) \/ MemberLeaves(u)) \/ DeleteGroup
  BY <1>4, MemberStep
<1>5. CASE UNCHANGED vars
  BY <1>5 DEF vars, memberVars, feedVars, Inv, TypeOK, Admitted, Returned,
              SavedFirst, BroadcastsAreStored, NoGap, DroppedNeedsReturn
<1> QED
  BY <1>1, <1>2, <1>3, <1>4, <1>5 DEF Next

LEMMA Correct == Spec => []Inv
  BY InvInit, InvNext, PTL DEF Spec

\* Every variable of the chat keeps its type, and no page exceeds its limit.
THEOREM ChatTypeCorrect == Spec => []TypeOK
<1>1. Inv => TypeOK
  BY DEF Inv
<1> QED
  BY Correct, <1>1, PTL

\* What is broadcast is in the table, as long as the group is.
THEOREM ChatBroadcastsAreStored == Spec => []BroadcastsAreStored
<1>1. Inv => BroadcastsAreStored
  BY DEF Inv
<1> QED
  BY Correct, <1>1, PTL

\* The history a client asks for once it has joined, and the feed from there
\* on, leave nothing out that was broadcast.
THEOREM ChatNoGap == Spec => []NoGap
<1>1. Inv => NoGap
  BY DEF Inv
<1> QED
  BY Correct, <1>1, PTL

\* Who was never a member of the group hears and says nothing in it.
THEOREM ChatOutsidersSeeNothing == Spec => []OutsidersSeeNothing
<1>1. Inv => OutsidersSeeNothing
  <2> SUFFICES ASSUME Inv, NEW c \in Clients, UserOf[c] \notin ever
               PROVE  /\ c \notin joined /\ fetch[c].page = {}
                      /\ \A m \in DOMAIN messages : messages[m].from # c
    BY DEF OutsidersSeeNothing
  <2>1. conn[c] = "none" /\ fetch[c].step = "none"
    BY DEF Inv, Admitted
  <2> QED
    BY <2>1 DEF Inv, Admitted, Returned
<1> QED
  BY Correct, <1>1, PTL

\* Without a failure a message is lost only after the handler that admitted
\* its connection has returned.
THEOREM ChatDroppedNeedsReturn == Spec => []DroppedNeedsReturn
<1>1. Inv => DroppedNeedsReturn
  BY DEF Inv
<1> QED
  BY Correct, <1>1, PTL
=============================================================================
