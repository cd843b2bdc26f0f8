-------------------------------- MODULE Chat --------------------------------
(***************************************************************************)
(* The chat of one group, from the WebSocket to the table and back: the    *)
(* handler that admits a connection, the goroutine that every message gets *)
(* (it saves the message, then hands it to the hub), the history endpoint, *)
(* and members who come and go.  The hub is what Feed says of it, which    *)
(* module Hub implements; what a client has received, and whether it was   *)
(* evicted, changes nothing here and is left to that module.               *)
(*                                                                         *)
(* A message is a number, given in the order of created_at.  What a        *)
(* goroutine saves with is the context of the request that opened the      *)
(* connection, which it asks the handler's echo.Context for: cancelled     *)
(* when the handler returns, and after that whatever request the pool of   *)
(* contexts lends that echo.Context to.                                    *)
(***************************************************************************)
EXTENDS Integers, Sequences, FiniteSets

CONSTANTS Clients,     \* WebSocket connections
          Users,       \* registered users
          UserOf,      \* Client.UserID
          Limit,       \* the messages of a page of history (50 in the code)
          Failures,    \* BOOLEAN: the database and the network may fail
          MaxMessages  \* model bound: how many messages are ever read

ASSUME ChatAssumption ==
  /\ UserOf \in [Clients -> Users]
  /\ Limit \in Nat \ {0} /\ MaxMessages \in Nat /\ Failures \in BOOLEAN

VARIABLES
  alive,     \* the groups row is there
  members,   \* group_members
  conn,      \* conn[c]: how far ServeWS is
  request,   \* request[c]: the context c's echo.Context leads to
  messages,  \* messages[m]: its connection, the next step of its goroutine,
             \* and the context that the goroutine has got
  stored,    \* the messages table
  sent,      \* sent[i]: the message that broadcast number i carries
  fetch,     \* fetch[c]: the request for the history that c's user makes
  ever,      \* the users who have been members (history)
  joined,    \* the clients the hub has put into the room
  start      \* start[c]: how many broadcasts preceded c's joining

feedVars   == <<joined, start>>
memberVars == <<alive, members, ever>>
vars       == <<memberVars, conn, request, messages, stored, sent, fetch, feedVars>>

Hub == INSTANCE Feed WITH
         Groups <- {"group"}, GroupOf <- [c \in Clients |-> "group"],
         log <- [i \in DOMAIN sent |-> "group"],
         seen <- [c \in Clients |-> <<>>], slow <- {}

Init ==
  /\ alive = TRUE
  /\ members \in (SUBSET Users) \ {{}} /\ ever = members
  /\ conn = [c \in Clients |-> "none"]
  /\ request = [c \in Clients |-> "none"]
  /\ messages = <<>> /\ stored = {} /\ sent = <<>>
  /\ fetch = [c \in Clients |-> [step |-> "none", after |-> FALSE, page |-> {}]]
  /\ joined = {} /\ start = [c \in Clients |-> 0]

(* A definition marked "Fault" is the one that follows it with a bug seeded *)
(* into it: the checks of the properties' worth use it, no specification    *)
(* does.                                                                    *)

\* Fault: a token is enough.
AnyUser(u) == TRUE

IsMember(u) == u \in members

\* Fault: what anybody's context does, everybody's does.
AllCut(c) == [m \in DOMAIN messages |->
                IF messages[m].ctx = "live" THEN [messages[m] EXCEPT !.ctx = "cut"]
                                            ELSE messages[m]]

\* The goroutines that have got c's context find it cancelled.
Cut(c) == [m \in DOMAIN messages |->
             IF messages[m].from = c /\ messages[m].ctx = "live"
             THEN [messages[m] EXCEPT !.ctx = "cut"] ELSE messages[m]]

\* Fault: the oldest messages instead of the latest.
FirstPages ==
  {P \in SUBSET stored :
     /\ Cardinality(P) <= Limit
     /\ \A m \in stored \ P : Cardinality(P) = Limit /\ \A k \in P : k < m}

\* Fault: no LIMIT.
WholeTable == {stored}

\* ORDER BY created_at DESC LIMIT: all there are, or the latest ones.
Pages ==
  {P \in SUBSET stored :
     /\ Cardinality(P) <= Limit
     /\ \A m \in stored \ P : Cardinality(P) = Limit /\ \A k \in P : k > m}

-----------------------------------------------------------------------------
(* ServeWS and ReadPump                                                    *)

\* A request for a connection by a member; anybody else is refused.
Admit(c) ==
  /\ conn[c] = "none"
  /\ IsMember(UserOf[c])
  /\ conn' = [conn EXCEPT ![c] = "admitted"]
  /\ request' = [request EXCEPT ![c] = "own"]
  /\ UNCHANGED <<memberVars, messages, stored, sent, fetch, feedVars>>

\* The connection is upgraded, its registration queued, its pumps started.
Connect(c) ==
  /\ conn[c] = "admitted"
  /\ conn' = [conn EXCEPT ![c] = "open"]
  /\ UNCHANGED <<memberVars, request, messages, stored, sent, fetch, feedVars>>

\* ServeWS returns; or the request that c's echo.Context was lent to ends.
Cancel(c) ==
  /\ conn[c] = "open"
  /\ request[c] \in {"own", "lent"}
  /\ request' = [request EXCEPT ![c] = "cancelled"]
  /\ messages' = Cut(c)
  /\ UNCHANGED <<memberVars, conn, stored, sent, fetch, feedVars>>

\* Another request takes c's echo.Context from the pool.
Lend(c) ==
  /\ request[c] = "cancelled"
  /\ request' = [request EXCEPT ![c] = "lent"]
  /\ UNCHANGED <<memberVars, conn, messages, stored, sent, fetch, feedVars>>

\* ReadPump reads a message that is not empty and starts its goroutine; it may
\* stop at any time, which nothing here depends on.
Read(c) ==
  /\ conn[c] = "open"
  /\ Len(messages) < MaxMessages
  /\ messages' = Append(messages, [from |-> c, step |-> "start", ctx |-> "none"])
  /\ UNCHANGED <<memberVars, conn, request, stored, sent, fetch, feedVars>>

-----------------------------------------------------------------------------
(* The goroutine of message m                                              *)

\* It gets the context its connection's echo.Context leads to now.
GetContext(m) ==
  /\ messages[m].step = "start"
  /\ messages' = [messages EXCEPT
       ![m].step = "save",
       ![m].ctx = IF request[messages[m].from] = "cancelled" THEN "cancelled" ELSE "live"]
  /\ UNCHANGED <<memberVars, conn, request, stored, sent, fetch, feedVars>>

Save(m) ==
  /\ messages[m].step = "save" /\ messages[m].ctx = "live"
  /\ alive
  /\ stored' = stored \cup {m}
  /\ messages' = [messages EXCEPT ![m].step = "broadcast"]
  /\ UNCHANGED <<memberVars, conn, request, sent, fetch, feedVars>>

\* Fault: the error is ignored and the message broadcast.
BroadcastAnyway(m) ==
  /\ messages[m].step = "save"
  /\ messages[m].ctx = "live" /\ alive => Failures
  /\ messages' = [messages EXCEPT ![m].step = "broadcast"]
  /\ UNCHANGED <<memberVars, conn, request, stored, sent, fetch, feedVars>>

\* The database fails; or the group is gone (a foreign key) or the context
\* cancelled: the message is dropped.  A statement whose answer is lost, or
\* under way when its context is cancelled, may have stored it.
SaveFails(m) ==
  /\ messages[m].step = "save"
  /\ IF messages[m].ctx = "live" /\ alive
     THEN Failures /\ messages' = [messages EXCEPT ![m].step = "failed"]
     ELSE messages' = [messages EXCEPT ![m].step = "dropped"]
  /\ \/ stored' = stored
     \/ /\ alive /\ messages[m].ctx # "cancelled"
        /\ stored' = stored \cup {m}
  /\ UNCHANGED <<memberVars, conn, request, sent, fetch, feedVars>>

BroadcastMessage(m) ==
  /\ messages[m].step = "broadcast"
  /\ messages' = [messages EXCEPT ![m].step = "done"]
  /\ sent' = Append(sent, m)
  /\ Hub!Publish("group")
  /\ UNCHANGED <<memberVars, conn, request, stored, fetch>>

-----------------------------------------------------------------------------
(* The hub takes a registration that is queued, some time after the client *)
(* was told that it is connected.                                          *)

Join(c) ==
  /\ conn[c] = "open"
  /\ UNCHANGED <<memberVars, conn, request, messages, stored, sent, fetch>>
  /\ Hub!Join(c)

-----------------------------------------------------------------------------
(* GetHistory, by the user of connection c: two statements.                *)

CheckMember(c) ==
  /\ fetch[c].step = "none"
  /\ IsMember(UserOf[c])
  /\ fetch' = [fetch EXCEPT ![c].step = "checked"]
  /\ UNCHANGED <<memberVars, conn, request, messages, stored, sent, feedVars>>

ListByGroup(c) ==
  /\ fetch[c].step = "checked"
  /\ \E P \in Pages :
       fetch' = [fetch EXCEPT ![c] = [step |-> "done", after |-> c \in joined, page |-> P]]
  /\ UNCHANGED <<memberVars, conn, request, messages, stored, sent, feedVars>>

-----------------------------------------------------------------------------
(* The group's members, as module Membership has them change.              *)

MemberEnters(u) ==
  /\ alive /\ u \notin members
  /\ members' = members \cup {u} /\ ever' = ever \cup {u}
  /\ UNCHANGED <<alive, conn, request, messages, stored, sent, fetch, feedVars>>

MemberLeaves(u) ==
  /\ u \in members
  /\ members' = members \ {u}
  /\ UNCHANGED <<alive, ever, conn, request, messages, stored, sent, fetch, feedVars>>

\* The members and the messages go with the group.
DeleteGroup ==
  /\ alive
  /\ alive' = FALSE /\ members' = {} /\ stored' = {}
  /\ UNCHANGED <<ever, conn, request, messages, sent, fetch, feedVars>>

-----------------------------------------------------------------------------
Next ==
  \/ \E c \in Clients :
       \/ Admit(c) \/ Connect(c) \/ Cancel(c) \/ Lend(c) \/ Read(c)
       \/ Join(c) \/ CheckMember(c) \/ ListByGroup(c)
  \/ \E m \in DOMAIN messages :
       GetContext(m) \/ Save(m) \/ SaveFails(m) \/ BroadcastMessage(m)
  \/ \E u \in Users : MemberEnters(u) \/ MemberLeaves(u)
  \/ DeleteGroup

Spec == Init /\ [][Next]_vars

-----------------------------------------------------------------------------
\* Type invariant: every variable has its type, and a page of history is no
\* longer than its limit (chat.go:61-86, 107; message.go:28-55).
TypeOK ==
  /\ alive \in BOOLEAN
  /\ members \subseteq ever /\ ever \subseteq Users
  /\ conn \in [Clients -> {"none", "admitted", "open"}]
  /\ request \in [Clients -> {"none", "own", "cancelled", "lent"}]
  /\ messages \in Seq([from : Clients,
                       step : {"start", "save", "broadcast", "done", "failed", "dropped"},
                       ctx : {"none", "live", "cut", "cancelled"}])
  /\ Len(messages) <= MaxMessages
  /\ stored \subseteq DOMAIN messages
  /\ sent \in Seq(DOMAIN messages)
  /\ fetch \in [Clients -> [step : {"none", "checked", "done"}, after : BOOLEAN,
                            page : SUBSET DOMAIN messages]]
  /\ \A c \in Clients : Cardinality(fetch[c].page) <= Limit
  /\ joined \subseteq Clients
  /\ \A c \in Clients : start[c] \in 0..Len(sent)

\* What is broadcast is in the table, as long as the group is: the goroutine
\* hands on only what it knows to be saved, whatever fails, is cancelled or
\* overtaken meanwhile (chat.go:79-84).
BroadcastsAreStored ==
  alive => \A i \in DOMAIN sent : sent[i] \in stored

\* A client that asks for the history once it has joined misses nothing: what
\* was broadcast before it joined is on its page, unless that is full of later
\* messages; the rest the feed brings (chat.go:57, 79-84, 107).
NoGap ==
  alive => \A c \in Clients : fetch[c].after =>
    \A i \in 1..start[c] :
      \/ sent[i] \in fetch[c].page
      \/ /\ Cardinality(fetch[c].page) = Limit
         /\ \A k \in fetch[c].page : k > sent[i]

\* Who was never a member of the group hears and says nothing in it, although
\* membership is checked once and a connection outlives it (chat.go:46, 103).
OutsidersSeeNothing ==
  \A c \in Clients : UserOf[c] \notin ever =>
    /\ c \notin joined /\ fetch[c].page = {}
    /\ \A m \in DOMAIN messages : messages[m].from # c

\* Without a failure, and as long as the group is there, a message is lost only
\* if the handler that admitted its connection had returned before it was saved
\* (chat.go:80, 88): no other connection's end loses it.
DroppedNeedsReturn ==
  alive => \A m \in DOMAIN messages :
    messages[m].step = "dropped" => request[messages[m].from] \in {"cancelled", "lent"}
=============================================================================
