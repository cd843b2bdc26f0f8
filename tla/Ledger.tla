------------------------------- MODULE Ledger -------------------------------
(***************************************************************************)
(* The expenses of one group: POST /groups/:group_id/expenses and the two  *)
(* GETs of its balances, statement by statement, with requests side by     *)
(* side and members coming and going meanwhile; the balances that follow   *)
(* from the table; and the goroutine that every expense leaves behind to   *)
(* read them and send them to the hub.                                     *)
(***************************************************************************)
EXTENDS Splits

CONSTANTS Users,       \* registered users
          Strangers,   \* well-formed user ids that no user has
          Currencies,  \* those the group may have
          Bodies,      \* bodies of requests
          Workers,     \* goroutines: how many requests run at a time
          Failures,    \* BOOLEAN: the database and the network may fail
          MaxExpenses  \* bound on the expenses ever stored; when it is
                       \* reached no request begins

ASSUME LedgerAssumption ==
  /\ IsFiniteSet(Users) /\ Cardinality(Users) < Modulus \div 2
  /\ Users \cap Strangers = {}
  /\ MaxExpenses \in Nat /\ Failures \in BOOLEAN
  /\ \A b \in Bodies : /\ b.amount \in Int
                       /\ b.splits \in [DOMAIN b.splits -> Int]
                       /\ DOMAIN b.splits \subseteq Users \cup Strangers
                       /\ IsFiniteSet(DOMAIN b.splits)

VARIABLES
  alive,      \* the groups row is there
  currency,   \* its currency, which no code changes
  members,    \* group_members
  expenses,   \* expenses and expense_splits: of an id, the payer, the amount,
              \* the method and the shares; asked and wanted are history
  made,       \* ids given out so far: 1 .. made
  req,        \* req[w]: what the request that w serves wants, caller, input;
              \* wanted, the amount in the body, is history
  shares,     \* shares[w]: the shares computed for it
  step,       \* step[w]: the statement it executes next
  push,       \* push[id]: the goroutine that announces expense id
  shown,      \* the last balance update sent to the hub
  \* History, read by the properties only:
  touched,    \* touched[w]: who has joined or left since the request for an
              \* expense that w serves began
  latest      \* the announcement that read the balances last, 0 if none has
              \* since the members changed

tables  == <<alive, currency, members, expenses, made>>
control == <<req, shares, step>>
history == <<touched, latest>>
vars    == <<tables, control, push, shown, history>>

Steps == {"idle", "isMember", "getCurrency", "getMembers", "create", "reply",
          "getBalances", "endless"}
Preparing == {"isMember", "getCurrency", "getMembers", "create"}
Busy  == {w \in Workers : step[w] # "idle"}

None == [id |-> 0]   \* no update yet

Init ==
  /\ alive = TRUE
  /\ currency \in Currencies
  /\ members \in (SUBSET Users) \ {{}}
  /\ expenses = <<>> /\ made = 0
  /\ req = [w \in Workers |-> <<>>]
  /\ shares = [w \in Workers |-> <<>>]
  /\ step = [w \in Workers |-> "idle"]
  /\ push = <<>>
  /\ shown = None
  /\ touched = [w \in Workers |-> {}] /\ latest = 0

(* A definition marked "Fault" is the one that follows it with a bug seeded *)
(* into it: the checks of the properties' worth use it, no specification    *)
(* does.                                                                    *)

-----------------------------------------------------------------------------
(* Balances, as the two queries of postgres/expense.go add them up.         *)

SplitRows == UNION {{id} \X DOMAIN expenses[id].shares : id \in DOMAIN expenses}

Owed(rows) == SumFunctionOnSet([r \in SplitRows |-> expenses[r[1]].shares[r[2]]], rows)

PayerOf(r) == expenses[r[1]].payer

\* Fault: a payer is credited with the share that is the payer's own.
NetWithOwnShare(u) ==
  Owed({r \in SplitRows : PayerOf(r) = u})
    - Owed({r \in SplitRows : PayerOf(r) # u /\ r[2] = u})

\* GetNetBalance, of one user, member or not.
NetBalance(u) ==
  Owed({r \in SplitRows : PayerOf(r) = u /\ r[2] # u})
    - Owed({r \in SplitRows : PayerOf(r) # u /\ r[2] = u})

\* The rows that GetGroupBalances joins to a member.
RowsOf(m) == {r \in SplitRows : r[2] = m \/ PayerOf(r) = m}

\* Fault: as above, in this query.
GroupWithOwnShare ==
  [m \in members |-> Owed({r \in RowsOf(m) : PayerOf(r) = m})
                       - Owed({r \in RowsOf(m) : r[2] = m /\ PayerOf(r) # m})]

\* GetGroupBalances, of every row of group_members.
GroupBalances ==
  [m \in members |-> Owed({r \in RowsOf(m) : PayerOf(r) = m /\ r[2] # m})
                       - Owed({r \in RowsOf(m) : r[2] = m /\ PayerOf(r) # m})]

-----------------------------------------------------------------------------
(* CreateExpense, GetBalances and GetMyBalance.                             *)

\* Fault: the context outlives its request.
StillOpen(w) == push

\* net/http cancels a request's context when its handler returns, and with it
\* every query under that context.
Cancelled(w) ==
  [id \in DOMAIN push |->
     [stage |-> push[id].stage, list |-> push[id].list, whole |-> push[id].whole,
      context |-> IF push[id].context = w THEN "cancelled" ELSE push[id].context]]

Idle(w) ==
  /\ step' = [step EXCEPT ![w] = "idle"]
  /\ req' = [req EXCEPT ![w] = <<>>]
  /\ shares' = [shares EXCEPT ![w] = <<>>]
  /\ push' = Cancelled(w)
  /\ touched' = [touched EXCEPT ![w] = {}]

End(w) ==
  /\ Idle(w)
  /\ UNCHANGED <<tables, shown, latest>>

Goto(w, next) ==
  /\ step' = [step EXCEPT ![w] = next]
  /\ UNCHANGED <<tables, push, shown, history>>

\* A goroutine that has not read the balances yet, under the context of w's
\* request.
Announcement(w) ==
  [stage |-> "read", context |-> w, list |-> <<>>, whole |-> FALSE]

\* A request arrives.  Echo keeps its contexts in a pool, and a goroutine that
\* has outlived its own request asks such a context for the request only when
\* it runs (expense.go:118): it may get the one that came after its own.
Arrive(w, r) ==
  /\ step[w] = "idle" /\ made < MaxExpenses
  /\ step' = [step EXCEPT ![w] = "isMember"]
  /\ req' = [req EXCEPT ![w] = r]
  /\ \/ UNCHANGED push
     \/ \E id \in DOMAIN push :
          /\ push[id].stage = "read" /\ push[id].context = "cancelled"
          /\ push' = [push EXCEPT ![id] = Announcement(w)]
  /\ UNCHANGED <<tables, shares, shown, history>>

Begin(w, u, b) ==
  Arrive(w, [wants |-> "expense", caller |-> u, input |-> Minor(b, currency),
             wanted |-> b.amount])

NoInput == [method |-> "none", amount |-> 0, splits |-> <<>>]

\* A GET: the two endpoints differ only in the last statement.
Ask(w, u) ==
  Arrive(w, [wants |-> "balances", caller |-> u, input |-> NoInput, wanted |-> 0])

\* Fault: whoever is signed in may add an expense.
AnyUser(w) ==
  step[w] = "isMember" /\ Goto(w, "getCurrency") /\ UNCHANGED <<req, shares>>

IsMember(w) ==
  /\ step[w] = "isMember"
  /\ IF req[w].caller \in members
     THEN Goto(w, "getCurrency") /\ UNCHANGED <<req, shares>>
     ELSE End(w)

\* A group that is gone is not found; an amount must be positive.
GetCurrency(w) ==
  /\ step[w] = "getCurrency"
  /\ \/ /\ alive /\ req[w].wants = "expense" /\ req[w].input.amount > 0
        /\ Goto(w, "getMembers") /\ UNCHANGED <<req, shares>>
     \/ /\ alive /\ req[w].wants = "balances"
        /\ Goto(w, "getBalances") /\ UNCHANGED <<req, shares>>
     \/ /\ alive => req[w].wants = "expense" /\ ~(req[w].input.amount > 0)
        /\ End(w)

GetMembers(w) ==
  /\ step[w] = "getMembers"
  /\ IF members # {} /\ Shares(req[w].input, members) # {}
     THEN /\ \E s \in Shares(req[w].input, members) : shares' = [shares EXCEPT ![w] = s]
          /\ Goto(w, "create") /\ UNCHANGED req
     ELSE End(w)

\* Foreign keys to the group and to the users; CHECK (amount_owed_cents >= 0).
ConstraintsHold(w) ==
  /\ alive
  /\ DOMAIN shares[w] \subseteq Users
  /\ \A u \in DOMAIN shares[w] : shares[w][u] >= 0

\* One transaction.
Store(w) ==
  /\ step[w] = "create" /\ ConstraintsHold(w) /\ made < MaxExpenses
  /\ made' = made + 1
  /\ expenses' =
       [id \in DOMAIN expenses \cup {made + 1} |->
          IF id = made + 1
          THEN [payer |-> req[w].caller, amount |-> req[w].input.amount,
                method |-> req[w].input.method, shares |-> shares[w],
                asked |-> req[w].input.splits, wanted |-> req[w].wanted]
          ELSE expenses[id]]
  /\ UNCHANGED <<alive, currency, members>>

\* The handler starts the goroutine before it answers.
Create(w) ==
  /\ Store(w)
  /\ push' = [id \in DOMAIN push \cup {made + 1} |->
                IF id = made + 1 THEN Announcement(w) ELSE push[id]]
  /\ step' = [step EXCEPT ![w] = "reply"]
  /\ req' = [req EXCEPT ![w] = <<>>]
  /\ shares' = [shares EXCEPT ![w] = <<>>]
  /\ touched' = [touched EXCEPT ![w] = {}]
  /\ UNCHANGED <<shown, latest>>

\* The answer to COMMIT is lost: the expense is stored, the caller is told
\* that it is not, and nobody is told of it.
CreateUnacknowledged(w) ==
  /\ Failures
  /\ Store(w)
  /\ Idle(w)
  /\ UNCHANGED <<shown, latest>>

Reply(w) == step[w] = "reply" /\ End(w)

\* A constraint fails: the transaction is rolled back.
RolledBack(w) == step[w] = "create" /\ ~ConstraintsHold(w) /\ End(w)

\* A statement fails, or the caller hangs up: a loop does not notice.
Fail(w) == Failures /\ step[w] \notin {"idle", "reply", "endless"} /\ End(w)

\* SimplifyDebts never returns if it is given one balance, and that is not
\* zero (module Settle).
Endless(list) == \E u \in DOMAIN list : DOMAIN list = {u} /\ list[u] # 0

\* Given no balance it panics, which ends the request too.
GetBalances(w) ==
  /\ step[w] = "getBalances"
  /\ IF Endless(GroupBalances)
     THEN Goto(w, "endless") /\ UNCHANGED <<req, shares>>
     ELSE End(w)

GetMyBalance(w) == step[w] = "getBalances" /\ End(w)

-----------------------------------------------------------------------------
(* The announcement of an expense.                                          *)

\* Fault: from a cache that an expense does not invalidate.
BalancesCached(id) == IF shown.id = 0 THEN GroupBalances ELSE shown.list

BalancesRead(id) == GroupBalances

ReadAs(id, list, whole) ==
  /\ push' = [push EXCEPT ![id] = [stage |-> "send", context |-> "cancelled",
                                   list |-> list, whole |-> whole]]
  /\ latest' = id
  /\ UNCHANGED <<tables, control, shown, touched>>

ReadBalances(id) ==
  /\ push[id].stage = "read" /\ push[id].context # "cancelled"
  /\ ReadAs(id, BalancesRead(id), TRUE)

\* The rows that a query cut short has returned: it orders them by balance.
FirstRows(list) ==
  {S \in SUBSET DOMAIN list :
     \A u \in S, v \in DOMAIN list \ S : list[u] >= list[v]}

\* The query fails, also when its context is cancelled during it.  The rows
\* read so far are returned with the error, which the goroutine ignores.
ReadCutShort(id) ==
  /\ Failures
  /\ push[id].stage = "read"
  /\ \E S \in FirstRows(GroupBalances) : ReadAs(id, Restrict(GroupBalances, S), FALSE)

\* No query is made under a context that is cancelled.
ReadCancelled(id) ==
  /\ push[id].stage = "read" /\ push[id].context = "cancelled"
  /\ ReadAs(id, <<>>, FALSE)

Sent == [stage |-> "sent", context |-> "cancelled", list |-> <<>>, whole |-> FALSE]

\* BroadcastBalanceUpdate.
Broadcast(id) ==
  /\ push[id].stage = "send"
  /\ push' = [push EXCEPT ![id] = Sent]
  /\ shown' = [id |-> id, list |-> push[id].list, whole |-> push[id].whole]
  /\ UNCHANGED <<tables, control, history>>

-----------------------------------------------------------------------------
(* What the endpoints of Membership do to the group meanwhile.              *)

MembershipChanges ==
  /\ touched' = [w \in Workers |->
                   IF step[w] \in Preparing /\ req[w].wants = "expense"
                   THEN touched[w] \cup (members \ members') \cup (members' \ members)
                   ELSE {}]
  /\ latest' = 0
  /\ UNCHANGED <<currency, made, control, push, shown>>

Join(u) ==
  /\ alive /\ u \notin members
  /\ members' = members \cup {u}
  /\ MembershipChanges /\ UNCHANGED <<alive, expenses>>

Leave(u) ==
  /\ u \in members
  /\ members' = members \ {u}
  /\ MembershipChanges /\ UNCHANGED <<alive, expenses>>

\* ON DELETE CASCADE empties the three tables.
DeleteGroup ==
  /\ alive
  /\ alive' = FALSE /\ members' = {} /\ expenses' = <<>>
  /\ MembershipChanges

Next ==
  \/ \E w \in Workers :
       \/ \E u \in Users, b \in Bodies : Begin(w, u, b)
       \/ \E u \in Users : Ask(w, u)
       \/ GetBalances(w) \/ GetMyBalance(w)
       \/ IsMember(w) \/ GetCurrency(w) \/ GetMembers(w)
       \/ Create(w) \/ CreateUnacknowledged(w) \/ RolledBack(w) \/ Reply(w) \/ Fail(w)
  \/ \E id \in DOMAIN push :
       \/ ReadBalances(id) \/ ReadCutShort(id) \/ ReadCancelled(id) \/ Broadcast(id)
  \/ \E u \in Users : Join(u) \/ Leave(u)
  \/ DeleteGroup

Spec == Init /\ [][Next]_vars

-----------------------------------------------------------------------------
\* Type invariant.  Shares are computed when the transaction is next, never
\* earlier; only stored expenses are announced; the rows hold registered users.
TypeOK ==
  /\ alive \in BOOLEAN /\ currency \in Currencies
  /\ members \subseteq Users /\ (~alive => members = {})
  /\ made \in 0 .. MaxExpenses /\ DOMAIN expenses \subseteq 1 .. made
  /\ \A id \in DOMAIN expenses :
       /\ expenses[id].payer \in Users /\ expenses[id].amount \in Int
       /\ expenses[id].amount > 0
       /\ DOMAIN expenses[id].shares \subseteq Users
  /\ step \in [Workers -> Steps]
  /\ \A w \in Busy : step[w] # "reply" =>
       req[w].caller \in Users /\ req[w].input.amount \in Int
  /\ \A w \in Workers : step[w] \in Steps \ {"create"} => shares[w] = <<>>
  /\ DOMAIN push \subseteq 1 .. made
  /\ \A id \in DOMAIN push :
       /\ push[id].stage \in {"read", "send", "sent"}
       /\ push[id].context \in Busy \cup {"cancelled"}
       /\ DOMAIN push[id].list \subseteq Users
  /\ shown.id \in {0} \cup DOMAIN push /\ latest \in {0} \cup DOMAIN push
  /\ touched \in [Workers -> SUBSET Users]

\* The shares of a stored expense add up to its amount and none is negative,
\* by the checks of computeSplits and of the table together
\* (service.go:71-163, 001_schema.sql:94).  Exact shares and percentages are
\* added in an int64, so three of them may wrap around; two cannot, nor can the
\* shares of an equal split.
SharesAddUp ==
  \A id \in DOMAIN expenses :
    LET e == expenses[id] IN
    /\ \A u \in DOMAIN e.shares : e.shares[u] >= 0
    /\ Wrap(SumFunction(e.shares)) = e.amount
    /\ \/ SumFunction(e.shares) = e.amount
       \/ e.method # "equal" /\ Cardinality(DOMAIN e.shares) >= 3

\* The amount stored is the one asked for, to half a minor unit of the group's
\* currency, however large the number in the body: what no int64 can hold is
\* refused, or, where the platform converts it to the largest int64, stored as
\* that (expense.go:93, service.go:37).
AmountAsAsked ==
  \A id \in DOMAIN expenses :
    LET e == expenses[id]
        asked == e.wanted * MinorUnitFactor(currency)  \* in hundredths of a unit
    IN \/ -100 <= 2 * (100 * e.amount - asked) /\ 2 * (100 * e.amount - asked) <= 100
       \/ e.amount = TooLarge /\ asked > 100 * TooLarge

\* Nobody pays for another's rounding (service.go:74-90, 128-154): all but one
\* share are within a unit of what they should be, or half a unit if they were
\* rounded, and one of the largest is off by no more than all of them together,
\* unless the percentages add up to 100 only because their sum wraps around.
\* (As far as the code's floats are exact: see RoundDiv.)
FairShares ==
  \A id \in DOMAIN expenses :
    LET e == expenses[id]
        n == Cardinality(DOMAIN e.shares)
        Unit == IF e.method = "equal" THEN n ELSE 10000
        \* What u owes too much, in fractions of a unit.
        Excess(u) == IF e.method = "equal" THEN n * e.shares[u] - e.amount
                     ELSE 2 * (10000 * e.shares[u] - e.amount * e.asked[u])
        Within(u, k) == -k * Unit <= Excess(u) /\ Excess(u) <= k * Unit
        Most(u) == e.method = "percentage" =>
                     \A v \in DOMAIN e.asked : e.asked[v] <= e.asked[u]
    IN \/ e.method = "equal"
       \/ e.method = "percentage" /\ SumFunction(e.asked) = 10000
       => \E one \in DOMAIN e.shares :
           /\ Most(one) /\ Within(one, n)
           /\ \A u \in DOMAIN e.shares \ {one} : Within(u, 1)

\* docs/api.md:384: percentages that add up to 100 are not refused, but for an
\* amount so small that rounding takes more from the largest share than it has:
\* n (n + 1) / 2 units suffice for n shares (service.go:119-150).  In a currency
\* without decimals they always are: the factor of 100 that the service expects
\* is the currency's (expense.go:101).
PercentagesPass ==
  \A w \in Workers :
    LET in == req[w].input
        n  == Cardinality(DOMAIN in.splits)
    IN /\ step[w] = "getMembers" /\ in.method = "percentage"
       /\ \A u \in DOMAIN in.splits : in.splits[u] >= 0
       /\ SumFunction(in.splits) = 100 * MinorUnitFactor(currency) /\ currency # "JPY"
       /\ 2 * in.amount >= n * (n + 1)
       => /\ Shares(in, members) # {}
          /\ \A s \in Shares(in, members), u \in DOMAIN in.splits : s[u] >= 0

\* Whoever comes and goes meanwhile, what a request is about to store is paid by
\* somebody who has been a member since the request began and, if it is split
\* equally, shared by everybody who has been one all the time and by nobody who
\* has not been one at any time (expense.go:71, service.go:41): the members are
\* read before the transaction begins (postgres/expense.go:23), so somebody who
\* leaves in between gets a share, but only then.
SharedByMembers ==
  \A w \in Workers : step[w] = "create" =>
    /\ req[w].caller \in members \cup touched[w]
    /\ req[w].input.method = "equal" =>
         /\ members \ touched[w] \subseteq DOMAIN shares[w]
         /\ DOMAIN shares[w] \subseteq members \cup touched[w]

Sharers == UNION {DOMAIN expenses[id].shares \cup {expenses[id].payer} :
                    id \in DOMAIN expenses}

\* What one is owed another owes, and the two queries agree on it
\* (postgres/expense.go:94-116, 119-158).  The balances listed add up to zero, as
\* SimplifyDebts needs them to, if everybody who shares in an expense is a member
\* now.
BalancesAddUp ==
  /\ \A m \in members : GroupBalances[m] = NetBalance(m)
  /\ SumFunction([u \in Users |-> NetBalance(u)]) = 0
  /\ Sharers \subseteq members => SumFunction(GroupBalances) = 0

\* A request for the balances never ends only if somebody the last member has
\* shared an expense with is no member any more (expense.go:161): nobody who
\* has always been alone in a group is caught in the loop.
EndlessNeedsDeparture ==
  [][\A w \in Workers : step[w] # "endless" /\ step'[w] = "endless" =>
       ~(Sharers \subseteq members)]_vars

\* Nothing is left to announce: an answer to COMMIT lost is never announced.
Quiet == DOMAIN push = 1 .. made /\ \A id \in DOMAIN push : push[id].stage = "sent"

\* When all announcements are out, clients see the balances as they are, if the
\* last sent is the last that was read, it was not cut short, and the members
\* are still the same (expense.go:117-120).
LastUpdateCurrent ==
  Quiet /\ shown.id # 0 /\ shown.id = latest /\ shown.whole =>
    shown.list = GroupBalances

\* docs/websocket.md:122 "This payload is a full snapshot": an update of a
\* group whose members have not changed since has a balance for each of them.
UpdatesAreFullSnapshots ==
  shown.id # 0 /\ shown.id = latest => DOMAIN shown.list = members
=============================================================================
