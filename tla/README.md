# SpendBuddy backend: TLA+ models, checks and proofs

This directory specifies the concurrent and the numeric core of the SpendBuddy
backend: the chat hub and the chat around it, group membership, sign-in and the
users, expenses with their splits, the balances and balance updates that follow
from them, and debt simplification. Modules are checked with TLC on small instances
and proved with TLAPS for every value of their constants. Line numbers refer to the files of this repository; `group.go`
alone is the HTTP handler, `internal/delivery/http/handler/group.go`.

## 1. The system

One Go process, PostgreSQL, Redis. Every HTTP request is served by a goroutine of
its own; the only long-lived goroutines are the hub's loop and two per WebSocket.

| Component | State | Operations | Talks to |
|---|---|---|---|
| Chat hub (`internal/chat/hub.go`) | rooms; channels register, unregister, broadcast | Run: one of four cases per turn; BroadcastMessage, BroadcastBalanceUpdate, Register, Unregister | connections (channels), handlers |
| WebSocket connections (`chat/client.go`, `handler/chat.go`) | socket, `send` channel, two goroutines | ServeWS, ReadPump, WritePump | hub, message store, membership check |
| Groups and members (`handler/group.go`, `postgres/group.go`, tables) | `groups`, `group_members` | create, update, delete group; add, remove, leave, change role; lists | database only, one statement at a time |
| Expenses and splits (`expense/service.go`, `handler/expense.go`) | `expenses`, `expense_splits` | CreateExpense with equal, exact and percentage splits | members (read), one transaction |
| Balances (`postgres/expense.go`, `expense/balance.go`) | none of its own | GetNetBalance, GetGroupBalances, SimplifyDebts | reads expenses and members |
| Balance updates (`handler/expense.go:117-120`) | a goroutine per expense | read balances, broadcast | hub |
| Sign-in (`auth/otp.go`, `auth/google.go`, `postgres/user.go`) | `users`; codes in Redis with a TTL | send and verify a code, Google sign-in | Redis, database, tokens |
| Tokens (`auth/jwt.go`, `middleware/auth.go`) | none | issue, validate, refresh | |
| Profile and currencies (`handler/user.go`, `domain/currency.go`) | a column of `users`; a constant | UpdateCurrency; the default of a new group | database |
| Message store (`postgres/message.go`) | `messages` | Save, ListByGroup | database |
| Assembly (`cmd/server`, `router.go`, `pkg`) | wiring | start and stop | |

What is hard in each, and what makes it correct:

* **Hub and connections.** Four kinds of goroutines over bounded channels, with a
  `select` that picks at random. A connection can end at any moment, for a reason
  on either side, before its registration is even taken. The hub must not panic
  (closing a channel twice, sending on a closed one: either ends the process) nor
  wait for itself; a client must get the broadcasts of its group, in order, once,
  without a gap unless it was too slow; both goroutines of a dead connection end.
* **Chat.** Each message has a goroutine that saves it and then hands it to the hub,
  with a context whose request may be over; membership is checked only at the
  start; history and feed come from two places. What is broadcast must be stored,
  the two together must leave no gap, outsiders must be kept out.
* **Groups.** Each request is one to four statements without a transaction, so its
  checks may be out of date when it writes. A group with members must keep an
  admin, only an admin may change it, however late, and nobody belongs to a deleted
  group.
* **Debt simplification.** A loop over sorted balances that relies on exact zeros.
  It must end, settle everybody, ask nobody for more than they owe, and use few
  transfers; its input need not add up to zero, because only members are listed.
* **Splits and ledger.** Shares must add up to the amount whatever the rounding,
  be attributed to the right people, and the two balance queries must agree.
* **Balance updates.** Snapshots are read and sent by unordered goroutines with a
  context that may be cancelled; the last one sent should be the latest state.
* **Sign-in.** Several calls to Redis and Postgres without a transaction, where any
  error of a lookup counts as "not found". A code is to be used once and the last
  one to work, a user to exist once per address and per Google account, concurrent
  sign-ins must not undo each other's changes, and tokens, which nobody checks
  against the table, must name a user there is.

`PROJECT.json` lists each of these hazards at its line with the properties that
cover it; a note says why where none does.

## 2. The modules

| Module | What it is |
|---|---|
| `Feed` | abstract: what the hub promises to the clients of a group |
| `Hub` | the hub and its connections; implements `Feed` |
| `HubProofs`, `FeedProofs` | theorems about `Hub`: its types and panics; what clients get, and that it implements `Feed` |
| `Chat` | the chat of one group: handler, message goroutines, table, history and members; composed with `Feed` |
| `ChatProofs` | theorems about `Chat` |
| `Directory` | abstract: the users, with atomic operations |
| `Accounts` | codes, both sign-ins call by call, the users table, tokens, the preferred currency; implements `Directory` |
| `AccountsProofs` | theorems about `Accounts` |
| `Roster` | abstract: group membership with atomic operations |
| `Membership` | the group endpoints, one action per SQL statement; implements `Roster` |
| `MembershipProofs` | theorems about `Membership` |
| `Settle` | SimplifyDebts, one action per half of the loop's body |
| `SettleProofs` | theorems about `Settle` |
| `Splits` | the three split methods and the conversion to minor units, as operators |
| `Ledger` | creating expenses, the balances they add up to, the requests for them, and the updates sent |
| `LedgerProofs` | theorems about `Ledger` and the arithmetic of `Splits` |
| `SumProofs` | lemmas about sums over finite sets, for `SettleProofs` and `LedgerProofs` |
| `MCHub`, `MCChat`, `MCMembership`, `MCAccounts`, `MCSettle`, `MCLedger` | instances for TLC |

### Hub

The three channels are sequences with their capacity as a constant; a send is an
action that is enabled while there is room. `rooms[g]` is the set of clients in
the room of `g`, empty when the code has no map entry. `RunRegister`,
`RunUnregister`, `RunBroadcast` and `RunDone` are the four cases of the select;
taking a broadcast copies the room into `targets`, and `Deliver`, `Evict` or
`SendOnClosed` handle one target at a time, so the pumps run in between.
`status` records what has become of the loop: still running, stopped by its
context, waiting for itself on the unregister channel (`stuck`), or one of the two
panics, after which no goroutine takes a step. On the other side `readPump[c]` and
`writePump[c]` are the two goroutines of a connection, with the handler that
registers it as the first stage of the former and its two deferred calls,
`Unregister` and `Close`, as the last ones; `conn[c]` is the socket. Reads and
pings may fail at any time (peer gone, deadline); a write on a closed connection
fails. Messages from a client are not tracked here: any post to the channel, by a
chat message or a balance update, is `Broadcast`. Payloads are the numbers of the
broadcasts. `posted`, `got`, `joined`, `start`, `evicted` and `late` are history
that only the properties and the refinement mapping read.

`Feed` is what a client should be able to rely on: `FeedSpec` maps its log to
`posted`, what a client has seen to `got` and the slow ones to `evicted`, and says
that every client sees the broadcasts of its own group in order, each once, and
all of them unless it was evicted.

### Chat

One group, any number of connections and messages. `conn[c]` is how far `ServeWS`
is with a connection (`Admit` has the membership check, `Connect` the upgrade, the
queued registration and the pumps); a message is a number in the order of
`created_at`, and `messages[m]` is its goroutine: `Read` starts it, `GetContext`
asks the handler's echo.Context for the request's context, `Save` inserts the row,
`SaveFails` does not or does without knowing it, `BroadcastMessage` hands the
message to the hub. `GetHistory` is two statements, `CheckMember` and
`ListByGroup`. `MemberEnters`, `MemberLeaves` and `DeleteGroup` are what the
endpoints of `Membership` do meanwhile.

The context is the delicate part. `request[c]` is what c's echo.Context leads to:
the request that opened the connection (`own`), that request cancelled because
`ServeWS` has returned (`Cancel`), or a later request that echo's pool has lent the
echo.Context to (`Lend`), until that one ends too (`Cancel` again). A goroutine
that has got a live context may find it cut while its INSERT is under way, and the
row may then be there or not.

The hub is `INSTANCE Feed`, the specification `Hub` is proved to implement:
`BroadcastMessage` is its `Publish` and `Join` its `Join`, so a registration may
wait in the hub's channel for any time after the client has been told that it is
connected. What a client has received of the feed is `Feed`'s business; `start[c]`,
the broadcasts it came too late for, is what `NoGap` relates to the history. The
balance updates that share the hub's channel are left out here.

### Accounts

`otp[e]` is the key of an address in Redis, holding the number of a code or
nothing; `SendEmailOTP` stores a code, and `MailOTP` mails it, in any order or never;
only what was mailed can be presented. `users` is the table in the order of its rows, with address, Google
account and preferred currency; `job[w]` is the sign-in that worker `w` is at, with
the row it has read. `VerifyEmailOTP` is the read and the comparison, `DeleteOTP`
the deletion, which takes whatever the key holds and whose error is ignored; then
`FindByEmail` and `Create` or `Update`. `LoginWithGoogle` begins the other sign-in,
with `FindByGoogleSub` first. Every lookup may fail and then counts as "not found",
as in the code; every write may be refused by the UNIQUE constraints; any request
may break off (`BreakOff`). `Update` writes the row read before, with the Google
account that was in it, as `UserRepository.Update` does. An expired code is gone
(`Expire`).

`tokens` are the valid ones. `Refresh` issues a pair for the claims of an old token
and looks nobody up; `UpdateCurrency` is the one request here that needs a token. A
new row's currency is the empty string, which a `CHAR(3)` turns into three blanks
(`Unset`). `lost`, `crossed`, and the marks of a code other than `mailed`, are history.

`Directory` is what remains when each sign-in is one atomic step: sign up, link a
Google account, choose a currency. Its `PutBack` is the one thing a sign-in by code
may do that an atomic one could not: after a link has crossed it, it puts the old
Google account, or none, back.

Left out: names, pictures, `is_email_verified` (written by both sign-ins, read by
nobody); the default currency of a new group; signatures, in whose place a token is
one that was issued.

### Membership

One group (no statement touches two), any number of users, and `Workers` requests
at a time. A request is a record in `req[w]`; `step[w]` is the statement it
executes next, so checks (`RequireAdmin`, `TargetRole`, `CountAdmins`,
`FindGroup`) and writes of different requests interleave as the database lets
them. Every check may refuse and every statement may fail (`Fail`), which is also
what a caller that hangs up or a server that dies does to a request. The foreign
key, its cascade and `ON CONFLICT DO NOTHING` are in the writes.

`stale` is the set of requests that began before the last change of the roles by
somebody else; `raced` becomes true when one of them changes the roles itself. The
endpoints are right as long as that does not happen, and wrong once it does, and
the properties say exactly this: `AdminUnlessRaced`, and the refinement
`RosterSpec`, whose abstract operations are atomic, authorised by an admin of that
very moment, and never take the last admin away. `halfMade` marks a creation that
failed between its two statements.

A race has its limits too, and `Justified` states them without that exemption. `held`
and `spare` record, for each request in flight, whether its caller was an admin, and
its target not the only one, at some moment since it began (`Observe`, part of every
action that changes roles or requests). A request that is about to write has had
both: a role lost before it arrived never serves it, and an admin who was the only
one all the time is never removed or demoted.

Left out: reads that only answer; a new group's currency; the lookup
of the user to add (users are never deleted); validation of the request's text.

### Settle

`net` are the balances of all who ever had a share (they add up to zero), `listed`
the current members, of whom alone SimplifyDebts gets the balances. `Sort` picks
the first and the last entry of the sorted list (any of several equal ones, since
`sort.Slice` is not stable), `Settle` is one transfer, `Return` the end. The two
pointers of the code are `from` and `to`; when one member is listed alone they are
the same entry and the two updates cancel out, as in the code. Amounts are
unbounded integers: sums of real balances are far below 2^63.

### Splits and Ledger

`Splits` is `computeSplits`: `Shares(in, members)` is the set of results it may
have, empty where it refuses. It is a set because the order of the members is the
database's (the last one absorbs the remainder of an equal split) and the order of
a Go map decides which of several largest percentages absorbs the rounding.
`RoundDiv` is `math.Round` of an exact quotient, which the code's floats are for
amounts below 2^38. Sums of the request's shares or percentages, and the share that
absorbs the rounding, wrap as an int64 does, with `Modulus` for 2^64. A request's
numbers are in hundredths, and `ToMinor` converts them, percentages too, as the
handler does; that is done when the request begins, since no code changes the
currency of a group. `ToInt64` is Go's conversion of a float: what becomes of one
that is too large, `TooLarge`, is the platform's choice, the smallest int64 on
amd64 and the largest on arm64.

`Ledger` is one group. `step[w]` is the statement that worker `w` executes next:
`IsMember`, `GetCurrency` (with the validation of the amount after it),
`GetMembers` (with `computeSplits` after it) and the transaction, which is stored
(`Create`), refused by a constraint (`RolledBack`), or stored although the caller
is told otherwise (`CreateUnacknowledged`: the answer to COMMIT is lost). Any
statement may fail (`Fail`). `Join`, `Leave` and `DeleteGroup` are what the
endpoints of `Membership` do to the rows in between; the deletion cascades.
`NetBalance` and `GroupBalances` are the two queries, each with its own sums over
the rows it selects or joins; that they agree is part of `BalancesAddUp`.

`Ask` begins a request for the balances, which shares the two checks with
`CreateExpense` and ends in `GetBalances` or `GetMyBalance`. The former hands the
list to `SimplifyDebts`: one balance that is not zero keeps the goroutine in its
loop for ever (`Endless`, which is what `Settle` shows of the loop; not even a
caller who hangs up ends it), and no balance at all makes it panic, which the
Recover middleware turns into an error.

`push[id]` is the goroutine that the handler starts for an expense before it
answers. Its `context` is the worker whose request it belongs to, until that
request ends and net/http cancels it. Because echo keeps its contexts in a pool
and the goroutine asks for the request only when it runs, `Arrive`, with which every
request begins, may give a goroutine that has not run yet the context of a later one. A query is made in
time (`ReadBalances`), cut short with the rows read so far (`ReadCutShort`, in the
order of the query, the error being ignored), or not made at all
(`ReadCancelled`); `Broadcast` hands the result to the hub, whose part begins with
`Broadcast` of `Hub`. History is `touched` (who joined or left while a request
prepared its expense), `latest` (who read the balances last, if the members have not
changed since), and, of a request and its expense, the amount that the body asked
for (`wanted`) and its splits (`asked`).

Left out: overflow of sums over many expenses; queries that no code calls.

## 3. Model checking

| Run | Instance | States | What it shows |
|---|---|---|---|
| `hub` | 2 clients of one group, 2 groups, 2 broadcasts, all capacities 1 | 119 k | types; which histories lead to a panic; no loss in a room; `Hub` implements `Feed`; each pump brings the other one down; every broadcast is fanned out |
| `hub_evict` | 2 clients, 1 group, larger capacities | violation | an eviction makes the hub close a channel twice |
| `hub_stuck` | the same with an unregister channel of 1 | violation | the hub waits for itself |
| `membership` | 3 users, 2 requests at a time, any number in sequence, 2 fields | 0.9 M | an admin remains while nobody races; what a write, raced or not, rests on; implements `Roster` |
| `membership_race` | the same | violation | two admins leave, or remove or demote each other, at once |
| `settle` | 4 users, balances up to 4 units, any subset listed | 74 k | nobody overpays, all are even, few debts, minimal, returns |
| `settle_alone` | 3 users | violation | one member listed alone: the loop never ends |
| `ledger_splits` | 3 users and a stranger's id, 1 request, 1 expense, 551 bodies, USD and JPY, 16 bits | 170 k | the amount asked for is stored, shares add up and are fair, percentages are accepted, the two queries agree and balances add up |
| `ledger` | 2 users, 2 requests at a time, 2 expenses, failures | 3.6 M | types; who shares in an expense; when the last update is current; when a request for the balances never ends |
| `ledger_push` | the same with 1 expense and no failures | violation | an update without balances is sent as a full snapshot |
| `accounts` | 2 addresses, 1 Google account, 2 sign-ins at a time, 2 codes, failures | 3.3 M | types; what tokens name; which codes are accepted; an accepted code is served; implements `Directory` |
| `chat` | 2 connections of 2 users, 2 messages, a page of 1, failures | 1.7 M | broadcasts are stored; no gap; outsiders are kept out; when a message is dropped |

The bounds, and why they are enough for the cases that matter:

* `MaxPosts` (2) broadcasts with a send buffer of one: a client is found full by the
  second, and is unregistered by its own pump besides. Two clients are enough for
  one to stay while the other comes, goes or is evicted, and for two goroutines to
  wait for one place in a channel. A third broadcast, which may find a client full
  before its eviction is processed, and larger capacities are covered by the
  proofs, which hold for all of them. Each client connects once; a user who
  reconnects is another client.
* Two messages with a page of one are a message that is on the page and one that a
  later one has pushed off it; two connections are a sender and somebody who joins
  meanwhile. Requests end and are lent again without bound.
* Two sign-ins at a time, one after another without bound: any two of the four
  kinds (by code or with Google, first or later) overlap. One Google account that
  may present either address and two addresses make every conflict of the two
  UNIQUE columns; `MaxCodes` codes are one and the one that replaces it. Addresses
  and workers are symmetry sets.
* Two requests at a time give every pair of overlapping ones, one after another
  without bound; three users are two admins who race and a member who is left
  behind. The group is born once, ids being fresh.
* Four users allow two disjoint pairs that even out, which is where greedy choices
  could go wrong, and lists with up to three of four users that do not add up.
  `MaxAmount` bounds balances. `MaxDebts` bounds only how many debts are recorded,
  never the loop; a complete list needs fewer.
* Splits of up to three members: amounts that leave every remainder, amounts too
  small to divide, halves that round up and down, equal largest percentages, sums
  that just miss; with 16 bits, three exact shares and three percentages that wrap
  around, rounded shares that do, and amounts that are too large (`TooLarge` is the
  smallest integer here, the proofs cover the other choice). One request
  suffices there, and one body suffices for two requests side by side, where two
  expenses are two announcements that may cross, be cancelled or be given each
  other's context. `MaxExpenses` stops requests from beginning; members come and
  go without bound. Users no body names are interchangeable, and so are workers:
  both are symmetry sets.

**Fairness.** `hub`: a runnable goroutine runs, so while the fan-out has targets, or a
write pump something to do, a step of it is taken (weak fairness, one formula for the
fan-out, since it is one goroutine); `select` picks each ready case infinitely often
and goroutines blocked on a channel are served in their order, so a case or a send
that is enabled again and again is taken (strong fairness, of each case, and of
`ReadPump(c)`, the steps that a connection's read loop takes of itself one after the
other). Nothing is assumed of peers, timers, users or the shutdown, except that
reading from a connection closed on this side fails.
`settle`: a single goroutine keeps running.

The other properties are safety properties, which need no fairness.

**Deadlock** is checked for `Membership`. The hub may stop, panic or have nothing
left to do, `SimplifyDebts` returns, in `Ledger` and `Chat` nothing can happen to a
deleted group once the bound is reached, and in `Accounts` nobody need sign in
again: there it is switched off.

**Mutants.** Each property of a passing run is violated when one definition of its
module is replaced by the operator before it marked "Fault", a bug someone could
plausibly introduce.

### What the code does otherwise than its documentation says

* *An eviction can end the process* (`hub_evict`; `docs/websocket.md:164`). The
  hub closes the evicted client's channel; its write pump then closes the
  connection, its read pump fails and unregisters it again, and the second
  `close` panics. The passing run shows the converse, `DoubleCloseNeedsEviction`.
* *The hub can wait for itself* (`hub_stuck`; `docs/architecture.md:137`).
* *A group can lose its last admin* (`membership_race`; `docs/ROADMAP.md:100`).
* *SimplifyDebts may not return* (`settle_alone`; `balance.go:22-23`).
* *A balance update may be empty* (`ledger_push`; `docs/websocket.md:122`). The
  goroutine's query needs the request's context, which ends with the handler.

More that the premises of the passing properties delimit:

* A message that a goroutine saves after `ServeWS` has returned, which it does at
  once, is dropped without a word, unless the echo.Context happens to serve another
  request by then (`DroppedNeedsReturn`); `docs/websocket.md:67-69` says that it is
  saved and broadcast.
* A one-time code is "single-use" (`otp.go:72`) only once a request has deleted it:
  two that read it before both sign in, and a deletion that fails leaves it valid
  (`SpentStaysSpent`). The deletion may also take a newer code (`NewestCodeStands`).
* A Google account linked while a sign-in by code is under way is unlinked again
  (`PutBack` of `Directory`); linking overwrites an account linked before, which
  `docs/auth-flows.md` does not say.
* A user who has never chosen a currency cannot create a group without naming one,
  contrary to `docs/api.md:216` and `:227` and to `docs/ROADMAP.md:73`, `:75` and
  `:78`: the row was inserted with `''`, not with the column's default, a `CHAR(3)`
  makes three blanks of it, and these are neither empty nor supported
  (`group.go:77-87`). One expression, outside of the models.
* Two PATCHes of different fields of a group overwrite each other: each writes back
  every column of the copy it read (`group.go:187`). `FindGroup` and `UpdateRow` are
  two steps, so the model has this; no property excludes it.
* Of two expenses, the older snapshot of the balances may be broadcast last and
  stay with the clients; `LastUpdateCurrent` is about updates sent in the order of
  their reads. The one that follows an expense whose COMMIT was not acknowledged is
  never sent, and `LastUpdateCurrent` leaves these out too.
* A second first sign-in of one address is refused by the UNIQUE constraint although
  its code was right and is used up (`AcceptedIsServed` asks only for a user with the
  address, who is there).
* A client is told that it is connected before the hub has registered it; what is
  broadcast in between it neither gets nor finds in a history fetched earlier (`NoGap`
  begins with the registration). A member who is removed stays in the room.
* Where a number too large for an int64 is converted to the largest one (arm64), that
  is the amount stored (`AmountAsAsked`); on amd64 it is refused.
* A request for the balances of a group whose last member has a balance never ends
  (`EndlessNeedsDeparture` gives the converse).
* The hub also panics when it selects a registration after the unregistration
  that followed it (`SendOnClosedNeedsLateRegister`).
* The greedy choice is minimal for up to four members with a balance
  (`MinimalUpToFour`), not in general: of 5, 4, -4, -3, -2 it makes four
  transfers where three suffice.
* Percentages of an expense in yen are always refused, also the 60 and 40 of the
  example in `docs/expense-splitting.md`: they are scaled by the currency's factor
  of 1 and compared with 10000 (`PercentagesPass` excludes JPY).
* Percentages of a very small amount are refused by the table's CHECK, when
  rounding takes more from the largest share than it has (`PercentagesPass`).
* Three or more exact shares may add up to 2^64 more than the amount and be
  accepted (`SharesAddUp`), and three or more percentages to 2^64 more than 100 %
  (`FairShares` leaves them out), contrary to `docs/api.md:384`.
* After members left, the listed balances need not add up to zero
  (`BalancesAddUp`): these are the lists `settle_alone` is about.

## 4. Proofs

All for any number of clients, users, requests, capacities and amounts, from the
named assumptions of each module (finite sets of users, positive capacities, PATCH
bodies that map fields to values, JSON objects with finitely many integers (numbers in
hundredths), an even
width of the integers that holds 100 % in basis points, fewer users than half of
it, so that what n shares lose by rounding is an int64).

**HubProofs.** `HubTypeCorrect`; the type invariant needs `Fifo`, that the queued
broadcasts are the last ones posted. `HubDoubleClose` rests on `UnregisteredOnce`:
a client that is in the unregister channel or closed, and was not evicted, has been
unregistered by its read pump (`Gone`), and is in the channel at most once and not
once closed, so the pump's single Unregister is the only source; `CloseStep` is the
step that closes twice, whose client is therefore an evicted one. `HubSendOnClosed` rests on
`RoomsAreOpen`: a client in a room, or among the targets, with a closed channel is
one that was registered late.

**FeedProofs.** `HubNothingLost` and `HubImplementsFeed`, from one invariant,
`FlowInv`, about each client: what is in its send buffer is in order, of its group
and later than what it has got; and of the broadcasts Run has taken since it joined,
each of its group has been handed to it or is about to be, unless it was evicted or
its channel closed before. The properties alone are not inductive: they say nothing
of a broadcast that Run has taken for some clients and not yet for others, nor of
registrations still in the channel (`RegisteredOnce`).

**ChatProofs.** `ChatTypeCorrect`, `ChatBroadcastsAreStored`, `ChatNoGap`,
`ChatOutsidersSeeNothing`, `ChatDroppedNeedsReturn`, from one invariant: beside the
properties, `SavedFirst` (whoever is about to broadcast has saved, as long as the
group is there), `Admitted` (who is connected, or about to read the history, has
been a member), and `Returned` (a context that is cut or cancelled is one whose
request has ended).

**AccountsProofs.** Beside `TypeOK`, whose uniqueness of addresses and Google
accounts rests on the constraints alone, the invariant has `SignInsKnow`: what a
sign-in has in hand is still so where it matters, that is, a row once read is still
there with the address asked for, and the Google account it will write is the one
in the table unless a link has crossed it. `LastStands` strengthens the property about
the newest code. The theorems are `AccountsTypeCorrect`, `AccountsTokensNameUsers`,
`AccountsSpentStaysSpent`, `AccountsNewestCodeStands`, `AccountsAcceptedIsServed`, and
`AccountsImplementDirectory`, one lemma per write: a sign-up, a link, a choice, a
put-back, or a stutter.

**MembershipProofs.** `Shaped` says which requests may be at which statement. The
invariant `Inv` adds: only live groups have members (`Cascaded`); one request
creates the group and nobody is admitted before it is done (`Creation`, `Barren`);
and the heart, `Fresh`: unless requests have raced, what a request that is not
stale has checked (the caller is an admin, the target is not the only admin) is
still true. It is needed because `AdminUnlessRaced` alone says nothing of the
checks already made; it is inductive because a change of the roles makes every
other request in flight stale. `WriteRefines` then shows each write of a fresh
request to be an operation of `Roster`, `RosterKeepsAdmin` that these keep an
admin, and the theorems follow: `MembershipTypeCorrect`, `MembershipKeepsAdmin`,
`MembershipRefinesRoster`. `MembershipJustified` has an invariant of its own,
`Memory`: whose caller is an admin now is in `held`, and likewise `spare`
(`Observed`), and a request past its checks is in both as far as these checks go
(`Checked`). It needs no freshness, because what was once seen stays seen (`Kept`).

**SettleProofs.** `Picked` (the entries picked are the extremes) with
`NobodyOverpays` is inductive: with balances on both sides of zero at the start, no
balance ever crosses zero, so until the loop ends the least is a debt and the
greatest a credit. `SettleFewDebts` counts: each transfer makes one of the two
even, so a debt more is a member less. `SettleSettlesAll` follows from `SettledInv`:
every balance differs from its first value by the debts recorded (`Booked`), so the
sum of a complete list stays zero (`Balanced`); the loop ends when the least or the
greatest is zero (`Ended`), when all balances have one sign and, adding up to zero,
are zero. `LastDebt` says that the very last debt makes two members even at once,
which is one of two steps to `SettleMinimalUpToFour`: a list of up to four members
needs at most three debts, and fewer only if it falls into two pairs of opposite
balances. For these, `HalfAsMany`: as long as every balance has its opposite, the
least and the greatest are opposites, so each debt makes two members even.

**SumProofs.** Balances, debts and shares are sums over sets or functions,
`SumFunctionOnSet` of the community modules, for which the library has no theorem.
The induction it takes is over the subsets of a finite set; since the provers do not
instantiate theorems with an operator parameter, `ElementsInduction` is stated
first-order: a set of subsets that has the empty one, and with each the subsets of
one element more, has them all. From it follow what a sum is with an element more or
less, of a union, of a larger or a negated function, of a constant, and `SumByKey`:
rows may be added up by any key.

**LedgerProofs.** `TypeInv` adds to `TypeOK` that amounts are integers, and
positive once checked, which is what makes stored ones positive.
`LedgerSharedByMembers` needs `Checked`: a request past its check has a caller who is
a member or has been touched since. It is inductive because whoever joins or leaves is
touched in every request that prepares an expense (`SharedMoved`).
`LedgerLastUpdateCurrent` needs `LatestIsCurrent`: once no goroutine has yet to
read, the one that read last holds the balances as they are, or has sent them,
unless it was cut short or the members changed; a new expense breaks the premise,
because it brings a goroutine that has yet to read.

Its second part is about sums. `StoredInv` says that a request's numbers are int64s
(`Inputs`) and that the shares of a request about to be stored, and of every stored
expense, are what `computeSplits` made of the input for some members (`Computed`,
`Stored`); it is needed because the properties speak of the table and the results
come from a step long before, with other members. `AmountsInv` says of the amount, of
requests and of expenses, that it is the conversion of what the body had, and
`LedgerAmountAsAsked` follows by `ConversionError`: a positive result is off by half a
unit, or it is the platform's choice. The rest is arithmetic. For
`LedgerSharesAddUp`: an integer wraps around to one int64 only, so two shares that are
int64s and not negative cannot wrap to a positive amount. For `LedgerFairShares`:
rounding is off by at most half a unit (`RoundDivError`), so the share that absorbs
the rest is off by half a unit for each (`RestError`); and no other share was too
large for an int64, since the largest would be so too and together they would be more
than 100 %, none of the rest being negative (`OthersFit`, which is where the number
of users matters). For `LedgerPercentagesPass`: the largest percentage is at least the
n-th part of 100 %, which is enough for what the others round up
(`PercentagesSuffice`). `LedgerBalancesAddUp` shows that the two queries select the
same rows of a member (`QueriesAgree`), and counts each row of `expense_splits` whose debtor is not the payer twice, by payer and by debtor (`NetBalancesAddUp`);
`LedgerEndlessNeedsDeparture` follows, because a list of one member that adds up to
zero is zero.

**What is only model-checked.** The liveness properties `PumpsStop`,
`BroadcastsFannedOut` and `ReturnsUnlessAlone`, and the fairness of the
specifications, which the prover cannot treat. Every invariant and action property of
the passing runs, and each of the three refinements, is a theorem. `FairShares` and
`PercentagesPass` are, in the runs as in the proofs, about exact division; that a
float is as good below 2^38 is an argument outside of them.

## 5. Plan

The order was: the hub and its connections, group membership, debt simplification,
splits and the ledger; then sign-in and the users, the chat around the hub, and the
proofs that the hub loses nothing and implements `Feed`. These are done. What could
follow:

1. `Ledger` composed with `Feed` as `Chat` is, so that what is proved of the last
   update sent becomes a statement of the last update seen.
2. `Settle` composed with `Ledger`: that the lists `Ledger` produces are those that
   `Settle` starts from, so that what is proved of the transfers becomes a statement
   about the expenses.
3. In `Settle`, a measure that every transfer decreases, unless one member is listed
   alone: the part of `ReturnsUnlessAlone` that needs no fairness.

### Not modelled

Signing and parsing of tokens, configuration, wiring, the mailer, the JSON and the
text of requests, and endpoints that only list: single reads or pure I/O, without
steps that could go wrong in an order a model would find. The domain types are in
the modules that use them. Shutdown is modelled as far as the code has it: the
hub's context is cancelled, and any request may break off at any statement.
