------------------------------ MODULE Accounts ------------------------------
(***************************************************************************)
(* Sign-in: the one-time codes kept in Redis (internal/auth/otp.go), the   *)
(* Google sign-in (internal/auth/google.go), the users table               *)
(* (internal/repository/postgres/user.go), the token pairs                 *)
(* (internal/auth/jwt.go) and the currency a user prefers.  A sign-in is   *)
(* several calls to Redis and Postgres with no transaction around them:    *)
(* each call is an action of a worker, and two workers interleave.         *)
(***************************************************************************)
EXTENDS Naturals, Sequences

CONSTANTS Emails,      \* addresses
          Subs,        \* Google accounts
          Claims,      \* what a Google token can say: sub and email
          Currencies,  \* the supported ones
          Workers,     \* sign-ins in progress at the same time
          Failures,    \* a call to Redis or Postgres may fail
          MaxCodes     \* bound on the codes stored

NoSub == "null"        \* the NULL of google_sub

ASSUME AccountsAssumption ==
  /\ NoSub \notin Subs
  /\ Claims \subseteq [sub : Subs, email : Emails]
  /\ Failures \in BOOLEAN
  /\ MaxCodes \in Nat

\* What a CHAR(3) makes of the empty string Create inserts: three blanks.
Unset == "   "

VARIABLES otp,     \* otp[e]: the code under the key of e, 0 when there is none
          codes,   \* codes[n]: the n-th code stored: its address and what became of it
          users,   \* the rows of the table, in the order of their creation
          job,     \* job[w]: the sign-in the worker is at
          tokens,  \* the tokens that are valid
          lost,    \* history: the addresses whose last code has expired, or was
                   \* stored while a request was about to delete the key
          crossed  \* history: a Google sign-in has changed the account of a user
                   \* between a sign-in by code's read of it and its write

vars == <<otp, codes, users, job, tokens, lost, crossed>>

User == [email : Emails, sub : Subs \cup {NoSub}, currency : Currencies \cup {Unset}]

\* mailed: it is known to the owner of the address.  History: accepted: a request
\* found it stored; spent: such a request has deleted the key; failed: such a
\* request broke off.
Code == [email : Emails, mailed : BOOLEAN,
         accepted : BOOLEAN, spent : BOOLEAN, failed : BOOLEAN]

\* code is 0 in a sign-in with Google; sub is what the sign-in will write; user
\* is the row it has read, 0 for none.
Idle == [step |-> "idle"]
Request == [step : {"delete", "bySub", "byEmail", "create", "update"}, code : Nat,
            email : Emails, sub : Subs \cup {NoSub}, user : Nat]

Token == [kind : {"access", "refresh"}, user : Nat, email : Emails]

Init ==
  /\ otp = [e \in Emails |-> 0]
  /\ codes = <<>>
  /\ users = <<>>
  /\ job = [w \in Workers |-> Idle]
  /\ tokens = {}
  /\ lost = {}
  /\ crossed = FALSE

-----------------------------------------------------------------------------
(* The one-time codes.  A definition marked "Fault" is the one that follows *)
(* it with a bug seeded into it, which no specification uses.               *)

\* A fresh code overwrites any earlier one of the address.
SendEmailOTP(e) ==
  /\ Len(codes) < MaxCodes
  /\ codes' = Append(codes,
                  [email |-> e, mailed |-> FALSE,
                   accepted |-> FALSE, spent |-> FALSE, failed |-> FALSE])
  /\ otp' = [otp EXCEPT ![e] = Len(codes) + 1]
  /\ lost' = IF \E w \in Workers : job[w].step = "delete" /\ job[w].email = e
             THEN lost \cup {e} ELSE lost \ {e}
  /\ UNCHANGED <<users, job, tokens, crossed>>

\* Then it is mailed, if that does not fail: codes stored one after the other may
\* be mailed in another order.
MailOTP(n) ==
  /\ ~codes[n].mailed
  /\ codes' = [codes EXCEPT ![n].mailed = TRUE]
  /\ UNCHANGED <<otp, users, job, tokens, lost, crossed>>

Expire(e) ==
  /\ otp[e] # 0
  /\ otp' = [otp EXCEPT ![e] = 0]
  /\ lost' = lost \cup {e}
  /\ UNCHANGED <<codes, users, job, tokens, crossed>>

AnyStored(e, n) == otp[e] # 0                                     \* Fault
Matches(e, n) == otp[e] = n

\* The code is read and compared.  A request with any other is refused here.
VerifyEmailOTP(w, e, n) ==
  /\ job[w] = Idle /\ codes[n].mailed
  /\ Matches(e, n)
  /\ job' = [job EXCEPT ![w] = [step |-> "delete", code |-> n, email |-> e,
                                sub |-> NoSub, user |-> 0]]
  /\ codes' = [codes EXCEPT ![n].accepted = TRUE]
  /\ UNCHANGED <<otp, users, tokens, crossed, lost>>

LeftStored(e) == otp                                              \* Fault
KeyDeleted(e) == [otp EXCEPT ![e] = 0]

\* The key is deleted, whatever code it holds by now; an error is ignored.
DeleteOTP(w) ==
  /\ job[w].step = "delete"
  /\ job' = [job EXCEPT ![w].step = "byEmail"]
  /\ \/ /\ otp' = KeyDeleted(job[w].email)
        /\ codes' = [codes EXCEPT ![job[w].code].spent = TRUE]
     \/ Failures /\ UNCHANGED <<otp, codes>>
  /\ UNCHANGED <<users, tokens, crossed, lost>>

-----------------------------------------------------------------------------
(* The users *)

NullTaken(s, k) == \A j \in DOMAIN users \ {k} : users[j].sub # s  \* Fault

\* UNIQUE (google_sub) among the rows but k; NULLs are distinct.
SubFree(s, k) == s = NoSub \/ \A j \in DOMAIN users \ {k} : users[j].sub # s

EmailFree(e) == \A j \in DOMAIN users : users[j].email # e

\* The constraints on an INSERT.
LinkedOnce(w) == SubFree(job[w].sub, 0)                           \* Fault
Insertable(w) == EmailFree(job[w].email) /\ SubFree(job[w].sub, 0)

\* The tokens issued for the user a request has found or written.
Pair(k, e) == [kind : {"access", "refresh"}, user : {k}, email : {e}]
SignedInAsAsked(w, k) == tokens \cup Pair(k, job[w].email)         \* Fault
SignedIn(w, k) == tokens \cup Pair(k, users[k].email)

\* What the UPDATE makes of a row: not the address or the currency.
Written(w, k) == [users[k] EXCEPT !.sub = job[w].sub]

\* A sign-in by code writes back the Google account of the row.
NotRead(w, k) == job[w].sub                                       \* Fault
SubToWrite(w, k) == IF job[w].code = 0 THEN job[w].sub ELSE users[k].sub

LoginWithGoogle(w, c) ==
  /\ job[w] = Idle
  /\ job' = [job EXCEPT ![w] = [step |-> "bySub", code |-> 0, email |-> c.email,
                                sub |-> c.sub, user |-> 0]]
  /\ UNCHANGED <<otp, codes, users, tokens, crossed, lost>>

\* A user with the Google account is signed in as it is.  Any error counts as
\* "not found".
FindByGoogleSub(w) ==
  /\ job[w].step = "bySub"
  /\ \/ \E k \in DOMAIN users :
          /\ users[k].sub = job[w].sub
          /\ tokens' = SignedIn(w, k)
          /\ job' = [job EXCEPT ![w] = Idle]
     \/ /\ Failures \/ SubFree(job[w].sub, 0)
        /\ job' = [job EXCEPT ![w].step = "byEmail"]
        /\ UNCHANGED tokens
  /\ UNCHANGED <<otp, codes, users, crossed, lost>>

\* Any error counts as "not found".
FindByEmail(w) ==
  /\ job[w].step = "byEmail"
  /\ \/ \E k \in DOMAIN users :
          /\ users[k].email = job[w].email
          /\ job' = [job EXCEPT ![w].step = "update", ![w].user = k,
                                ![w].sub = SubToWrite(w, k)]
     \/ /\ Failures \/ EmailFree(job[w].email)
        /\ job' = [job EXCEPT ![w].step = "create"]
  /\ UNCHANGED <<otp, codes, users, tokens, crossed, lost>>

\* The INSERT, then the tokens; a sign-in whose row is refused ends without.
Create(w) ==
  /\ job[w].step = "create"
  /\ job' = [job EXCEPT ![w] = Idle]
  /\ IF Insertable(w)
     THEN /\ users' = Append(users, [email |-> job[w].email, sub |-> job[w].sub,
                                     currency |-> Unset])
          /\ tokens' = tokens \cup Pair(Len(users) + 1, job[w].email)
     ELSE UNCHANGED <<users, tokens>>
  /\ UNCHANGED <<otp, codes, crossed, lost>>

\* The UPDATE, then the tokens.
Update(w) ==
  /\ job[w].step = "update"
  /\ job' = [job EXCEPT ![w] = Idle]
  /\ LET k == job[w].user IN
     IF SubFree(job[w].sub, k)
     THEN /\ users' = [users EXCEPT ![k] = Written(w, k)]
          /\ tokens' = SignedIn(w, k)
          /\ crossed' = (crossed \/ (Written(w, k) # users[k] /\ job[w].code = 0 /\
               \E v \in Workers \ {w} :
                 job[v].step = "update" /\ job[v].user = k /\ job[v].code # 0))
     ELSE UNCHANGED <<users, tokens, crossed>>
  /\ UNCHANGED <<otp, codes, lost>>

\* A call fails, or the client goes away: the request ends without an answer.
BreakOff(w) ==
  /\ Failures
  /\ job[w] # Idle
  /\ job' = [job EXCEPT ![w] = Idle]
  /\ codes' = IF job[w].code = 0 THEN codes
              ELSE [codes EXCEPT ![job[w].code].failed = TRUE]
  /\ UNCHANGED <<otp, users, tokens, crossed, lost>>

-----------------------------------------------------------------------------
(* The tokens and the currency *)

\* Signed for the purpose and not expired; the users are not looked at.
JWTMiddleware(t) == t \in tokens /\ t.kind = "access"
ValidateRefreshToken(t) == t \in tokens /\ t.kind = "refresh"

\* A pair for the claims of the old token.
Refresh(t) ==
  /\ ValidateRefreshToken(t)
  /\ tokens' = tokens \cup Pair(t.user, t.email)
  /\ UNCHANGED <<otp, codes, users, job, crossed, lost>>

\* A refresh token that has expired is one that is not used any more: it may
\* stay in the set, where TokensNameUsers still asks for its user.
ExpireToken(t) ==
  /\ t \in tokens /\ t.kind = "access"
  /\ tokens' = tokens \ {t}
  /\ UNCHANGED <<otp, codes, users, job, crossed, lost>>

\* The UPDATE changes the row of the caller, if there is one.
UpdateCurrency(t, c) ==
  /\ JWTMiddleware(t)
  /\ users' = [k \in DOMAIN users |->
                 IF k = t.user THEN [users[k] EXCEPT !.currency = c] ELSE users[k]]
  /\ UNCHANGED <<otp, codes, job, tokens, crossed, lost>>

Next ==
  \/ \E e \in Emails :
       \/ SendEmailOTP(e)
       \/ Expire(e)
       \/ \E w \in Workers, n \in DOMAIN codes : VerifyEmailOTP(w, e, n)
  \/ \E n \in DOMAIN codes : MailOTP(n)
  \/ \E w \in Workers :
       \/ \E c \in Claims : LoginWithGoogle(w, c)
       \/ DeleteOTP(w)
       \/ FindByGoogleSub(w)
       \/ FindByEmail(w)
       \/ Create(w)
       \/ Update(w)
       \/ BreakOff(w)
  \/ \E t \in tokens :
       \/ Refresh(t)
       \/ ExpireToken(t)
       \/ \E c \in Currencies : UpdateCurrency(t, c)

Spec == Init /\ [][Next]_vars

-----------------------------------------------------------------------------
(* Properties *)

CodesOK ==
  /\ otp \in [Emails -> Nat]
  /\ codes \in Seq(Code)
  /\ \A e \in Emails : otp[e] # 0 => otp[e] \in DOMAIN codes /\ codes[otp[e]].email = e

UsersOK ==
  /\ users \in Seq(User)
  /\ \A j, k \in DOMAIN users :
       j # k => users[j].email # users[k].email /\ SubFree(users[j].sub, j)

JobsOK ==
  /\ job \in [Workers -> {Idle} \cup Request]
  /\ \A w \in Workers :
       /\ job[w] # Idle => job[w].code \in {0} \cup DOMAIN codes
       /\ job[w].step = "update" => job[w].user \in DOMAIN users

\* The state is well formed: a stored code is of the address it is stored
\* under, no two users share an address or a Google account, and a sign-in
\* writes to a user there is.
TypeOK ==
  /\ CodesOK
  /\ UsersOK
  /\ JobsOK
  /\ tokens \subseteq Token
  /\ lost \subseteq Emails
  /\ crossed \in BOOLEAN

\* A token names a user there is, and the address that user has: what GetMe and
\* the foreign keys on users(id) need of it, though neither Refresh nor the
\* middleware ever looks the user up (jwt.go:57, handler/auth.go:91).
TokensNameUsers ==
  \A t \in tokens : t.user \in DOMAIN users /\ users[t.user].email = t.email

\* Once a request that accepted a code has deleted the key, the code is never
\* stored again, so no later request is accepted with it (otp.go:72, "OTP is
\* single-use").  Until then any number of requests may be.
SpentStaysSpent ==
  \A n \in DOMAIN codes : codes[n].spent => otp[codes[n].email] # n

\* The last code stored for an address, whichever is mailed last, works until it
\* is used or expires, unless it was stored between the comparison and the
\* deletion of another request: that deletion takes whatever the key holds
\* (otp.go:50, 60, 73).
NewestCodeStands ==
  \A n \in DOMAIN codes :
    \/ \E m \in DOMAIN codes : m > n /\ codes[m].email = codes[n].email
    \/ codes[n].accepted
    \/ codes[n].email \in lost
    \/ otp[codes[n].email] = n

\* An accepted code leads to a user with its address, whichever of two first
\* sign-ins wins the INSERT, unless the request broke off (otp.go:75-98).
AcceptedIsServed ==
  \A n \in DOMAIN codes :
    \/ codes[n].accepted => codes[n].failed
    \/ \E k \in DOMAIN users : users[k].email = codes[n].email
    \/ \E w \in Workers : job[w] # Idle /\ job[w].code = n

\* The users change as the abstract directory says: the calls of a sign-in that
\* other requests overtake never create a second user, and a sign-in by code
\* takes a user's Google account away only if it crossed the link.
D == INSTANCE Directory
DirectorySpec == D!Spec
=============================================================================
