--------------------------- MODULE AccountsProofs ---------------------------
(***************************************************************************)
(* The properties of Accounts, for any number of addresses, Google         *)
(* accounts, codes and sign-ins at a time.  TypeOK is inductive; the       *)
(* others follow from Inv, which says what a sign-in in progress knows of  *)
(* the tables it read before.                                              *)
(***************************************************************************)
EXTENDS Accounts, TLAPS, SequenceTheorems

-----------------------------------------------------------------------------
(* Types *)

LEMMA Busy ==
  ASSUME TypeOK, NEW w \in Workers, job[w].step # "idle"
  PROVE  /\ job[w] \in Request
         /\ job[w] # Idle
         /\ job[w].code \in {0} \cup DOMAIN codes
BY DEF TypeOK, JobsOK, Idle, Request

LEMMA InitTypes == Init => TypeOK
<1> SUFFICES ASSUME Init PROVE TypeOK
  OBVIOUS
<1>1. CodesOK
  BY DEF Init, CodesOK
<1>2. UsersOK
  BY DEF Init, UsersOK
<1>3. JobsOK
  BY DEF Init, JobsOK, Idle
<1> QED
  BY <1>1, <1>2, <1>3 DEF Init, TypeOK

\* A worker moves on, and no table changes.
LEMMA MoveTypes ==
  ASSUME TypeOK, NEW w \in Workers, NEW j \in {Idle} \cup Request,
         job' = [job EXCEPT ![w] = j],
         j # Idle => j.code \in {0} \cup DOMAIN codes,
         j.step = "update" => j.user \in DOMAIN users,
         DOMAIN codes \subseteq DOMAIN codes', DOMAIN users \subseteq DOMAIN users'
  PROVE  JobsOK'
BY DEF TypeOK, JobsOK

LEMMA RowOf ==
  ASSUME NEW S, NEW s \in Seq(S), NEW k \in DOMAIN s
  PROVE  s[k] \in S /\ k \in Nat \ {0} /\ k \in 1 .. Len(s)
OBVIOUS

LEMMA CodeOf ==
  ASSUME TypeOK, NEW n \in DOMAIN codes
  PROVE  codes[n] \in Code /\ n \in Nat \ {0} /\ n \in 1 .. Len(codes)
BY RowOf DEF TypeOK, CodesOK

LEMMA UserOf ==
  ASSUME TypeOK, NEW k \in DOMAIN users
  PROVE  users[k] \in User /\ k \in Nat \ {0} /\ k \in 1 .. Len(users)
BY RowOf DEF TypeOK, UsersOK

\* A field of one code is set.
LEMMA CodeSet ==
  ASSUME NEW s \in Seq(Code), NEW n \in DOMAIN s, NEW d \in Code
  PROVE  /\ [s EXCEPT ![n] = d] \in Seq(Code)
         /\ DOMAIN [s EXCEPT ![n] = d] = DOMAIN s
         /\ \A m \in DOMAIN s : [s EXCEPT ![n] = d][m] = IF m = n THEN d ELSE s[m]
BY ExceptSeq, RowOf

LEMMA SendTypes ==
  ASSUME TypeOK, NEW e \in Emails, SendEmailOTP(e)
  PROVE  TypeOK'
<1> DEFINE c == [email |-> e, mailed |-> FALSE,
            accepted |-> FALSE, spent |-> FALSE, failed |-> FALSE]
<1>1. codes \in Seq(Code) /\ c \in Code /\ codes' = Append(codes, c)
  BY DEF TypeOK, CodesOK, Code, SendEmailOTP
<1>2. /\ codes' \in Seq(Code)
      /\ DOMAIN codes' = DOMAIN codes \cup {Len(codes) + 1}
      /\ Len(codes) + 1 \notin DOMAIN codes
      /\ codes'[Len(codes) + 1] = c
      /\ \A n \in DOMAIN codes : codes'[n] = codes[n]
  BY <1>1
<1>3. otp' = [otp EXCEPT ![e] = Len(codes) + 1] /\ Len(codes) \in Nat
  BY <1>1 DEF SendEmailOTP
<1>4. CodesOK'
  BY <1>2, <1>3 DEF TypeOK, CodesOK
<1>5. UsersOK' /\ UNCHANGED <<job, users, tokens, crossed>>
  BY DEF TypeOK, UsersOK, SubFree, SendEmailOTP
<1>6. JobsOK'
  BY <1>2, <1>5 DEF TypeOK, JobsOK
<1>7. lost' \subseteq Emails
  BY DEF TypeOK, SendEmailOTP
<1> QED
  BY <1>4, <1>5, <1>6, <1>7 DEF TypeOK

\* A step that changes neither the codes nor the users' rows.
LEMMA OtherTypes ==
  ASSUME TypeOK, CodesOK', UNCHANGED <<users, crossed>>, JobsOK',
         tokens' \subseteq Token, lost' \subseteq Emails
  PROVE  TypeOK'
BY DEF TypeOK, UsersOK, SubFree

LEMMA ExpireTypes ==
  ASSUME TypeOK, NEW e \in Emails, Expire(e)
  PROVE  TypeOK'
<1>1. CodesOK'
  BY DEF TypeOK, CodesOK, Expire
<1>2. JobsOK'
  BY DEF TypeOK, JobsOK, Expire
<1> QED
  BY <1>1, <1>2, OtherTypes DEF Expire, TypeOK

LEMMA MailTypes ==
  ASSUME TypeOK, NEW n \in DOMAIN codes, MailOTP(n)
  PROVE  TypeOK'
<1> DEFINE d == [codes[n] EXCEPT !.mailed = TRUE]
<1>1. d \in Code /\ d.email = codes[n].email
  BY CodeOf DEF Code
<1>2. codes \in Seq(Code) /\ codes' = [codes EXCEPT ![n] = d]
  BY DEF TypeOK, CodesOK, MailOTP
<1> HIDE DEF d
<1>3. /\ codes' \in Seq(Code) /\ DOMAIN codes' = DOMAIN codes
      /\ \A m \in DOMAIN codes : codes'[m].email = codes[m].email
  BY <1>1, <1>2, CodeSet
<1>4. CodesOK'
  BY <1>3 DEF TypeOK, CodesOK, MailOTP
<1>5. JobsOK'
  BY <1>3 DEF TypeOK, JobsOK, MailOTP
<1> QED
  BY <1>4, <1>5, OtherTypes DEF MailOTP, TypeOK

LEMMA VerifyTypes ==
  ASSUME TypeOK, NEW e \in Emails, NEW w \in Workers, NEW n \in DOMAIN codes,
         VerifyEmailOTP(w, e, n)
  PROVE  TypeOK'
<1> DEFINE d == [codes[n] EXCEPT !.accepted = TRUE]
<1>1. /\ codes \in Seq(Code) /\ d \in Code /\ d.email = codes[n].email
      /\ codes' = [codes EXCEPT ![n] = d]
  <2>1. d \in Code /\ d.email = codes[n].email
    BY CodeOf DEF Code
  <2> QED
    BY <2>1 DEF TypeOK, CodesOK, VerifyEmailOTP
<1>2. /\ codes' \in Seq(Code) /\ DOMAIN codes' = DOMAIN codes
      /\ \A m \in DOMAIN codes : codes'[m].email = codes[m].email
  BY <1>1, CodeSet
<1>3. CodesOK'
  BY <1>2 DEF TypeOK, CodesOK, VerifyEmailOTP
<1> DEFINE j == [step |-> "delete", code |-> n, email |-> e, sub |-> NoSub, user |-> 0]
<1>4. /\ job' = [job EXCEPT ![w] = j] /\ j \in Request /\ j.code \in DOMAIN codes
      /\ j.step # "update" /\ users' = users
  BY DEF TypeOK, CodesOK, Request, VerifyEmailOTP
<1> HIDE DEF d, j
<1>5. JobsOK'
  BY ONLY TypeOK, <1>2, <1>4, MoveTypes
<1> QED
  BY <1>3, <1>5, OtherTypes DEF VerifyEmailOTP, TypeOK

LEMMA DeleteTypes ==
  ASSUME TypeOK, NEW w \in Workers, DeleteOTP(w)
  PROVE  TypeOK'
<1>1. job[w] \in Request /\ job[w].code \in {0} \cup DOMAIN codes
  BY Busy DEF DeleteOTP
<1>2. /\ codes' \in Seq(Code) /\ DOMAIN codes' = DOMAIN codes
      /\ \A m \in DOMAIN codes : codes'[m].email = codes[m].email
  <2> DEFINE n == job[w].code
             d == [codes[n] EXCEPT !.spent = TRUE]
  <2>1. codes' = codes \/ codes' = [codes EXCEPT ![n] = d]
    BY DEF DeleteOTP
  <2>2. codes \in Seq(Code)
    BY DEF TypeOK, CodesOK
  <2>3. CASE n \in DOMAIN codes
    <3>1. d \in Code /\ d.email = codes[n].email
      BY <2>3, CodeOf DEF Code
    <3> HIDE DEF d, n
    <3> QED
      BY <2>1, <2>2, <2>3, <3>1, CodeSet
  <2>4. CASE n \notin DOMAIN codes
    BY <2>1, <2>2, <2>4
  <2> QED
    BY <2>3, <2>4
<1>3. otp' \in [Emails -> Nat] /\ \A e \in Emails : otp'[e] \in {0, otp[e]}
  <2>1. otp \in [Emails -> Nat]
    BY DEF TypeOK, CodesOK
  <2>2. otp' = otp \/ otp' = [otp EXCEPT ![job[w].email] = 0]
    BY DEF DeleteOTP, KeyDeleted
  <2> QED
    BY ONLY <2>1, <2>2
<1>4. CodesOK'
  BY <1>2, <1>3 DEF TypeOK, CodesOK
<1> DEFINE j == [job[w] EXCEPT !.step = "byEmail"]
<1>5. job' = [job EXCEPT ![w] = j] /\ j \in Request /\ j.code = job[w].code
      /\ j.step = "byEmail"
  BY <1>1 DEF TypeOK, JobsOK, Request, DeleteOTP
<1>6. JobsOK'
  BY <1>1, <1>2, <1>5, MoveTypes DEF DeleteOTP
<1> QED
  BY <1>4, <1>6, OtherTypes DEF DeleteOTP, TypeOK

LEMMA SignedInTypes ==
  ASSUME TypeOK, NEW w \in Workers, NEW k \in DOMAIN users
  PROVE  SignedIn(w, k) \subseteq Token
<1>1. k \in Nat /\ users[k].email \in Emails
  BY UserOf DEF User
<1> QED
  BY <1>1 DEF TypeOK, SignedIn, Pair, Token

LEMMA LoginTypes ==
  ASSUME TypeOK, NEW w \in Workers, NEW c \in Claims, LoginWithGoogle(w, c)
  PROVE  TypeOK'
<1> DEFINE j == [step |-> "bySub", code |-> 0, email |-> c.email, sub |-> c.sub, user |-> 0]
<1>1. job' = [job EXCEPT ![w] = j] /\ j \in Request
  BY AccountsAssumption DEF Request, LoginWithGoogle
<1>2. JobsOK'
  BY <1>1, MoveTypes DEF LoginWithGoogle
<1>3. CodesOK'
  BY DEF TypeOK, CodesOK, LoginWithGoogle
<1> QED
  BY <1>2, <1>3, OtherTypes DEF LoginWithGoogle, TypeOK

LEMMA FindByGoogleSubTypes ==
  ASSUME TypeOK, NEW w \in Workers, FindByGoogleSub(w)
  PROVE  TypeOK'
<1>1. job[w] \in Request /\ job[w].code \in {0} \cup DOMAIN codes
  BY Busy DEF FindByGoogleSub
<1> DEFINE j == [job[w] EXCEPT !.step = "byEmail"]
<1>2. j \in Request /\ j.code = job[w].code /\ j.step = "byEmail"
  BY <1>1 DEF Request
<1>3. job' = [job EXCEPT ![w] = j] \/ job' = [job EXCEPT ![w] = Idle]
  BY DEF TypeOK, JobsOK, FindByGoogleSub
<1>4. JobsOK'
  <2>1. CASE job' = [job EXCEPT ![w] = j]
    BY <1>1, <1>2, <2>1, MoveTypes DEF FindByGoogleSub
  <2>2. CASE job' = [job EXCEPT ![w] = Idle]
    BY <2>2, MoveTypes DEF FindByGoogleSub, Idle
  <2> QED
    BY <1>3, <2>1, <2>2
<1>5. CodesOK'
  BY DEF TypeOK, CodesOK, FindByGoogleSub
<1>6. tokens' \subseteq Token
  BY SignedInTypes DEF TypeOK, FindByGoogleSub
<1> QED
  BY <1>4, <1>5, <1>6, OtherTypes DEF FindByGoogleSub, TypeOK

LEMMA FindByEmailTypes ==
  ASSUME TypeOK, NEW w \in Workers, FindByEmail(w)
  PROVE  TypeOK'
<1>1. job[w] \in Request /\ job[w].code \in {0} \cup DOMAIN codes
  BY Busy DEF FindByEmail
<1>2. JobsOK'
  <2>1. CASE job' = [job EXCEPT ![w].step = "create"]
    <3> DEFINE j == [job[w] EXCEPT !.step = "create"]
    <3>1. job' = [job EXCEPT ![w] = j] /\ j \in Request /\ j.code = job[w].code
          /\ j.step = "create"
      BY <1>1, <2>1 DEF TypeOK, JobsOK, Request
    <3> QED
      BY <1>1, <3>1, MoveTypes DEF FindByEmail
  <2>2. ASSUME NEW k \in DOMAIN users,
               job' = [job EXCEPT ![w].step = "update", ![w].user = k,
                                  ![w].sub = SubToWrite(w, k)]
        PROVE  JobsOK'
    <3> DEFINE j == [job[w] EXCEPT !.step = "update", !.user = k, !.sub = SubToWrite(w, k)]
    <3>1. k \in Nat /\ SubToWrite(w, k) \in Subs \cup {NoSub}
      BY <1>1, UserOf DEF User, SubToWrite, Request
    <3>2. job' = [job EXCEPT ![w] = j]
      BY <2>2 DEF TypeOK, JobsOK
    <3>3. j \in Request /\ j.code = job[w].code /\ j.user = k
      BY <1>1, <3>1 DEF Request
    <3>4. users' = users /\ codes' = codes
      BY DEF FindByEmail
    <3> HIDE DEF j
    <3> QED
      BY <1>1, <3>2, <3>3, <3>4, MoveTypes
  <2> QED
    BY <2>1, <2>2 DEF FindByEmail
<1>3. CodesOK'
  BY DEF TypeOK, CodesOK, FindByEmail
<1> QED
  BY <1>2, <1>3, OtherTypes DEF FindByEmail, TypeOK

\* What a row that is written keeps unique.
LEMMA RowSet ==
  ASSUME TypeOK, NEW k \in DOMAIN users, NEW u \in User,
         u.email = users[k].email, SubFree(u.sub, k),
         users' = [users EXCEPT ![k] = u]
  PROVE  /\ UsersOK'
         /\ DOMAIN users' = DOMAIN users
         /\ \A j \in DOMAIN users : users'[j] = IF j = k THEN u ELSE users[j]
<1>1. users \in Seq(User) /\ k \in 1 .. Len(users)
  BY UserOf DEF TypeOK, UsersOK
<1>2. /\ users' \in Seq(User) /\ DOMAIN users' = DOMAIN users
      /\ \A j \in DOMAIN users : users'[j] = IF j = k THEN u ELSE users[j]
  BY <1>1, ExceptSeq
<1>3. ASSUME NEW i \in DOMAIN users', NEW j \in DOMAIN users', i # j
      PROVE  users'[i].email # users'[j].email
  BY <1>2, <1>3 DEF TypeOK, UsersOK
<1>4. ASSUME NEW i \in DOMAIN users', NEW j \in DOMAIN users', i # j
      PROVE  users'[i].sub = NoSub \/ users'[i].sub # users'[j].sub
  BY <1>2, <1>4 DEF TypeOK, UsersOK, SubFree
<1>5. UsersOK'
  BY <1>2, <1>3, <1>4 DEF UsersOK, SubFree
<1> QED
  BY <1>2, <1>5

LEMMA RowAdded ==
  ASSUME TypeOK, NEW u \in User, EmailFree(u.email), SubFree(u.sub, 0),
         users' = Append(users, u)
  PROVE  /\ UsersOK'
         /\ DOMAIN users' = DOMAIN users \cup {Len(users) + 1}
         /\ Len(users) + 1 \in Nat \ DOMAIN users
         /\ users'[Len(users) + 1] = u
         /\ \A j \in DOMAIN users : users'[j] = users[j]
<1>1. users \in Seq(User) /\ Len(users) \in Nat
  BY DEF TypeOK, UsersOK
<1>2. /\ users' \in Seq(User)
      /\ DOMAIN users' = DOMAIN users \cup {Len(users) + 1}
      /\ Len(users) + 1 \in Nat \ DOMAIN users
      /\ users'[Len(users) + 1] = u
      /\ \A j \in DOMAIN users : users'[j] = users[j]
  BY <1>1
<1>3. 0 \notin DOMAIN users
  BY <1>1
<1>4. ASSUME NEW i \in DOMAIN users', NEW j \in DOMAIN users', i # j
      PROVE  users'[i].email # users'[j].email
  BY <1>2, <1>4 DEF TypeOK, UsersOK, EmailFree
<1>5. ASSUME NEW i \in DOMAIN users', NEW j \in DOMAIN users', i # j
      PROVE  users'[i].sub = NoSub \/ users'[i].sub # users'[j].sub
  BY <1>2, <1>3, <1>5 DEF TypeOK, UsersOK, SubFree
<1>6. UsersOK'
  BY <1>2, <1>4, <1>5 DEF UsersOK, SubFree
<1> QED
  BY <1>2, <1>6

LEMMA EndTypes ==
  ASSUME TypeOK, NEW w \in Workers, job' = [job EXCEPT ![w] = Idle],
         DOMAIN codes \subseteq DOMAIN codes', DOMAIN users \subseteq DOMAIN users'
  PROVE  JobsOK'
BY MoveTypes DEF Idle

LEMMA CreateTypes ==
  ASSUME TypeOK, NEW w \in Workers, Create(w)
  PROVE  TypeOK'
<1>1. job[w] \in Request
  BY Busy DEF Create
<1>2. CodesOK'
  BY DEF TypeOK, CodesOK, Create
<1>3. CASE Insertable(w)
  <2> DEFINE u == [email |-> job[w].email, sub |-> job[w].sub, currency |-> Unset]
  <2>1. /\ u \in User /\ EmailFree(u.email) /\ SubFree(u.sub, 0)
        /\ users' = Append(users, u)
    BY <1>1, <1>3 DEF Create, Insertable, User, Request
  <2>2. UsersOK' /\ DOMAIN users \subseteq DOMAIN users' /\ Len(users) + 1 \in Nat
    BY <2>1, RowAdded
  <2>3. JobsOK'
    BY <2>2, EndTypes DEF Create
  <2>4. tokens' \subseteq Token
    BY <1>1, <1>3, <2>2 DEF Create, Pair, Token, Request, TypeOK
  <2> QED
    BY <1>2, <2>2, <2>3, <2>4 DEF TypeOK, Create
<1>4. CASE ~ Insertable(w)
  BY <1>2, <1>4, EndTypes, OtherTypes DEF Create, TypeOK
<1> QED
  BY <1>3, <1>4

LEMMA UpdateTypes ==
  ASSUME TypeOK, NEW w \in Workers, Update(w)
  PROVE  TypeOK'
<1> DEFINE k == job[w].user
<1>1. job[w] \in Request /\ k \in DOMAIN users
  BY Busy DEF Update, TypeOK, JobsOK
<1>2. CodesOK'
  BY DEF TypeOK, CodesOK, Update
<1>3. CASE SubFree(job[w].sub, k)
  <2> DEFINE u == Written(w, k)
  <2>1. /\ u \in User /\ u.email = users[k].email /\ SubFree(u.sub, k)
        /\ users' = [users EXCEPT ![k] = u]
    BY <1>1, <1>3, UserOf DEF Update, Written, User, Request
  <2> HIDE DEF u
  <2>2. UsersOK' /\ DOMAIN users \subseteq DOMAIN users'
    BY <1>1, <2>1, RowSet
  <2>3. JobsOK'
    BY <2>2, EndTypes DEF Update
  <2>4. tokens' \subseteq Token
    BY <1>1, <1>3, SignedInTypes DEF Update
  <2> QED
    BY <1>2, <1>3, <2>2, <2>3, <2>4 DEF TypeOK, Update
<1>4. CASE ~ SubFree(job[w].sub, k)
  BY <1>2, <1>4, EndTypes, OtherTypes DEF Update, TypeOK
<1> QED
  BY <1>3, <1>4

LEMMA BreakOffTypes ==
  ASSUME TypeOK, NEW w \in Workers, BreakOff(w)
  PROVE  TypeOK'
<1> DEFINE n == job[w].code
           d == [codes[n] EXCEPT !.failed = TRUE]
<1>1. /\ codes' \in Seq(Code) /\ DOMAIN codes' = DOMAIN codes
      /\ \A m \in DOMAIN codes : codes'[m].email = codes[m].email
  <2>1. codes' = codes \/ codes' = [codes EXCEPT ![n] = d]
    BY DEF BreakOff
  <2>2. codes \in Seq(Code)
    BY DEF TypeOK, CodesOK
  <2>3. CASE n \in DOMAIN codes
    <3>1. d \in Code /\ d.email = codes[n].email
      BY <2>3, CodeOf DEF Code
    <3> HIDE DEF d, n
    <3> QED
      BY <2>1, <2>2, <2>3, <3>1, CodeSet
  <2>4. CASE n \notin DOMAIN codes
    BY <2>1, <2>2, <2>4
  <2> QED
    BY <2>3, <2>4
<1>2. CodesOK'
  BY <1>1 DEF TypeOK, CodesOK, BreakOff
<1>3. JobsOK'
  BY <1>1, EndTypes DEF BreakOff
<1> QED
  BY <1>2, <1>3, OtherTypes DEF BreakOff, TypeOK

LEMMA TokenTypes ==
  ASSUME TypeOK, NEW t \in tokens, Refresh(t) \/ ExpireToken(t)
  PROVE  TypeOK'
<1>1. tokens' \subseteq Token
  BY DEF TypeOK, Refresh, ValidateRefreshToken, ExpireToken, Pair, Token
<1>2. CodesOK' /\ JobsOK'
  BY DEF TypeOK, CodesOK, JobsOK, Refresh, ExpireToken
<1> QED
  BY <1>1, <1>2, OtherTypes DEF Refresh, ExpireToken, TypeOK

LEMMA CurrencyTypes ==
  ASSUME TypeOK, NEW t \in tokens, NEW c \in Currencies, UpdateCurrency(t, c)
  PROVE  /\ TypeOK'
         /\ DOMAIN users' = DOMAIN users
         /\ \A j \in DOMAIN users :
              users'[j] = IF j = t.user THEN [users[j] EXCEPT !.currency = c] ELSE users[j]
<1>1. users \in Seq(User) /\ DOMAIN users = 1 .. Len(users) /\ Len(users) \in Nat
  BY DEF TypeOK, UsersOK
<1>2. /\ DOMAIN users' = DOMAIN users
      /\ \A j \in DOMAIN users :
           users'[j] = IF j = t.user THEN [users[j] EXCEPT !.currency = c] ELSE users[j]
  BY DEF UpdateCurrency
<1>3. \A j \in DOMAIN users : /\ users'[j] \in User
                              /\ users'[j].email = users[j].email
                              /\ users'[j].sub = users[j].sub
  BY <1>2, UserOf DEF User
<1>4. users' \in Seq(User)
  <2>1. users' \in [1 .. Len(users) -> User]
    BY <1>1, <1>2, <1>3 DEF UpdateCurrency
  <2> QED
    BY <1>1, <2>1
<1>5. UsersOK'
  BY <1>2, <1>3, <1>4 DEF TypeOK, UsersOK, SubFree
<1>6. CodesOK' /\ JobsOK'
  BY <1>2 DEF TypeOK, CodesOK, JobsOK, UpdateCurrency
<1> QED
  BY <1>2, <1>5, <1>6 DEF TypeOK, UpdateCurrency

LEMMA NextTypes == TypeOK /\ [Next]_vars => TypeOK'
<1> SUFFICES ASSUME TypeOK, [Next]_vars PROVE TypeOK'
  OBVIOUS
<1>1. CASE UNCHANGED vars
  BY <1>1 DEF vars, TypeOK, CodesOK, UsersOK, JobsOK, SubFree
<1>2. CASE Next
  BY <1>2, SendTypes, MailTypes, ExpireTypes, VerifyTypes, LoginTypes, DeleteTypes,
     FindByGoogleSubTypes, FindByEmailTypes, CreateTypes, UpdateTypes,
     BreakOffTypes, TokenTypes, CurrencyTypes DEF Next
<1> QED
  BY <1>1, <1>2

\* Type correctness: however many sign-ins overlap, no two users share an
\* address or a Google account, a stored code is of the address it is
\* stored under, and an UPDATE finds its row (otp.go, google.go, user.go).
THEOREM AccountsTypeCorrect == Spec => []TypeOK
<1> QED
  BY InitTypes, NextTypes, PTL DEF Spec

-----------------------------------------------------------------------------
(* What each step does to the rows of the two tables *)

LEMMA CreateEffect ==
  ASSUME TypeOK, NEW w \in Workers, Create(w), Insertable(w)
  PROVE  /\ DOMAIN users' = DOMAIN users \cup {Len(users) + 1}
         /\ Len(users) + 1 \in Nat \ DOMAIN users
         /\ users'[Len(users) + 1].email = job[w].email
         /\ users'[Len(users) + 1].sub = job[w].sub
         /\ users'[Len(users) + 1].currency = Unset
         /\ \A j \in DOMAIN users : users'[j] = users[j]
<1> DEFINE u == [email |-> job[w].email, sub |-> job[w].sub, currency |-> Unset]
<1>1. job[w] \in Request
  BY Busy DEF Create
<1>2. /\ u \in User /\ EmailFree(u.email) /\ SubFree(u.sub, 0)
      /\ users' = Append(users, u)
  BY <1>1 DEF Create, Insertable, User, Request
<1> HIDE DEF u
<1>3. /\ DOMAIN users' = DOMAIN users \cup {Len(users) + 1}
      /\ Len(users) + 1 \in Nat \ DOMAIN users
      /\ users'[Len(users) + 1] = u
      /\ \A j \in DOMAIN users : users'[j] = users[j]
  BY <1>2, RowAdded
<1> QED
  BY <1>3 DEF u

LEMMA UpdateEffect ==
  ASSUME TypeOK, NEW w \in Workers, Update(w)
  PROVE  LET k == job[w].user IN
         /\ k \in DOMAIN users /\ k \in Nat
         /\ DOMAIN users' = DOMAIN users
         /\ \A j \in DOMAIN users \ {k} : users'[j] = users[j]
         /\ users'[k] \in {users[k], [users[k] EXCEPT !.sub = job[w].sub]}
<1> DEFINE k == job[w].user
<1>1. k \in DOMAIN users /\ k \in Nat
  BY UserOf DEF Update, TypeOK, JobsOK
<1>2. users' = users \/ users' = [users EXCEPT ![k] = [users[k] EXCEPT !.sub = job[w].sub]]
  BY DEF Update, Written
<1> QED
  BY <1>1, <1>2

LEMMA SendEffect ==
  ASSUME TypeOK, NEW e \in Emails, SendEmailOTP(e)
  PROVE  /\ Len(codes) \in Nat
         /\ DOMAIN codes = 1 .. Len(codes)
         /\ DOMAIN codes' = DOMAIN codes \cup {Len(codes) + 1}
         /\ codes'[Len(codes) + 1].email = e
         /\ ~ codes'[Len(codes) + 1].accepted
         /\ ~ codes'[Len(codes) + 1].spent
         /\ \A n \in DOMAIN codes : codes'[n] = codes[n]
<1> DEFINE c == [email |-> e, mailed |-> FALSE,
            accepted |-> FALSE, spent |-> FALSE, failed |-> FALSE]
<1>1. codes \in Seq(Code) /\ c \in Code /\ codes' = Append(codes, c)
  BY DEF TypeOK, CodesOK, Code, SendEmailOTP
<1> HIDE DEF c
<1>2. /\ Len(codes) \in Nat
      /\ DOMAIN codes = 1 .. Len(codes)
      /\ DOMAIN codes' = DOMAIN codes \cup {Len(codes) + 1}
      /\ codes'[Len(codes) + 1] = c
      /\ \A n \in DOMAIN codes : codes'[n] = codes[n]
  BY <1>1
<1> QED
  BY <1>2 DEF c

CodesGrow ==
  /\ DOMAIN codes \subseteq DOMAIN codes'
  /\ \A n \in DOMAIN codes : /\ codes'[n].email = codes[n].email
                             /\ codes[n].accepted => codes'[n].accepted
                             /\ codes[n].failed => codes'[n].failed

UsersGrow ==
  /\ DOMAIN users \subseteq DOMAIN users'
  /\ \A k \in DOMAIN users : users'[k].email = users[k].email

LEMMA Grow ==
  ASSUME TypeOK, [Next]_vars
  PROVE  CodesGrow /\ UsersGrow
<1> USE DEF CodesGrow, UsersGrow
<1>1. CASE UNCHANGED vars
  BY <1>1 DEF vars
<1>2. ASSUME NEW e \in Emails, SendEmailOTP(e)
      PROVE  CodesGrow /\ UsersGrow
  BY <1>2, SendEffect DEF SendEmailOTP
<1>3. ASSUME NEW e \in Emails, Expire(e)
      PROVE  CodesGrow /\ UsersGrow
  BY <1>3 DEF Expire
<1>4. ASSUME NEW e \in Emails, NEW w \in Workers, NEW n \in DOMAIN codes,
             VerifyEmailOTP(w, e, n)
      PROVE  CodesGrow /\ UsersGrow
  BY <1>4, CodeOf DEF VerifyEmailOTP, Code
<1>5. ASSUME NEW w \in Workers, DeleteOTP(w)
      PROVE  CodesGrow /\ UsersGrow
  BY <1>5, CodeOf DEF DeleteOTP, Code
<1>6. ASSUME NEW w \in Workers, BreakOff(w)
      PROVE  CodesGrow /\ UsersGrow
  BY <1>6, CodeOf DEF BreakOff, Code
<1>7. ASSUME NEW w \in Workers,
             FindByGoogleSub(w) \/ FindByEmail(w) \/ \E c \in Claims : LoginWithGoogle(w, c)
      PROVE  CodesGrow /\ UsersGrow
  BY <1>7 DEF FindByGoogleSub, FindByEmail, LoginWithGoogle
<1>8. ASSUME NEW w \in Workers, Create(w)
      PROVE  CodesGrow /\ UsersGrow
  BY <1>8, CreateEffect DEF Create
<1>9. ASSUME NEW w \in Workers, Update(w)
      PROVE  CodesGrow /\ UsersGrow
  <2>1. \A k \in DOMAIN users : users[k] \in User
    BY UserOf
  <2> DEFINE k == job[w].user
  <2>2. /\ k \in DOMAIN users /\ DOMAIN users' = DOMAIN users
        /\ \A j \in DOMAIN users \ {k} : users'[j] = users[j]
        /\ users'[k] \in {users[k], [users[k] EXCEPT !.sub = job[w].sub]}
    BY <1>9, UpdateEffect
  <2>3. \A j \in DOMAIN users : users'[j].email = users[j].email
    BY <2>1, <2>2 DEF User
  <2>4. codes' = codes
    BY <1>9 DEF Update
  <2> QED
    BY <2>2, <2>3, <2>4
<1>10. ASSUME NEW t \in tokens, Refresh(t) \/ ExpireToken(t)
       PROVE  CodesGrow /\ UsersGrow
  BY <1>10 DEF Refresh, ExpireToken
<1>11. ASSUME NEW t \in tokens, NEW c \in Currencies, UpdateCurrency(t, c)
       PROVE  CodesGrow /\ UsersGrow
  <2>1. \A k \in DOMAIN users : users[k] \in User
    BY UserOf
  <2>2. /\ DOMAIN users' = DOMAIN users
        /\ \A j \in DOMAIN users :
             users'[j] = IF j = t.user THEN [users[j] EXCEPT !.currency = c] ELSE users[j]
    BY <1>11, CurrencyTypes
  <2>3. \A j \in DOMAIN users : users'[j].email = users[j].email
    BY <2>1, <2>2 DEF User
  <2>4. codes' = codes
    BY <1>11 DEF UpdateCurrency
  <2> QED
    BY <2>2, <2>3, <2>4
<1>12. ASSUME NEW n \in DOMAIN codes, MailOTP(n)
       PROVE  CodesGrow /\ UsersGrow
  BY <1>12, CodeOf DEF MailOTP, Code
<1> QED
  BY <1>1, <1>2, <1>3, <1>4, <1>5, <1>6, <1>7, <1>8, <1>9, <1>10, <1>11, <1>12 DEF Next

-----------------------------------------------------------------------------
(* What a sign-in in progress knows of the rows it has read *)

SignInKnows(w) ==
  /\ job[w].code # 0 =>
       /\ codes[job[w].code].email = job[w].email
       /\ codes[job[w].code].accepted
       /\ job[w].step # "update" => job[w].sub = NoSub
       /\ job[w].step # "bySub"
  /\ job[w].code = 0 => job[w].sub \in Subs /\ job[w].step # "delete"
  /\ job[w].step = "update" =>
       /\ users[job[w].user].email = job[w].email
       /\ job[w].code # 0 /\ ~ crossed => job[w].sub = users[job[w].user].sub

SignInsKnow == \A w \in Workers : job[w] # Idle => SignInKnows(w)

\* A step of v leaves the knowledge of the others true.
LEMMA OthersKnow ==
  ASSUME TypeOK, SignInsKnow, CodesGrow, UsersGrow,
         NEW w \in Workers, job[w] # Idle, job'[w] = job[w],
         \/ crossed'
         \/ crossed' = crossed /\ \A k \in DOMAIN users : users'[k].sub = users[k].sub
         \/ ~ (job[w].step = "update" /\ job[w].code # 0)
  PROVE  SignInKnows(w)'
<1>1. /\ job[w] \in Request /\ SignInKnows(w) /\ job[w].code \in {0} \cup DOMAIN codes
      /\ job[w].step = "update" => job[w].user \in DOMAIN users
  BY DEF TypeOK, JobsOK, SignInsKnow
<1>2. job[w].code # 0 => /\ codes'[job[w].code].email = job[w].email
                         /\ codes'[job[w].code].accepted
  BY <1>1 DEF SignInKnows, CodesGrow
<1>3. job[w].step = "update" => users'[job[w].user].email = job[w].email
  BY <1>1 DEF SignInKnows, UsersGrow
<1>4. job[w].step = "update" /\ job[w].code # 0 /\ ~ crossed'
        => job[w].sub = users'[job[w].user].sub
  BY <1>1 DEF SignInKnows
<1> QED
  BY <1>1, <1>2, <1>3, <1>4 DEF SignInKnows

\* A step of w that changes no row's Google account.
LEMMA MoveKnows ==
  ASSUME TypeOK, SignInsKnow, CodesGrow, UsersGrow,
         NEW v \in Workers, NEW j, job' = [job EXCEPT ![v] = j],
         j # Idle => SignInKnows(v)',
         crossed' = crossed, \A k \in DOMAIN users : users'[k].sub = users[k].sub
  PROVE  SignInsKnow'
<1> SUFFICES ASSUME NEW w \in Workers, job'[w] # Idle PROVE SignInKnows(w)'
  BY DEF SignInsKnow
<1>1. CASE w = v
  BY <1>1 DEF TypeOK, JobsOK
<1>2. CASE w # v
  <2>1. job'[w] = job[w]
    BY <1>2 DEF TypeOK, JobsOK
  <2> QED
    BY <2>1, OthersKnow
<1> QED
  BY <1>1, <1>2

LEMMA StillKnow ==
  ASSUME TypeOK, SignInsKnow, CodesGrow, UsersGrow, UNCHANGED <<job, crossed>>,
         \A k \in DOMAIN users : users'[k].sub = users[k].sub
  PROVE  SignInsKnow'
BY OthersKnow DEF SignInsKnow

LEMMA VerifyKnows ==
  ASSUME TypeOK, SignInsKnow, NEW e \in Emails, NEW w \in Workers, NEW n \in DOMAIN codes,
         VerifyEmailOTP(w, e, n), CodesGrow, UsersGrow
  PROVE  SignInsKnow'
<1> DEFINE j == [step |-> "delete", code |-> n, email |-> e, sub |-> NoSub, user |-> 0]
<1>1. job' = [job EXCEPT ![w] = j] /\ job'[w] = j
  BY DEF VerifyEmailOTP, TypeOK, JobsOK
<1>2. n # 0 /\ codes[n].email = e
  BY CodeOf DEF VerifyEmailOTP, Matches, TypeOK, CodesOK
<1>3. codes'[n].accepted /\ codes'[n].email = e
  <2>1. codes[n] \in Code
    BY CodeOf
  <2> QED
    BY <1>2, <2>1 DEF VerifyEmailOTP, Code
<1>4. SignInKnows(w)'
  BY <1>1, <1>2, <1>3 DEF SignInKnows
<1> QED
  BY <1>1, <1>4, MoveKnows DEF VerifyEmailOTP

LEMMA DeleteKnows ==
  ASSUME TypeOK, SignInsKnow, NEW w \in Workers, DeleteOTP(w), CodesGrow, UsersGrow
  PROVE  SignInsKnow'
<1> DEFINE j == [job[w] EXCEPT !.step = "byEmail"]
<1>1. job[w] \in Request /\ SignInKnows(w) /\ job[w].code \in {0} \cup DOMAIN codes
  BY Busy DEF DeleteOTP, SignInsKnow
<1>2. job' = [job EXCEPT ![w] = j] /\ job'[w] = j
  BY DEF DeleteOTP, TypeOK, JobsOK
<1>3. /\ job[w].code # 0
      /\ codes'[job[w].code].accepted /\ codes'[job[w].code].email = job[w].email
      /\ job[w].sub = NoSub
  BY <1>1 DEF SignInKnows, CodesGrow, DeleteOTP
<1>4. /\ j.step = "byEmail" /\ j.code = job[w].code /\ j.email = job[w].email
      /\ j.sub = job[w].sub
  BY <1>1 DEF Request
<1>5. SignInKnows(w)'
  BY <1>2, <1>3, <1>4 DEF SignInKnows
<1> QED
  BY <1>2, <1>5, MoveKnows DEF DeleteOTP

LEMMA LoginKnows ==
  ASSUME TypeOK, SignInsKnow, NEW w \in Workers, NEW c \in Claims,
         LoginWithGoogle(w, c), CodesGrow, UsersGrow
  PROVE  SignInsKnow'
<1> DEFINE j == [step |-> "bySub", code |-> 0, email |-> c.email, sub |-> c.sub, user |-> 0]
<1>1. job' = [job EXCEPT ![w] = j] /\ job'[w] = j /\ c.sub \in Subs
  BY AccountsAssumption DEF LoginWithGoogle, TypeOK, JobsOK
<1>2. SignInKnows(w)'
  BY <1>1 DEF SignInKnows
<1> QED
  BY <1>1, <1>2, MoveKnows DEF LoginWithGoogle

LEMMA FindByGoogleSubKnows ==
  ASSUME TypeOK, SignInsKnow, NEW w \in Workers, FindByGoogleSub(w),
         CodesGrow, UsersGrow
  PROVE  SignInsKnow'
<1> DEFINE j == [job[w] EXCEPT !.step = "byEmail"]
<1>1. job[w] \in Request /\ SignInKnows(w)
  BY Busy DEF FindByGoogleSub, SignInsKnow
<1>2. CASE job' = [job EXCEPT ![w] = Idle]
  BY <1>2, MoveKnows DEF FindByGoogleSub
<1>3. CASE job' = [job EXCEPT ![w] = j]
  <2>1. job'[w] = j /\ j.step = "byEmail" /\ j.code = job[w].code /\ j.sub = job[w].sub
    BY <1>1, <1>3 DEF Request, TypeOK, JobsOK
  <2>2. SignInKnows(w)'
    BY <1>1, <2>1 DEF SignInKnows, FindByGoogleSub
  <2> QED
    BY <1>3, <2>2, MoveKnows DEF FindByGoogleSub
<1> QED
  BY <1>2, <1>3 DEF FindByGoogleSub, TypeOK, JobsOK

LEMMA FindByEmailKnows ==
  ASSUME TypeOK, SignInsKnow, NEW w \in Workers, FindByEmail(w), CodesGrow, UsersGrow
  PROVE  SignInsKnow'
<1>1. job[w] \in Request /\ SignInKnows(w) /\ job[w].code \in {0} \cup DOMAIN codes
  BY Busy DEF FindByEmail, SignInsKnow
<1>2. UNCHANGED <<codes, users, crossed>>
  BY DEF FindByEmail
<1>3. CASE job' = [job EXCEPT ![w].step = "create"]
  <2> DEFINE j == [job[w] EXCEPT !.step = "create"]
  <2>1. /\ job' = [job EXCEPT ![w] = j] /\ job'[w] = j /\ j.step = "create"
        /\ j.code = job[w].code /\ j.sub = job[w].sub /\ j.email = job[w].email
    BY <1>1, <1>3 DEF Request, TypeOK, JobsOK
  <2>2. SignInKnows(w)'
    BY <1>1, <1>2, <2>1 DEF SignInKnows, FindByEmail
  <2> QED
    BY <1>2, <2>1, <2>2, MoveKnows
<1>4. ASSUME NEW k \in DOMAIN users, users[k].email = job[w].email,
             job' = [job EXCEPT ![w].step = "update", ![w].user = k,
                                ![w].sub = SubToWrite(w, k)]
      PROVE  SignInsKnow'
  <2> DEFINE j == [job[w] EXCEPT !.step = "update", !.user = k, !.sub = SubToWrite(w, k)]
  <2>1. job' = [job EXCEPT ![w] = j] /\ job'[w] = j
    BY <1>4 DEF TypeOK, JobsOK
  <2>2. /\ j.step = "update" /\ j.code = job[w].code /\ j.email = job[w].email
        /\ j.user = k /\ j.sub = SubToWrite(w, k)
    BY <1>1 DEF Request
  <2>3. /\ job[w].code # 0 => j.sub = users[k].sub
        /\ job[w].code = 0 => j.sub = job[w].sub
    BY <2>2 DEF SubToWrite
  <2> HIDE DEF j
  <2>4. SignInKnows(w)'
    BY <1>1, <1>2, <1>4, <2>1, <2>2, <2>3 DEF SignInKnows
  <2> QED
    BY <1>2, <2>1, <2>4, MoveKnows
<1> QED
  BY <1>3, <1>4 DEF FindByEmail

LEMMA CreateKnows ==
  ASSUME TypeOK, SignInsKnow, NEW w \in Workers, Create(w), CodesGrow, UsersGrow
  PROVE  SignInsKnow'
<1>1. \A k \in DOMAIN users : users'[k].sub = users[k].sub
  BY CreateEffect DEF Create
<1> QED
  BY <1>1, MoveKnows DEF Create

\* When a sign-in with Google changes the account of a user that a sign-in by
\* code has read, the two have crossed.
LEMMA UpdateKnows ==
  ASSUME TypeOK, SignInsKnow, NEW v \in Workers, Update(v), CodesGrow, UsersGrow
  PROVE  SignInsKnow'
<1> DEFINE k == job[v].user
<1>1. /\ k \in DOMAIN users
      /\ \A j \in DOMAIN users \ {k} : users'[j] = users[j]
      /\ users' # users => users'[k] = Written(v, k)
  BY UpdateEffect DEF Update, TypeOK, JobsOK, UsersOK
<1>2. SignInKnows(v) /\ job[v].step = "update" /\ users[k] \in User
  BY <1>1, Busy, UserOf DEF Update, SignInsKnow
<1> SUFFICES ASSUME NEW w \in Workers, job'[w] # Idle PROVE SignInKnows(w)'
  BY DEF SignInsKnow
<1>3. w # v /\ job'[w] = job[w]
  BY DEF Update, TypeOK, JobsOK
<1>4. CASE crossed' \/ ~ (job[w].step = "update" /\ job[w].code # 0)
  BY <1>3, <1>4, OthersKnow
<1>5. CASE ~ crossed' /\ job[w].step = "update" /\ job[w].code # 0
  <2>1. crossed' = crossed /\ ~ crossed
    BY <1>5 DEF Update, TypeOK
  <2>2. users'[k].sub = users[k].sub \/ (job[w].user # k /\ job[v].code = 0)
    <3>1. CASE users' = users
      BY <3>1
    <3>2. CASE users' # users /\ job[v].code # 0
      BY <1>1, <1>2, <2>1, <3>2 DEF SignInKnows, Written, User
    <3>3. CASE users' # users /\ job[v].code = 0
      <4>1. Written(v, k) # users[k]
        <5>1. users' = [users EXCEPT ![k] = Written(v, k)]
          BY <3>3 DEF Update
        <5>2. CASE Written(v, k) = users[k]
          <6>1. users' = users
            BY <5>1, <5>2, <1>1 DEF TypeOK, UsersOK
          <6> QED
            BY <3>3, <6>1
        <5> QED
          BY <5>2
      <4> QED
        BY <1>3, <1>5, <3>3, <4>1, <2>1 DEF Update
    <3> QED
      BY <3>1, <3>2, <3>3
  <2>3. CASE users'[k].sub = users[k].sub
    BY <1>1, <1>3, <2>1, <2>3, OthersKnow
  <2>4. CASE job[w].user # k
    <3>1. SignInKnows(w) /\ job[w].user \in DOMAIN users
      BY <1>3, <1>5 DEF SignInsKnow, TypeOK, JobsOK
    <3>2. users'[job[w].user] = users[job[w].user]
      BY <1>1, <2>4, <3>1
    <3>3. /\ codes'[job[w].code].email = job[w].email
          /\ codes'[job[w].code].accepted
      BY <3>1, <1>5 DEF SignInKnows, Update
    <3> QED
      BY <1>3, <1>5, <2>1, <3>1, <3>2, <3>3 DEF SignInKnows
  <2> QED
    BY <2>2, <2>3, <2>4
<1> QED
  BY <1>4, <1>5 DEF Update, TypeOK

LEMMA BreakOffKnows ==
  ASSUME TypeOK, SignInsKnow, NEW w \in Workers, BreakOff(w), CodesGrow, UsersGrow
  PROVE  SignInsKnow'
BY MoveKnows DEF BreakOff

LEMMA CurrencyKnows ==
  ASSUME TypeOK, SignInsKnow, NEW t \in tokens, NEW c \in Currencies,
         UpdateCurrency(t, c), CodesGrow, UsersGrow
  PROVE  SignInsKnow'
<1>1. \A j \in DOMAIN users : users[j] \in User
  BY UserOf
<1>2. \A j \in DOMAIN users :
        users'[j] = IF j = t.user THEN [users[j] EXCEPT !.currency = c] ELSE users[j]
  BY CurrencyTypes
<1>3. \A j \in DOMAIN users : users'[j].sub = users[j].sub
  BY <1>1, <1>2 DEF User
<1> QED
  BY <1>3, StillKnow DEF UpdateCurrency

LEMMA NextKnows == TypeOK /\ SignInsKnow /\ [Next]_vars => SignInsKnow'
<1> SUFFICES ASSUME TypeOK, SignInsKnow, [Next]_vars PROVE SignInsKnow'
  OBVIOUS
<1>1. CodesGrow /\ UsersGrow
  BY Grow
<1>2. CASE UNCHANGED vars
  BY <1>1, <1>2, StillKnow DEF vars
<1>3. ASSUME NEW e \in Emails, SendEmailOTP(e) \/ Expire(e)
      PROVE  SignInsKnow'
  BY <1>1, <1>3, StillKnow DEF SendEmailOTP, Expire
<1>4. ASSUME NEW t \in tokens, Refresh(t) \/ ExpireToken(t)
      PROVE  SignInsKnow'
  BY <1>1, <1>4, StillKnow DEF Refresh, ExpireToken
<1>5. ASSUME NEW n \in DOMAIN codes, MailOTP(n)
      PROVE  SignInsKnow'
  BY <1>1, <1>5, StillKnow DEF MailOTP
<1>6. CASE Next
  BY <1>1, <1>3, <1>4, <1>5, <1>6, VerifyKnows, DeleteKnows, LoginKnows,
     FindByGoogleSubKnows, FindByEmailKnows, CreateKnows, UpdateKnows,
     BreakOffKnows, CurrencyKnows DEF Next
<1> QED
  BY <1>2, <1>6

-----------------------------------------------------------------------------
(* The tokens *)

LEMMA NextTokens ==
  ASSUME TypeOK, SignInsKnow, TokensNameUsers, [Next]_vars
  PROVE  TokensNameUsers'
<1>1. UsersGrow
  BY Grow
<1>2. SUFFICES ASSUME NEW t \in tokens', t \notin tokens
               PROVE  t.user \in DOMAIN users' /\ users'[t.user].email = t.email
  BY <1>1 DEF TokensNameUsers, UsersGrow
<1>3. ASSUME NEW w \in Workers, NEW k \in DOMAIN users, tokens' = SignedIn(w, k)
      PROVE  t.user \in DOMAIN users' /\ users'[t.user].email = t.email
  BY <1>1, <1>2, <1>3 DEF SignedIn, Pair, UsersGrow
<1>4. ASSUME NEW w \in Workers, FindByGoogleSub(w)
      PROVE  t.user \in DOMAIN users' /\ users'[t.user].email = t.email
  BY <1>2, <1>3, <1>4 DEF FindByGoogleSub
<1>5. ASSUME NEW w \in Workers, Create(w)
      PROVE  t.user \in DOMAIN users' /\ users'[t.user].email = t.email
  <2>1. Insertable(w) /\ t \in Pair(Len(users) + 1, job[w].email)
    BY <1>2, <1>5 DEF Create
  <2>2. t.user = Len(users) + 1 /\ t.email = job[w].email
    BY <2>1 DEF Pair
  <2> QED
    BY <1>5, <2>1, <2>2, CreateEffect
<1>6. ASSUME NEW w \in Workers, Update(w)
      PROVE  t.user \in DOMAIN users' /\ users'[t.user].email = t.email
  BY <1>2, <1>3, <1>6 DEF Update, TypeOK, JobsOK
<1>7. ASSUME NEW r \in tokens, Refresh(r)
      PROVE  t.user \in DOMAIN users' /\ users'[t.user].email = t.email
  <2>1. t.user = r.user /\ t.email = r.email /\ users' = users
    BY <1>2, <1>7 DEF Refresh, ValidateRefreshToken, Pair
  <2> QED
    BY <2>1 DEF TokensNameUsers
<1>8. CASE UNCHANGED vars
  BY <1>2, <1>8 DEF vars
<1>9. CASE Next
  BY <1>2, <1>4, <1>5, <1>6, <1>7, <1>9 DEF Next, SendEmailOTP, MailOTP, Expire,
     VerifyEmailOTP, LoginWithGoogle, DeleteOTP, FindByEmail, BreakOff, ExpireToken, UpdateCurrency
<1> QED
  BY <1>8, <1>9

-----------------------------------------------------------------------------
(* The codes *)

OnlyChanges(n, accepted, spent, failed) ==
  /\ DOMAIN codes' = DOMAIN codes
  /\ \A m \in DOMAIN codes :
       /\ codes'[m].email = codes[m].email
       /\ codes'[m].accepted = IF m = n /\ accepted THEN TRUE ELSE codes[m].accepted
       /\ codes'[m].spent = IF m = n /\ spent THEN TRUE ELSE codes[m].spent
       /\ codes'[m].failed = IF m = n /\ failed THEN TRUE ELSE codes[m].failed

LEMMA FieldSet ==
  ASSUME TypeOK, NEW n \in DOMAIN codes
  PROVE  /\ codes' = [codes EXCEPT ![n].accepted = TRUE] => OnlyChanges(n, TRUE, FALSE, FALSE)
         /\ codes' = [codes EXCEPT ![n].spent = TRUE] => OnlyChanges(n, FALSE, TRUE, FALSE)
         /\ codes' = [codes EXCEPT ![n].failed = TRUE] => OnlyChanges(n, FALSE, FALSE, TRUE)
         /\ codes' = [codes EXCEPT ![n].mailed = TRUE] => OnlyChanges(n, FALSE, FALSE, FALSE)
<1>1. \A m \in DOMAIN codes : codes[m] \in Code
  BY CodeOf
<1>2. ASSUME codes' = [codes EXCEPT ![n].accepted = TRUE]
      PROVE  OnlyChanges(n, TRUE, FALSE, FALSE)
  <2>1. /\ DOMAIN codes' = DOMAIN codes
        /\ \A m \in DOMAIN codes :
             codes'[m] = IF m = n THEN [codes[m] EXCEPT !.accepted = TRUE] ELSE codes[m]
    BY <1>2
  <2> QED
    BY <1>1, <2>1 DEF OnlyChanges, Code
<1>3. ASSUME codes' = [codes EXCEPT ![n].spent = TRUE]
      PROVE  OnlyChanges(n, FALSE, TRUE, FALSE)
  <2>1. /\ DOMAIN codes' = DOMAIN codes
        /\ \A m \in DOMAIN codes :
             codes'[m] = IF m = n THEN [codes[m] EXCEPT !.spent = TRUE] ELSE codes[m]
    BY <1>3
  <2> QED
    BY <1>1, <2>1 DEF OnlyChanges, Code
<1>4. ASSUME codes' = [codes EXCEPT ![n].failed = TRUE]
      PROVE  OnlyChanges(n, FALSE, FALSE, TRUE)
  <2>1. /\ DOMAIN codes' = DOMAIN codes
        /\ \A m \in DOMAIN codes :
             codes'[m] = IF m = n THEN [codes[m] EXCEPT !.failed = TRUE] ELSE codes[m]
    BY <1>4
  <2> QED
    BY <1>1, <2>1 DEF OnlyChanges, Code
<1>5. ASSUME codes' = [codes EXCEPT ![n].mailed = TRUE]
      PROVE  OnlyChanges(n, FALSE, FALSE, FALSE)
  <2>1. /\ DOMAIN codes' = DOMAIN codes
        /\ \A m \in DOMAIN codes :
             codes'[m] = IF m = n THEN [codes[m] EXCEPT !.mailed = TRUE] ELSE codes[m]
    BY <1>5
  <2> QED
    BY <1>1, <2>1 DEF OnlyChanges, Code
<1> QED
  BY <1>2, <1>3, <1>4, <1>5

\* Every step but SendEmailOTP leaves the codes as they are, but for one flag.
LEMMA CodesStep ==
  ASSUME TypeOK, SignInsKnow, [Next]_vars
  PROVE  \/ \E e \in Emails : SendEmailOTP(e)
         \/ UNCHANGED <<otp, lost, job>> /\ \E n : OnlyChanges(n, FALSE, FALSE, FALSE)
         \/ \E e \in Emails : Expire(e) /\ codes' = codes
         \/ \E e \in Emails, w \in Workers, n \in DOMAIN codes :
              VerifyEmailOTP(w, e, n) /\ OnlyChanges(n, TRUE, FALSE, FALSE)
         \/ \E w \in Workers :
              /\ DeleteOTP(w) /\ job[w].code \in DOMAIN codes
              /\ \/ /\ OnlyChanges(job[w].code, FALSE, TRUE, FALSE)
                    /\ otp' = [otp EXCEPT ![job[w].email] = 0]
                 \/ codes' = codes /\ otp' = otp
         \/ \E w \in Workers :
              /\ BreakOff(w) /\ otp' = otp
              /\ codes' = codes \/ OnlyChanges(job[w].code, FALSE, FALSE, TRUE)
         \/ UNCHANGED <<otp, codes, lost>>
<1>1. ASSUME NEW e \in Emails, NEW w \in Workers, NEW n \in DOMAIN codes,
             VerifyEmailOTP(w, e, n)
      PROVE  OnlyChanges(n, TRUE, FALSE, FALSE)
  BY <1>1, FieldSet DEF VerifyEmailOTP
<1>2. ASSUME NEW w \in Workers, DeleteOTP(w)
      PROVE  /\ job[w].code \in DOMAIN codes
             /\ \/ /\ OnlyChanges(job[w].code, FALSE, TRUE, FALSE)
                   /\ otp' = [otp EXCEPT ![job[w].email] = 0]
                \/ codes' = codes /\ otp' = otp
  <2>1. job[w].code \in DOMAIN codes
    BY <1>2, Busy DEF DeleteOTP, SignInsKnow, SignInKnows
  <2> QED
    BY <1>2, <2>1, FieldSet DEF DeleteOTP, KeyDeleted
<1>3. ASSUME NEW w \in Workers, BreakOff(w)
      PROVE  /\ otp' = otp
             /\ codes' = codes \/ OnlyChanges(job[w].code, FALSE, FALSE, TRUE)
  <2>1. job[w].code \in {0} \cup DOMAIN codes
    BY <1>3 DEF BreakOff, TypeOK, JobsOK
  <2> QED
    BY <1>3, <2>1, FieldSet DEF BreakOff
<1>4. CASE UNCHANGED vars
  BY <1>4 DEF vars
<1>5. ASSUME NEW w \in Workers, NEW c \in Claims, LoginWithGoogle(w, c)
      PROVE  UNCHANGED <<otp, codes, lost>>
  BY <1>5 DEF LoginWithGoogle
<1>6. ASSUME NEW w \in Workers, FindByGoogleSub(w) \/ FindByEmail(w) \/ Create(w) \/ Update(w)
      PROVE  UNCHANGED <<otp, codes, lost>>
  BY <1>6 DEF FindByGoogleSub, FindByEmail, Create, Update
<1>7. ASSUME NEW t \in tokens, NEW c, Refresh(t) \/ ExpireToken(t) \/ UpdateCurrency(t, c)
      PROVE  UNCHANGED <<otp, codes, lost>>
  BY <1>7 DEF Refresh, ExpireToken, UpdateCurrency
<1>8. ASSUME NEW e \in Emails, Expire(e)
      PROVE  codes' = codes
  BY <1>8 DEF Expire
<1>9. ASSUME NEW n \in DOMAIN codes, MailOTP(n)
      PROVE  UNCHANGED <<otp, lost, job>> /\ OnlyChanges(n, FALSE, FALSE, FALSE)
  BY <1>9, FieldSet DEF MailOTP
<1> QED
  BY <1>1, <1>2, <1>3, <1>4, <1>5, <1>6, <1>7, <1>8, <1>9 DEF Next

LEMMA NextSpent ==
  ASSUME TypeOK, SignInsKnow, SpentStaysSpent, [Next]_vars
  PROVE  SpentStaysSpent'
<1>1. \A n \in DOMAIN codes : n # 0 /\ codes[n].email \in Emails
  BY CodeOf DEF Code
<1>2. otp \in [Emails -> Nat]
  BY DEF TypeOK, CodesOK
<1>3. ASSUME NEW e \in Emails, SendEmailOTP(e)
      PROVE  SpentStaysSpent'
  <2>1. otp' = [otp EXCEPT ![e] = Len(codes) + 1]
    BY <1>3 DEF SendEmailOTP
  <2>2. /\ DOMAIN codes = 1 .. Len(codes) /\ Len(codes) \in Nat
        /\ DOMAIN codes' = DOMAIN codes \cup {Len(codes) + 1}
        /\ ~ codes'[Len(codes) + 1].spent
        /\ \A n \in DOMAIN codes : codes'[n] = codes[n]
    BY <1>3, SendEffect
  <2> QED
    BY <1>1, <1>2, <2>1, <2>2 DEF SpentStaysSpent
<1>4. ASSUME NEW e \in Emails, Expire(e), codes' = codes
      PROVE  SpentStaysSpent'
  BY <1>1, <1>2, <1>4 DEF Expire, SpentStaysSpent
<1>5. ASSUME NEW n \in DOMAIN codes, otp' = otp,
             OnlyChanges(n, TRUE, FALSE, FALSE) \/ OnlyChanges(n, FALSE, FALSE, TRUE)
      PROVE  SpentStaysSpent'
  BY <1>5 DEF OnlyChanges, SpentStaysSpent
<1>9. ASSUME NEW n, OnlyChanges(n, FALSE, FALSE, FALSE), otp' = otp
      PROVE  SpentStaysSpent'
  BY <1>9 DEF OnlyChanges, SpentStaysSpent
<1>6. ASSUME NEW w \in Workers, DeleteOTP(w), job[w].code \in DOMAIN codes,
             OnlyChanges(job[w].code, FALSE, TRUE, FALSE),
             otp' = [otp EXCEPT ![job[w].email] = 0]
      PROVE  SpentStaysSpent'
  <2>1. codes[job[w].code].email = job[w].email
    BY <1>1, <1>6, Busy DEF DeleteOTP, SignInsKnow, SignInKnows
  <2>2. \A m \in DOMAIN codes :
          IF codes[m].email = job[w].email
          THEN otp'[codes[m].email] = 0 ELSE otp'[codes[m].email] = otp[codes[m].email]
    BY <1>1, <1>2, <1>6
  <2>3. /\ DOMAIN codes' = DOMAIN codes
        /\ \A m \in DOMAIN codes :
             /\ codes'[m].email = codes[m].email
             /\ codes'[m].spent => codes[m].spent \/ m = job[w].code
    BY <1>6 DEF OnlyChanges
  <2> QED
    BY <1>1, <2>1, <2>2, <2>3 DEF SpentStaysSpent
<1>7. ASSUME NEW w \in Workers, OnlyChanges(job[w].code, FALSE, FALSE, TRUE), otp' = otp
      PROVE  SpentStaysSpent'
  BY <1>7 DEF OnlyChanges, SpentStaysSpent
<1>8. ASSUME UNCHANGED <<otp, codes>>
      PROVE  SpentStaysSpent'
  BY <1>8 DEF SpentStaysSpent
<1> QED
  BY <1>3, <1>4, <1>5, <1>6, <1>7, <1>8, <1>9, CodesStep DEF VerifyEmailOTP

\* Only VerifyEmailOTP takes a request to its deletion.
LEMMA NewDeletion ==
  ASSUME TypeOK, [Next]_vars, NEW w \in Workers, job'[w].step = "delete"
  PROVE  \/ job'[w] = job[w]
         \/ \E e \in Emails, n \in DOMAIN codes : VerifyEmailOTP(w, e, n)
<1>1. ASSUME NEW v \in Workers, NEW j, job' = [job EXCEPT ![v] = j], j.step # "delete"
      PROVE  job'[w] = job[w]
  BY <1>1 DEF TypeOK, JobsOK
<1>2. ASSUME NEW v \in Workers, NEW e \in Emails, NEW n \in DOMAIN codes,
             VerifyEmailOTP(v, e, n), v # w
      PROVE  job'[w] = job[w]
  BY <1>2 DEF VerifyEmailOTP, TypeOK, JobsOK
<1>3. ASSUME NEW v \in Workers, NEW c \in Claims, LoginWithGoogle(v, c)
      PROVE  job'[w] = job[w]
  BY <1>1, <1>3 DEF LoginWithGoogle
<1>4. ASSUME NEW v \in Workers, NEW j \in Request, job[v] \in Request,
             job' = [job EXCEPT ![v] = j], j.step # "delete"
      PROVE  job'[w] = job[w]
  BY <1>1, <1>4
<1>5. ASSUME NEW v \in Workers,
             DeleteOTP(v) \/ FindByGoogleSub(v) \/ FindByEmail(v)
      PROVE  job'[w] = job[w]
  <2>1. job[v] \in Request
    BY <1>5, Busy DEF DeleteOTP, FindByGoogleSub, FindByEmail
  <2>2. CASE job' = [job EXCEPT ![v] = Idle]
    BY <1>1, <2>2 DEF Idle
  <2>3. CASE \E s \in {"byEmail", "create"} : job' = [job EXCEPT ![v].step = s]
    BY <2>1, <2>3 DEF TypeOK, JobsOK, Request
  <2>4. CASE \E k \in DOMAIN users :
               job' = [job EXCEPT ![v].step = "update", ![v].user = k,
                                  ![v].sub = SubToWrite(v, k)]
    BY <2>1, <2>4 DEF TypeOK, JobsOK, Request
  <2> QED
    BY <1>5, <2>2, <2>3, <2>4 DEF DeleteOTP, FindByGoogleSub, FindByEmail
<1>6. ASSUME NEW v \in Workers, Create(v) \/ Update(v) \/ BreakOff(v)
      PROVE  job'[w] = job[w]
  BY <1>1, <1>6 DEF Create, Update, BreakOff, Idle
<1>7. CASE UNCHANGED vars
  BY <1>7 DEF vars
<1>8. CASE Next
  BY <1>2, <1>3, <1>5, <1>6, <1>8 DEF Next, SendEmailOTP, MailOTP, Expire, Refresh,
     ExpireToken, UpdateCurrency
<1> QED
  BY <1>7, <1>8

LastOf(n) == \A m \in DOMAIN codes : m > n => codes[m].email # codes[n].email

StoredIsLast == \A e \in Emails : otp[e] # 0 => LastOf(otp[e])

\* A deletion takes no code that could still be used, or "lost" says so.
DeletesOwn ==
  \A w \in Workers : job[w].step = "delete" =>
    \A n \in DOMAIN codes :
      codes[n].email = job[w].email /\ LastOf(n)
        => codes[n].accepted \/ job[w].email \in lost

LastStands ==
  /\ StoredIsLast
  /\ DeletesOwn
  /\ NewestCodeStands

LEMMA SendLast ==
  ASSUME TypeOK, SignInsKnow, LastStands, NEW e \in Emails, SendEmailOTP(e)
  PROVE  LastStands'
<1>0. PICK l \in Nat : l = Len(codes) + 1
  BY SendEffect
<1>1. /\ DOMAIN codes = 1 .. Len(codes) /\ Len(codes) \in Nat
      /\ DOMAIN codes' = DOMAIN codes \cup {l}
      /\ codes'[l].email = e
      /\ \A n \in DOMAIN codes : codes'[n] = codes[n]
  BY <1>0, SendEffect
<1>2. \A n \in DOMAIN codes : codes[n].email \in Emails
  BY CodeOf DEF Code
<1>3. /\ otp' = [otp EXCEPT ![e] = l] /\ job' = job
      /\ \A f \in Emails \ {e} : f \in lost' <=> f \in lost
      /\ (\E w \in Workers : job[w].step = "delete" /\ job[w].email = e) => e \in lost'
  BY <1>0 DEF SendEmailOTP
<1>4. otp \in [Emails -> Nat] /\ \A f \in Emails : otp[f] # 0 =>
        otp[f] \in DOMAIN codes /\ codes[otp[f]].email = f
  BY DEF TypeOK, CodesOK
<1>5. ASSUME NEW n \in DOMAIN codes
      PROVE  LastOf(n)' <=> LastOf(n) /\ codes[n].email # e
  <2>1. n \in Nat /\ l > n
    BY <1>0, <1>1
  <2> QED
    BY <1>1, <2>1 DEF LastOf
<1>6. LastOf(l)'
  BY <1>0, <1>1 DEF LastOf
<1>7. StoredIsLast'
  BY <1>3, <1>4, <1>5, <1>6 DEF LastStands, StoredIsLast
<1>8. DeletesOwn'
  <2> SUFFICES ASSUME NEW w \in Workers, job[w].step = "delete", NEW n \in DOMAIN codes',
                      codes'[n].email = job[w].email, LastOf(n)'
               PROVE  codes'[n].accepted \/ job[w].email \in lost'
    BY <1>3 DEF DeletesOwn
  <2>1. CASE job[w].email = e
    BY <1>3, <2>1
  <2>2. CASE job[w].email # e
    <3>1. n \in DOMAIN codes /\ codes'[n] = codes[n] /\ LastOf(n)
      BY <1>1, <1>5, <2>2
    <3>2. codes[n].accepted \/ job[w].email \in lost
      BY <3>1 DEF LastStands, DeletesOwn
    <3> QED
      BY <1>2, <1>3, <2>2, <3>1, <3>2
  <2> QED
    BY <2>1, <2>2
<1>9. NewestCodeStands'
  <2> SUFFICES ASSUME NEW n \in DOMAIN codes', LastOf(n)'
               PROVE  \/ codes'[n].accepted \/ codes'[n].email \in lost'
                      \/ otp'[codes'[n].email] = n
    BY DEF NewestCodeStands, LastOf
  <2>1. CASE n = l
    BY <1>1, <1>3, <1>4, <2>1
  <2>2. CASE n # l
    <3>1. n \in DOMAIN codes /\ codes'[n] = codes[n] /\ LastOf(n) /\ codes[n].email # e
      BY <1>1, <1>5, <2>2
    <3>2. codes[n].accepted \/ codes[n].email \in lost \/ otp[codes[n].email] = n
      BY <3>1 DEF LastStands, NewestCodeStands, LastOf
    <3> QED
      BY <1>2, <1>3, <1>4, <3>1, <3>2
  <2> QED
    BY <2>1, <2>2
<1> QED
  BY <1>7, <1>8, <1>9 DEF LastStands

\* A step that stores no code.
LEMMA OtherLast ==
  ASSUME TypeOK, LastStands, DOMAIN codes' = DOMAIN codes,
         \A n \in DOMAIN codes : /\ codes'[n].email = codes[n].email
                                 /\ codes[n].accepted => codes'[n].accepted,
         lost \subseteq lost',
         \A e \in Emails : otp'[e] = otp[e] \/
           /\ otp'[e] = 0
           /\ \/ e \in lost'
              \/ \E w \in Workers : job[w].step = "delete" /\ job[w].email = e,
         \A w \in Workers : job'[w].step = "delete" => job'[w] = job[w] \/
           \E n \in DOMAIN codes :
             LastOf(n) /\ codes[n].email = job'[w].email /\ codes'[n].accepted
  PROVE  LastStands'
<1>1. \A n \in DOMAIN codes : LastOf(n)' <=> LastOf(n)
  BY DEF LastOf
<1>2. \A n \in DOMAIN codes : codes[n].email \in Emails /\ n \in Nat
  BY CodeOf DEF Code
<1>3. otp \in [Emails -> Nat] /\ \A f \in Emails : otp[f] # 0 => otp[f] \in DOMAIN codes
  BY DEF TypeOK, CodesOK
<1>4. StoredIsLast'
  BY <1>1, <1>3 DEF LastStands, StoredIsLast
<1>5. DeletesOwn'
  <2> SUFFICES ASSUME NEW w \in Workers, job'[w].step = "delete", NEW n \in DOMAIN codes,
                      codes[n].email = job'[w].email, LastOf(n)
               PROVE  codes'[n].accepted \/ job'[w].email \in lost'
    BY <1>1 DEF DeletesOwn
  <2>1. CASE job'[w] = job[w]
    BY <2>1 DEF LastStands, DeletesOwn
  <2>2. ASSUME NEW m \in DOMAIN codes,
               LastOf(m), codes[m].email = job'[w].email, codes'[m].accepted
        PROVE  codes'[n].accepted
    <3>1. m = n
      BY <1>2, <2>2 DEF LastOf
    <3> QED
      BY <2>2, <3>1
  <2> QED
    BY <2>1, <2>2
<1>6. NewestCodeStands'
  <2> SUFFICES ASSUME NEW n \in DOMAIN codes, LastOf(n)
               PROVE  \/ codes'[n].accepted \/ codes[n].email \in lost'
                      \/ otp'[codes[n].email] = n
    BY <1>1 DEF NewestCodeStands, LastOf
  <2>1. codes[n].accepted \/ codes[n].email \in lost \/ otp[codes[n].email] = n
    BY DEF LastStands, NewestCodeStands, LastOf
  <2>2. ASSUME NEW w \in Workers, job[w].step = "delete", job[w].email = codes[n].email
        PROVE  codes[n].accepted \/ codes[n].email \in lost
    BY <2>2 DEF LastStands, DeletesOwn
  <2> QED
    BY <1>2, <2>1, <2>2
<1> QED
  BY <1>4, <1>5, <1>6 DEF LastStands

LEMMA NextLast ==
  ASSUME TypeOK, SignInsKnow, LastStands, [Next]_vars
  PROVE  LastStands'
<1>1. otp \in [Emails -> Nat] /\ \A e \in Emails : otp[e] # 0 =>
        otp[e] \in DOMAIN codes /\ codes[otp[e]].email = e
  BY DEF TypeOK, CodesOK
<1>2. ASSUME NEW w \in Workers, job'[w].step = "delete"
      PROVE  job'[w] = job[w] \/ \E n \in DOMAIN codes :
               LastOf(n) /\ codes[n].email = job'[w].email /\ codes'[n].accepted
  <2>1. ASSUME NEW e \in Emails, NEW n \in DOMAIN codes, VerifyEmailOTP(w, e, n)
        PROVE  LastOf(n) /\ codes[n].email = job'[w].email /\ codes'[n].accepted
    <3>1. otp[e] = n /\ n # 0 /\ codes[n] \in Code
      BY <2>1, CodeOf DEF VerifyEmailOTP, Matches
    <3>2. job'[w].email = e
      BY <2>1 DEF VerifyEmailOTP, TypeOK, JobsOK
    <3>3. OnlyChanges(n, TRUE, FALSE, FALSE)
      BY <2>1, FieldSet DEF VerifyEmailOTP
    <3>4. codes'[n].accepted
      BY <3>3 DEF OnlyChanges
    <3> QED
      BY <1>1, <3>1, <3>2, <3>4 DEF LastStands, StoredIsLast
  <2> QED
    BY <1>2, <2>1, NewDeletion
<1>3. ASSUME DOMAIN codes' = DOMAIN codes,
             \A n \in DOMAIN codes : /\ codes'[n].email = codes[n].email
                                     /\ codes[n].accepted => codes'[n].accepted,
             lost \subseteq lost',
             \A e \in Emails : otp'[e] = otp[e] \/
               /\ otp'[e] = 0
               /\ \/ e \in lost'
                  \/ \E w \in Workers : job[w].step = "delete" /\ job[w].email = e
      PROVE  LastStands'
  BY <1>2, <1>3, OtherLast
<1>4. ASSUME NEW e \in Emails, Expire(e), codes' = codes
      PROVE  LastStands'
  BY <1>1, <1>3, <1>4 DEF Expire
<1>5. ASSUME NEW e \in Emails, NEW w \in Workers, NEW n \in DOMAIN codes,
             VerifyEmailOTP(w, e, n), OnlyChanges(n, TRUE, FALSE, FALSE)
      PROVE  LastStands'
  BY <1>3, <1>5 DEF VerifyEmailOTP, OnlyChanges
<1>6. ASSUME NEW w \in Workers, DeleteOTP(w),
             \/ /\ OnlyChanges(job[w].code, FALSE, TRUE, FALSE)
                /\ otp' = [otp EXCEPT ![job[w].email] = 0]
             \/ codes' = codes /\ otp' = otp
      PROVE  LastStands'
  <2>1. lost' = lost /\ job[w].step = "delete"
    BY <1>6 DEF DeleteOTP
  <2>2. CASE codes' = codes /\ otp' = otp
    BY <1>3, <2>1, <2>2
  <2>3. CASE /\ OnlyChanges(job[w].code, FALSE, TRUE, FALSE)
             /\ otp' = [otp EXCEPT ![job[w].email] = 0]
    <3>1. \A e \in Emails : otp'[e] = otp[e] \/ (otp'[e] = 0 /\ job[w].email = e)
      BY <1>1, <2>3
    <3>2. /\ DOMAIN codes' = DOMAIN codes
          /\ \A n \in DOMAIN codes : /\ codes'[n].email = codes[n].email
                                     /\ codes[n].accepted => codes'[n].accepted
      BY <2>3 DEF OnlyChanges
    <3> QED
      BY <1>3, <2>1, <3>1, <3>2
  <2> QED
    BY <1>6, <2>2, <2>3
<1>7. ASSUME NEW w \in Workers, BreakOff(w), otp' = otp,
             codes' = codes \/ OnlyChanges(job[w].code, FALSE, FALSE, TRUE)
      PROVE  LastStands'
  <2>1. /\ DOMAIN codes' = DOMAIN codes
        /\ \A n \in DOMAIN codes : /\ codes'[n].email = codes[n].email
                                   /\ codes[n].accepted => codes'[n].accepted
    BY <1>7 DEF OnlyChanges
  <2>2. lost' = lost
    BY <1>7 DEF BreakOff
  <2> QED
    BY <1>3, <1>7, <2>1, <2>2
<1>8. CASE UNCHANGED <<otp, codes, lost>>
  BY <1>3, <1>8
<1>9. ASSUME NEW n, OnlyChanges(n, FALSE, FALSE, FALSE), UNCHANGED <<otp, lost>>
      PROVE  LastStands'
  BY <1>3, <1>9 DEF OnlyChanges
<1> QED
  BY <1>4, <1>5, <1>6, <1>7, <1>8, <1>9, CodesStep, SendLast

-----------------------------------------------------------------------------
(* An accepted code leads to a user *)

Served(n) ==
  \/ codes[n].accepted => codes[n].failed
  \/ \E k \in DOMAIN users : users[k].email = codes[n].email
  \/ \E w \in Workers : job[w] # Idle /\ job[w].code = n

LEMMA InProgressServed ==
  ASSUME TypeOK, SignInsKnow, CodesGrow, UsersGrow, [Next]_vars,
         NEW n \in DOMAIN codes, NEW w \in Workers, job[w] # Idle, job[w].code = n
  PROVE  Served(n)'
<1>1. /\ job[w] \in Request /\ n # 0 /\ codes[n].email = job[w].email
      /\ job[w].step \notin {"bySub", "update"} => job[w].sub = NoSub
      /\ job[w].step # "bySub"
      /\ codes'[n].email = codes[n].email
  BY CodeOf DEF TypeOK, JobsOK, SignInsKnow, SignInKnows, CodesGrow
<1>2. CASE job'[w] = job[w]
  BY <1>2 DEF Served
<1>3. ASSUME NEW s, job' = [job EXCEPT ![w].step = s]
      PROVE  Served(n)'
  <2>1. job'[w].code = n /\ job'[w].email = job[w].email
    BY <1>1, <1>3 DEF TypeOK, JobsOK, Request
  <2>2. job'[w] # Idle
    BY <1>1, <1>3 DEF TypeOK, JobsOK, Request, Idle
  <2> QED
    BY <2>1, <2>2 DEF Served
<1>4. ASSUME NEW k \in DOMAIN users, users[k].email = job[w].email
      PROVE  Served(n)'
  BY <1>1, <1>4 DEF Served, UsersGrow
<1>5. CASE DeleteOTP(w)
  BY <1>3, <1>5 DEF DeleteOTP
<1>6. CASE FindByEmail(w)
  BY <1>3, <1>4, <1>6 DEF FindByEmail
<1>7. CASE Create(w)
  <2>1. CASE Insertable(w)
    <3>1. /\ Len(users) + 1 \in DOMAIN users'
          /\ users'[Len(users) + 1].email = job[w].email
      BY <1>7, <2>1, CreateEffect
    <3> QED
      BY <1>1, <3>1 DEF Served
  <2>2. CASE ~ Insertable(w)
    BY <1>1, <1>4, <1>7, <2>2 DEF Create, Insertable, EmailFree, SubFree
  <2> QED
    BY <2>1, <2>2
<1>8. CASE Update(w)
  BY <1>1, <1>4, <1>8 DEF Update, TypeOK, JobsOK, SignInsKnow, SignInKnows
<1>9. CASE BreakOff(w)
  <2>1. OnlyChanges(n, FALSE, FALSE, TRUE)
    <3>1. codes' = [codes EXCEPT ![n].failed = TRUE]
      BY <1>1, <1>9 DEF BreakOff
    <3> QED
      BY <3>1, FieldSet
  <2>2. codes'[n].failed
    BY <2>1 DEF OnlyChanges
  <2> QED
    BY <2>2 DEF Served
<1>10. ASSUME NEW v \in Workers, v # w, NEW j, job' = [job EXCEPT ![v] = j]
       PROVE  Served(n)'
  BY <1>2, <1>10 DEF TypeOK, JobsOK
<1>11. CASE \E v \in Workers \ {w} : FindByEmail(v)
  BY <1>2, <1>11 DEF FindByEmail, TypeOK, JobsOK
<1>12. CASE \E v \in Workers \ {w} : FindByGoogleSub(v) \/ DeleteOTP(v)
  BY <1>2, <1>12 DEF FindByGoogleSub, DeleteOTP, TypeOK, JobsOK
<1>13. CASE \E v \in Workers \ {w} : Create(v) \/ Update(v) \/ BreakOff(v)
  BY <1>10, <1>13 DEF Create, Update, BreakOff
<1>14. CASE \E v \in Workers, c \in Claims : LoginWithGoogle(v, c)
  BY <1>10, <1>14 DEF LoginWithGoogle
<1>15. CASE \E v \in Workers, e \in Emails, m \in DOMAIN codes : VerifyEmailOTP(v, e, m)
  BY <1>10, <1>15 DEF VerifyEmailOTP
<1>16. CASE UNCHANGED job
  BY <1>2, <1>16
<1>17. CASE Next
  BY <1>1, <1>5, <1>6, <1>7, <1>8, <1>9, <1>11, <1>12, <1>13, <1>14, <1>15, <1>16, <1>17
     DEF Next, FindByGoogleSub, SendEmailOTP, MailOTP, Expire, Refresh, ExpireToken,
         UpdateCurrency
<1> QED
  BY <1>16, <1>17 DEF vars

LEMMA NextServed ==
  ASSUME TypeOK, SignInsKnow, AcceptedIsServed, [Next]_vars
  PROVE  AcceptedIsServed'
<1>1. CodesGrow /\ UsersGrow
  BY Grow
<1>2. \A n \in DOMAIN codes : Served(n)
  BY DEF AcceptedIsServed, Served
<1>3. SUFFICES \A n \in DOMAIN codes' : Served(n)'
  BY DEF AcceptedIsServed, Served
<1>4. ASSUME NEW n \in DOMAIN codes, codes'[n].accepted => codes[n].accepted
      PROVE  Served(n)'
  <2>1. CASE codes[n].accepted => codes[n].failed
    BY <1>1, <1>4, <2>1 DEF Served, CodesGrow
  <2>2. CASE \E k \in DOMAIN users : users[k].email = codes[n].email
    BY <1>1, <2>2 DEF Served, CodesGrow, UsersGrow
  <2>3. CASE \E w \in Workers : job[w] # Idle /\ job[w].code = n
    BY <1>1, <2>3, InProgressServed
  <2> QED
    BY <1>2, <2>1, <2>2, <2>3 DEF Served
<1>5. ASSUME NEW e \in Emails, SendEmailOTP(e)
      PROVE  \A n \in DOMAIN codes' : Served(n)'
  <2>1. /\ DOMAIN codes' = DOMAIN codes \cup {Len(codes) + 1}
        /\ ~ codes'[Len(codes) + 1].accepted
        /\ \A n \in DOMAIN codes : codes'[n] = codes[n]
    BY <1>5, SendEffect
  <2> SUFFICES ASSUME NEW n \in DOMAIN codes' PROVE Served(n)'
    OBVIOUS
  <2>2. CASE n \in DOMAIN codes
    BY <1>4, <2>1, <2>2
  <2>3. CASE n = Len(codes) + 1
    BY <2>1, <2>3 DEF Served
  <2> QED
    BY <2>1, <2>2, <2>3
<1>6. ASSUME NEW e \in Emails, NEW w \in Workers, NEW n \in DOMAIN codes,
             VerifyEmailOTP(w, e, n), OnlyChanges(n, TRUE, FALSE, FALSE)
      PROVE  \A m \in DOMAIN codes' : Served(m)'
  <2> SUFFICES ASSUME NEW m \in DOMAIN codes PROVE Served(m)'
    BY <1>6 DEF OnlyChanges
  <2>1. CASE m = n
    <3>1. job'[w] # Idle /\ job'[w].code = n
      BY <1>6 DEF VerifyEmailOTP, TypeOK, JobsOK, Idle
    <3> QED
      BY <2>1, <3>1 DEF Served
  <2>2. CASE m # n
    BY <1>4, <1>6, <2>2 DEF OnlyChanges
  <2> QED
    BY <2>1, <2>2
<1>7. ASSUME NEW n, \/ OnlyChanges(n, FALSE, TRUE, FALSE)
                    \/ OnlyChanges(n, FALSE, FALSE, TRUE)
                    \/ OnlyChanges(n, FALSE, FALSE, FALSE)
      PROVE  \A m \in DOMAIN codes' : Served(m)'
  BY <1>4, <1>7 DEF OnlyChanges
<1>8. ASSUME codes' = codes
      PROVE  \A m \in DOMAIN codes' : Served(m)'
  BY <1>4, <1>8
<1> QED
  BY <1>5, <1>6, <1>7, <1>8, CodesStep

-----------------------------------------------------------------------------
(* The invariants *)

Inv ==
  /\ TypeOK
  /\ SignInsKnow
  /\ TokensNameUsers
  /\ SpentStaysSpent
  /\ LastStands
  /\ AcceptedIsServed

LEMMA InitInv == Init => Inv
<1> SUFFICES ASSUME Init PROVE Inv
  OBVIOUS
<1>1. TypeOK
  BY InitTypes
<1>2. DOMAIN codes = {} /\ DOMAIN users = {}
  BY DEF Init
<1>3. SignInsKnow /\ TokensNameUsers
  BY <1>2 DEF Init, SignInsKnow, TokensNameUsers
<1>4. SpentStaysSpent /\ AcceptedIsServed
  BY <1>2 DEF SpentStaysSpent, AcceptedIsServed
<1>5. LastStands
  BY <1>2 DEF Init, LastStands, StoredIsLast, DeletesOwn, NewestCodeStands, Idle
<1> QED
  BY <1>1, <1>3, <1>4, <1>5 DEF Inv

LEMMA NextInv == Inv /\ [Next]_vars => Inv'
BY NextTypes, NextKnows, NextTokens, NextSpent, NextLast, NextServed DEF Inv

LEMMA AlwaysInv == Spec => []Inv
<1> QED
  BY InitInv, NextInv, PTL DEF Spec

\* A token names a user in the table and the user's address, although neither
\* Refresh nor the middleware looks the user up.
THEOREM AccountsTokensNameUsers == Spec => []TokensNameUsers
<1>1. Inv => TokensNameUsers
  BY DEF Inv
<1> QED
  BY <1>1, AlwaysInv, PTL

\* A code whose deletion was carried out is never stored again (otp.go:72).
THEOREM AccountsSpentStaysSpent == Spec => []SpentStaysSpent
<1>1. Inv => SpentStaysSpent
  BY DEF Inv
<1> QED
  BY <1>1, AlwaysInv, PTL

\* The last code stored for an address works until it is used or expires, unless a
\* request was about to delete the key when it was stored (otp.go:60-73).
THEOREM AccountsNewestCodeStands == Spec => []NewestCodeStands
<1>1. Inv => NewestCodeStands
  BY DEF Inv, LastStands
<1> QED
  BY <1>1, AlwaysInv, PTL

\* A code that was accepted leads to a user with its address, unless the
\* request broke off: losing the INSERT to another sign-in leaves one too.
THEOREM AccountsAcceptedIsServed == Spec => []AcceptedIsServed
<1>1. Inv => AcceptedIsServed
  BY DEF Inv
<1> QED
  BY <1>1, AlwaysInv, PTL

-----------------------------------------------------------------------------
(* The implementation of the directory *)

LEMMA CreateImplements ==
  ASSUME Inv, NEW w \in Workers, Create(w)
  PROVE  D!Next \/ UNCHANGED <<users, crossed>>
<1>1. job[w] \in Request
  BY Busy DEF Create, Inv
<1>2. CASE Insertable(w)
  <2>1. D!SignUp(job[w].email, job[w].sub)
    BY <1>2 DEF Create, Insertable, EmailFree, SubFree, D!SignUp, D!Free, D!NoSub, NoSub,
       D!Unset, Unset
  <2>2. job[w].email \in Emails /\ job[w].sub \in Subs \cup {D!NoSub}
    BY <1>1 DEF Request, D!NoSub, NoSub
  <2> QED
    BY <2>1, <2>2 DEF D!Next
<1>3. CASE ~ Insertable(w)
  BY <1>3 DEF Create
<1> QED
  BY <1>2, <1>3

LEMMA UpdateImplements ==
  ASSUME Inv, NEW w \in Workers, Update(w)
  PROVE  D!Next \/ UNCHANGED <<users, crossed>>
<1> DEFINE k == job[w].user
           s == job[w].sub
<1>1. /\ job[w] \in Request /\ k \in DOMAIN users /\ SignInKnows(w)
      /\ job[w].step = "update" /\ users[k] \in User
  BY Busy, UserOf DEF Update, Inv, TypeOK, JobsOK, SignInsKnow
<1>2. CASE SubFree(s, k)
  <2>1. /\ users' = [users EXCEPT ![k].sub = s]
        /\ D!Free(s, k)
    BY <1>2 DEF Update, Written, SubFree, D!Free, D!NoSub, NoSub
  <2>2. CASE job[w].code = 0
    <3>1. s \in Subs
      BY <1>1, <2>2 DEF SignInKnows
    <3>2. crossed' \in {crossed, TRUE}
      BY <1>2 DEF Update, Inv, TypeOK
    <3>3. D!Link(k, s)
      BY <2>1, <3>2 DEF D!Link
    <3> QED
      BY <1>1, <3>1, <3>3 DEF D!Next
  <2>3. CASE job[w].code # 0 /\ crossed
    <3>1. D!PutBack(k, s)
      BY <1>2, <2>1, <2>3 DEF Update, D!PutBack
    <3>2. s \in Subs \cup {D!NoSub}
      BY <1>1 DEF Request, D!NoSub, NoSub
    <3> QED
      BY <1>1, <3>1, <3>2 DEF D!Next
  <2>4. CASE job[w].code # 0 /\ ~ crossed
    <3>1. s = users[k].sub
      BY <1>1, <2>4 DEF SignInKnows
    <3>2. [users[k] EXCEPT !.sub = s] = users[k]
      BY <1>1, <3>1 DEF User
    <3>3. users' = users
      BY <1>1, <1>2, <3>2 DEF Update, Written, Inv, TypeOK, UsersOK
    <3>4. crossed' = crossed
      BY <1>2, <2>4 DEF Update, Inv, TypeOK
    <3> QED
      BY <3>3, <3>4
  <2> QED
    BY <2>2, <2>3, <2>4
<1>3. CASE ~ SubFree(s, k)
  BY <1>3 DEF Update
<1> QED
  BY <1>2, <1>3

LEMMA CurrencyImplements ==
  ASSUME Inv, NEW t \in tokens, NEW c \in Currencies, UpdateCurrency(t, c)
  PROVE  D!Next
<1>1. t.user \in DOMAIN users
  BY DEF Inv, TokensNameUsers
<1>2. users' = [users EXCEPT ![t.user].currency = c]
  BY <1>1 DEF UpdateCurrency, Inv, TypeOK, UsersOK
<1>3. D!Choose(t.user, c)
  BY <1>2 DEF UpdateCurrency, D!Choose
<1> QED
  BY <1>1, <1>3 DEF D!Next

LEMMA NextImplements == Inv /\ [Next]_vars => [D!Next]_(D!vars)
<1> SUFFICES ASSUME Inv, [Next]_vars PROVE D!Next \/ UNCHANGED <<users, crossed>>
  BY DEF D!vars
<1>1. CASE UNCHANGED vars
  BY <1>1 DEF vars
<1>2. CASE Next
  BY <1>2, CreateImplements, UpdateImplements, CurrencyImplements DEF Next, SendEmailOTP,
     MailOTP, Expire, VerifyEmailOTP, LoginWithGoogle, DeleteOTP, FindByGoogleSub, FindByEmail,
     BreakOff, Refresh, ExpireToken
<1> QED
  BY <1>1, <1>2

\* For any number of overlapping sign-ins the users change as the abstract
\* directory says: a sign-in creates, links or leaves alone one user, and one by
\* code undoes a link only when it crossed one (otp.go:91-97, google.go:68-79).
THEOREM AccountsImplementDirectory == Spec => DirectorySpec
<1>1. Init => D!Init
  BY DEF Init, D!Init
<1> QED
  BY <1>1, NextImplements, AlwaysInv, PTL DEF Spec, DirectorySpec, D!Spec
=============================================================================
