----------------------------- MODULE Directory ------------------------------
(***************************************************************************)
(* What signing in promises about the users: one per address and one per   *)
(* Google account, each change a single operation on one user that leaves  *)
(* the rest of it alone.  A user's Google account changes only by another  *)
(* sign-in with Google, or is put back by a sign-in by code it crossed.    *)
(* Module Accounts, where a sign-in is several calls, implements this.     *)
(***************************************************************************)
EXTENDS Naturals, Sequences

CONSTANTS Emails,      \* addresses
          Subs,        \* Google accounts
          Currencies   \* the supported ones

VARIABLES users,    \* users[k]: its email, sub and currency
          crossed   \* a link has crossed a sign-in by code

vars == <<users, crossed>>

NoSub == "null"

\* What a CHAR(3) makes of the empty string: three blanks.
Unset == "   "

Init == users = <<>> /\ crossed = FALSE

\* No user but k has the Google account s.
Free(s, k) == s = NoSub \/ \A j \in DOMAIN users \ {k} : users[j].sub # s

SignUp(e, s) ==
  /\ \A j \in DOMAIN users : users[j].email # e
  /\ Free(s, 0)
  /\ users' = Append(users, [email |-> e, sub |-> s, currency |-> Unset])
  /\ UNCHANGED crossed

\* It may cross a sign-in by code that has read the user before.
Link(k, s) ==
  /\ Free(s, k)
  /\ users' = [users EXCEPT ![k].sub = s]
  /\ crossed' \in {crossed, TRUE}

Choose(k, c) ==
  /\ users' = [users EXCEPT ![k].currency = c]
  /\ UNCHANGED crossed

PutBack(k, s) ==
  /\ crossed
  /\ Free(s, k)
  /\ users' = [users EXCEPT ![k].sub = s]
  /\ UNCHANGED crossed

Next ==
  \/ \E e \in Emails, s \in Subs \cup {NoSub} : SignUp(e, s)
  \/ \E k \in DOMAIN users :
       \/ \E s \in Subs : Link(k, s)
       \/ \E c \in Currencies : Choose(k, c)
       \/ \E s \in Subs \cup {NoSub} : PutBack(k, s)

Spec == Init /\ [][Next]_vars
=============================================================================
