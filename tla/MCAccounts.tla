----------------------------- MODULE MCAccounts -----------------------------
(* The instance of Accounts TLC checks. *)
EXTENDS Accounts, TLC

\* Every Google token there can be for these accounts and addresses.
MCClaims == [sub : Subs, email : Emails]

Symmetry == Permutations(Emails) \cup Permutations(Workers)
=============================================================================
