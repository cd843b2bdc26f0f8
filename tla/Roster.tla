------------------------------- MODULE Roster -------------------------------
(***************************************************************************)
(* What the group endpoints promise about who belongs to a group: every    *)
(* change is one atomic operation that an admin asks for (or the member    *)
(* itself, to leave), and no operation takes the last admin away.  Once    *)
(* two requests have raced (raced), the authority and the last admin are   *)
(* not promised any more, but every change is still one operation.         *)
(* Module Membership, where a request is several SQL statements,           *)
(* implements this specification.                                          *)
(***************************************************************************)
CONSTANT Users

VARIABLES phase,   \* the group: "unborn", "live" or "deleted"
          role,    \* role[u]: "none", "member" or "admin"
          by,      \* who asked for the last change ("nobody": at first, and after a race)
          raced    \* a request has written after its checks went stale

vars == <<phase, role, by, raced>>

Init ==
  /\ phase = "unborn"
  /\ role = [u \in Users |-> "none"]
  /\ by = "nobody"
  /\ raced = FALSE

\* u is not the only admin.
Dispensable(u) ==
  role[u] = "admin" => \E v \in Users \ {u} : role[v] = "admin"

Create ==
  /\ phase = "unborn"
  /\ phase' = "live"
  /\ UNCHANGED <<role, by, raced>>

\* The creator becomes the first member.
Found(u) ==
  /\ phase = "live" /\ \A v \in Users : role[v] = "none"
  /\ role' = [role EXCEPT ![u] = "admin"]
  /\ by' = u
  /\ UNCHANGED <<phase, raced>>

Add(a, u) ==
  /\ role[a] = "admin" /\ role[u] = "none"
  /\ role' = [role EXCEPT ![u] = "member"]
  /\ by' = a
  /\ UNCHANGED <<phase, raced>>

Remove(a, u) ==
  /\ role[a] = "admin" /\ a # u
  /\ role' = [role EXCEPT ![u] = "none"]
  /\ by' = a
  /\ UNCHANGED <<phase, raced>>

Leave(u) ==
  /\ Dispensable(u)
  /\ role' = [role EXCEPT ![u] = "none"]
  /\ by' = u
  /\ UNCHANGED <<phase, raced>>

Promote(a, u) ==
  /\ role[a] = "admin" /\ role[u] # "none"
  /\ role' = [role EXCEPT ![u] = "admin"]
  /\ by' = a
  /\ UNCHANGED <<phase, raced>>

Demote(a, u) ==
  /\ role[a] = "admin" /\ role[u] # "none" /\ Dispensable(u)
  /\ role' = [role EXCEPT ![u] = "member"]
  /\ by' = a
  /\ UNCHANGED <<phase, raced>>

Delete(a) ==
  /\ role[a] = "admin"
  /\ phase' = "deleted"
  /\ role' = [u \in Users |-> "none"]
  /\ by' = a
  /\ UNCHANGED raced

\* What a request that writes late still does: it sets one user's role, of which
\* only a member of a live group can make more than there was, or deletes the group.
Race ==
  /\ \/ \E u \in Users, r \in {"none", "member", "admin"} :
          /\ r = "member" => phase = "live" \/ role[u] # "none"
          /\ r = "admin" => role[u] # "none"
          /\ role' = [role EXCEPT ![u] = r]
          /\ UNCHANGED phase
     \/ /\ phase # "unborn"
        /\ phase' = "deleted"
        /\ role' = [u \in Users |-> "none"]
  /\ raced' = TRUE
  /\ by' = "nobody"

Next ==
  \/ Create
  \/ \E u \in Users : Found(u) \/ Leave(u) \/ Delete(u)
  \/ \E a, u \in Users : Add(a, u) \/ Remove(a, u) \/ Promote(a, u) \/ Demote(a, u)
  \/ Race

Spec == Init /\ [][Next]_vars
=============================================================================
