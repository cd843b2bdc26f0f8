----------------------------- MODULE Membership -----------------------------
(***************************************************************************)
(* The endpoints of internal/delivery/http/handler/group.go over the       *)
(* tables groups and group_members, for one group (no statement touches    *)
(* two).  Every request is served by a goroutine of its own; each of its   *)
(* SQL statements is atomic, and no transaction spans two of them, so the  *)
(* statements of concurrent requests interleave.  A request ends early     *)
(* when a check refuses it, and at any statement when the database fails,  *)
(* the caller hangs up or the server dies.                                 *)
(***************************************************************************)
EXTENDS Naturals, FiniteSets

CONSTANTS Users,    \* registered users; no code deletes one
          Workers,  \* goroutines: how many requests run at a time
          Fields,   \* the columns PATCH may set (name, description, avatar_url)
          Values,   \* their values
          Bodies,   \* PATCH bodies: the fields supplied, with their values;
                    \* an empty name counts as not supplied
          Blank     \* the value of every field in a new group

ASSUME MembershipAssumption ==
  /\ IsFiniteSet(Users)
  /\ Blank \in Values
  /\ Bodies \subseteq UNION {[F -> Values] : F \in SUBSET Fields}

VARIABLES
  phase,    \* the groups row: "unborn", "live", "deleted"
  details,  \* its columns
  role,     \* group_members: role[u], "none" without a row
  req,      \* req[w]: the request w serves
  step,     \* step[w]: the statement it executes next
  \* History, read by the properties only:
  by,       \* whose request last changed the roles ("nobody" after a race)
  stale,    \* the workers whose request began before the last role change
            \* (not recorded after a race)
  raced,    \* a stale request has changed the roles
  halfMade, \* a creation failed between its two statements
  held,     \* the requests whose caller has been an admin since they began
  spare     \* those whose target has not been the only admin since they began

tables  == <<phase, details, role>>
control == <<req, step>>
history == <<by, stale, raced, halfMade>>
moments == <<held, spare>>
vars    == <<tables, control, history, moments>>

Roles   == {"none", "member", "admin"}
Members == {u \in Users : role[u] # "none"}
Admins  == {u \in Users : role[u] = "admin"}
Busy    == {w \in Workers : step[w] # "idle"}

MemberRequests ==
  [op : {"create", "add", "remove", "leave", "delete"}, caller : Users, target : Users]
RoleRequests ==
  [op : {"role"}, caller : Users, target : Users, wanted : {"member", "admin"}]
Patches == [op : {"update"}, caller : Users, body : Bodies]
\* The same with the row read by FindByID.
PatchesOf ==
  [op : {"update"}, caller : Users, body : Bodies, copy : [Fields -> Values]]

Requests == MemberRequests \cup RoleRequests \cup Patches \cup PatchesOf

NoRequest == [op |-> "none"]

Steps == {"idle", "insertGroup", "insertCreator", "requireAdmin", "targetRole",
          "countAdmins", "findGroup", "write"}

Init ==
  /\ phase = "unborn"
  /\ details = [f \in Fields |-> Blank]
  /\ role = [u \in Users |-> "none"]
  /\ req = [w \in Workers |-> NoRequest]
  /\ step = [w \in Workers |-> "idle"]
  /\ by = "nobody" /\ stale = {} /\ raced = FALSE
  /\ halfMade = FALSE /\ held = {} /\ spare = {}

(* A definition marked "Fault" is the one that follows it with a bug seeded *)
(* into it: the checks of the properties' worth use it, no specification    *)
(* does.                                                                    *)

\* The requests that may take a role away.
TakesAway(r) == r.op \in {"remove", "leave"} \/ (r.op = "role" /\ r.wanted = "member")

\* u is not the only admin.
Dispensable(u) == role[u] = "admin" => \E v \in Users \ {u} : role[v] = "admin"

CallerIsAdmin(w) == role[req[w].caller] = "admin"
TargetIsSpare(w) == TakesAway(req[w]) /\ Dispensable(req[w].target)

\* History: what has been true at some moment of a request in flight.
Observe ==
  /\ held' = {w \in Busy' : w \in held \/ CallerIsAdmin(w)'}
  /\ spare' = {w \in Busy' : w \in spare \/ TargetIsSpare(w)'}

Begin(w, r, first) ==
  /\ step[w] = "idle"
  /\ req' = [req EXCEPT ![w] = r]
  /\ step' = [step EXCEPT ![w] = first]
  /\ UNCHANGED <<tables, history>>
  /\ Observe

Goto(w, next) ==
  /\ step' = [step EXCEPT ![w] = next]
  /\ UNCHANGED <<tables, history, moments>>

End(w) ==
  /\ req' = [req EXCEPT ![w] = NoRequest]
  /\ step' = [step EXCEPT ![w] = "idle"]
  /\ Observe

\* A check refuses the request: nothing is written.
Refuse(w) ==
  /\ stale' = stale \ {w}
  /\ UNCHANGED <<tables, by, raced, halfMade>>
  /\ End(w)

-----------------------------------------------------------------------------
(* The requests.  Only the creator's own request knows a new group's id.   *)

CreateGroup(w, u) ==
  /\ phase = "unborn" /\ \A v \in Workers : req[v].op # "create"
  /\ Begin(w, [op |-> "create", caller |-> u, target |-> u], "insertGroup")

AddMember(w, a, u) ==
  /\ phase # "unborn"
  /\ Begin(w, [op |-> "add", caller |-> a, target |-> u], "requireAdmin")

RemoveMember(w, a, u) ==
  /\ phase # "unborn"
  /\ Begin(w, [op |-> "remove", caller |-> a, target |-> u], "requireAdmin")

LeaveGroup(w, u) ==
  /\ phase # "unborn"
  /\ Begin(w, [op |-> "leave", caller |-> u, target |-> u], "targetRole")

UpdateMemberRole(w, a, u, r) ==
  /\ phase # "unborn"
  /\ Begin(w, [op |-> "role", caller |-> a, target |-> u, wanted |-> r],
           "requireAdmin")

DeleteGroup(w, a) ==
  /\ phase # "unborn"
  /\ Begin(w, [op |-> "delete", caller |-> a, target |-> a], "requireAdmin")

UpdateGroup(w, a, b) ==
  /\ phase # "unborn"
  /\ Begin(w, [op |-> "update", caller |-> a, body |-> b], "requireAdmin")

-----------------------------------------------------------------------------
(* The checks, one SELECT each.                                            *)

\* Fault: only a removal looks at the target.
UncountedDemotion(r) ==
  CASE r.op = "remove" -> "targetRole"
    [] r.op = "update" -> "findGroup"
    [] OTHER -> "write"

\* The statement that follows requireAdmin.
AfterAuth(r) ==
  CASE r.op = "remove" -> "targetRole"
    [] r.op = "role" /\ r.wanted = "member" -> "targetRole"
    [] r.op = "update" -> "findGroup"
    [] OTHER -> "write"

\* Fault: a member is enough.
AuthorizedAsMember(r) == role[r.caller] # "none"

\* requireAdmin, and RemoveMember's refusal to remove the caller.
Authorized(r) ==
  /\ role[r.caller] = "admin"
  /\ r.op = "remove" => r.target # r.caller

RequireAdmin(w) ==
  /\ step[w] = "requireAdmin"
  /\ IF Authorized(req[w]) THEN Goto(w, AfterAuth(req[w])) /\ UNCHANGED req
     ELSE Refuse(w)

\* GetMemberRole of the target: only for an admin the admins are counted.
TargetRole(w) ==
  /\ step[w] = "targetRole"
  /\ IF role[req[w].target] = "none"
     THEN Refuse(w)
     ELSE /\ Goto(w, IF role[req[w].target] = "admin" THEN "countAdmins" ELSE "write")
          /\ UNCHANGED req

\* Fault: off by one.
NoAdminLeft == Cardinality(Admins) < 1

LastAdmin == Cardinality(Admins) <= 1

CountAdmins(w) ==
  /\ step[w] = "countAdmins"
  /\ IF LastAdmin THEN Refuse(w) ELSE Goto(w, "write") /\ UNCHANGED req

\* FindByID of UpdateGroup: reads the whole row.
FindGroup(w) ==
  /\ step[w] = "findGroup"
  /\ IF phase # "live"
     THEN Refuse(w)
     ELSE /\ Goto(w, "write")
          /\ req' = [req EXCEPT ![w] =
                       [op |-> "update", caller |-> @.caller, body |-> @.body,
                        copy |-> details]]

-----------------------------------------------------------------------------
(* The writes, one statement each, after which the request is done.        *)

\* The roles become roles, and the request is done: the checks of every
\* other request in flight are stale from now on.
SetRoles(w, roles) ==
  /\ role' = roles
  /\ raced' = (raced \/ (roles # role /\ w \in stale))
  /\ stale' = IF raced' THEN {} ELSE IF roles = role THEN stale \ {w} ELSE Busy \ {w}
  /\ by' = IF raced' THEN "nobody" ELSE IF roles = role THEN by ELSE req[w].caller
  /\ End(w)
  /\ UNCHANGED halfMade

InsertGroup(w) ==
  /\ step[w] = "insertGroup"
  /\ phase' = "live"
  /\ step' = [step EXCEPT ![w] = "insertCreator"]
  /\ UNCHANGED <<details, role, req, history, moments>>

Writes(w, op) == step[w] = "write" /\ req[w].op = op

\* The creator's row.
InsertCreator(w) ==
  /\ step[w] = "insertCreator"
  /\ SetRoles(w, [role EXCEPT ![req[w].target] = "admin"])
  /\ UNCHANGED <<phase, details>>

\* ON CONFLICT DO NOTHING, and the foreign key wants the group to exist.
InsertMember(w) ==
  /\ Writes(w, "add")
  /\ SetRoles(w, IF phase = "live" /\ role[req[w].target] = "none"
                 THEN [role EXCEPT ![req[w].target] = "member"]
                 ELSE role)
  /\ UNCHANGED <<phase, details>>

\* RemoveMember and LeaveGroup delete the row, if it is still there.
DeleteMember(w) ==
  /\ Writes(w, "remove") \/ Writes(w, "leave")
  /\ SetRoles(w, [role EXCEPT ![req[w].target] = "none"])
  /\ UNCHANGED <<phase, details>>

\* Updates the row of a member, and none otherwise.
SetMemberRole(w) ==
  /\ Writes(w, "role")
  /\ SetRoles(w, IF role[req[w].target] # "none"
                 THEN [role EXCEPT ![req[w].target] = req[w].wanted]
                 ELSE role)
  /\ UNCHANGED <<phase, details>>

\* Fault: the members' rows outlive the group.
NoCascade == role

\* ON DELETE CASCADE.
Cascade == [u \in Users |-> "none"]

DeleteRow(w) ==
  /\ Writes(w, "delete")
  /\ SetRoles(w, Cascade)
  /\ phase' = "deleted"
  /\ details' = [f \in Fields |-> Blank]

Merged(copy, body) ==
  [f \in Fields |-> IF f \in DOMAIN body THEN body[f] ELSE copy[f]]

\* UPDATE of every column, from the copy read before.
UpdateRow(w) ==
  /\ Writes(w, "update")
  /\ details' = IF phase = "live" THEN Merged(req[w].copy, req[w].body) ELSE details
  /\ stale' = stale \ {w}
  /\ UNCHANGED <<phase, role, by, raced, halfMade>>
  /\ End(w)

\* A statement fails (database error, caller gone) and the handler returns;
\* the death of the server is this for every request in flight.
Fail(w) ==
  /\ step[w] # "idle"
  /\ stale' = stale \ {w}
  /\ halfMade' = (halfMade \/ step[w] = "insertCreator")
  /\ UNCHANGED <<tables, by, raced>>
  /\ End(w)

-----------------------------------------------------------------------------
Next ==
  \E w \in Workers :
    \/ \E u \in Users : CreateGroup(w, u) \/ LeaveGroup(w, u) \/ DeleteGroup(w, u)
    \/ \E a, u \in Users :
         \/ AddMember(w, a, u) \/ RemoveMember(w, a, u)
         \/ \E r \in {"member", "admin"} : UpdateMemberRole(w, a, u, r)
    \/ \E a \in Users, b \in Bodies : UpdateGroup(w, a, b)
    \/ RequireAdmin(w) \/ TargetRole(w) \/ CountAdmins(w) \/ FindGroup(w)
    \/ InsertGroup(w) \/ InsertCreator(w) \/ InsertMember(w) \/ DeleteMember(w)
    \/ SetMemberRole(w) \/ DeleteRow(w) \/ UpdateRow(w)
    \/ Fail(w)

Spec == Init /\ [][Next]_vars

-----------------------------------------------------------------------------
Typed ==
  /\ phase \in {"unborn", "live", "deleted"}
  /\ details \in [Fields -> Values]
  /\ role \in [Users -> Roles]
  /\ req \in [Workers -> Requests \cup {NoRequest}]
  /\ step \in [Workers -> Steps]
  /\ by \in Users \cup {"nobody"}
  /\ stale \subseteq Busy
  /\ raced \in BOOLEAN /\ halfMade \in BOOLEAN
  /\ held \subseteq Busy /\ spare \subseteq Busy

\* Type invariant.  Only a live group has members: the foreign key and its
\* cascade (001_schema.sql:40-47), whoever adds members while it is deleted.
TypeOK == Typed /\ (phase # "live" => Members = {})

\* A live group always has an admin (group.go:294-307, 326-339, 372-387),
\* except while its creation has not inserted the creator, or failed before
\* it did, or once a request has written on checks that another request had
\* made stale: the guards are right, but only for requests that do not overlap.
AdminUnlessRaced ==
  phase = "live" =>
    \/ Admins # {}
    \/ raced \/ halfMade
    \/ \E w \in Workers : step[w] = "insertCreator"

\* What overlapping requests do to the roles is what a Roster does
\* (group.go:62-393): each takes effect at once, on the authority of somebody who
\* is an admin at that moment, until a stale request writes; and even from then
\* on each changes one row, brings nobody into a group that is gone, and makes no
\* one an admin who is not a member.
RosterOf == INSTANCE Roster

RosterSpec == RosterOf!Spec

\* However late a request writes, raced or not: its caller has been an admin since
\* it began (unless it is a member leaving), and if it takes a role away, there has
\* since been a moment when its target was not the only admin (group.go:33, 294,
\* 326, 372).  So a role that was lost before a request arrived never serves it.
Justified ==
  \A w \in Workers : step[w] = "write" =>
    /\ req[w].op # "leave" => w \in held
    /\ TakesAway(req[w]) => w \in spare

\* docs/ROADMAP.md:100 "Last-admin guard: 409 Conflict on remove/demote/leave
\* when only one admin remains": a group that has members has an admin.
LastAdminGuard == Members # {} => Admins # {}
=============================================================================
