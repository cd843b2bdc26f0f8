-------------------------- MODULE MembershipProofs --------------------------
(* What TLAPS proves of Membership, for any number of users and of         *)
(* requests in flight.                                                     *)
EXTENDS Membership, FiniteSetTheorems, TLAPS

-----------------------------------------------------------------------------
(* The shape of requests: which statement a request of a kind may be at.   *)

Shape(r, s) ==
  /\ s = "idle" => r = NoRequest
  /\ s \in {"insertGroup", "insertCreator"} =>
       r \in MemberRequests /\ r.op = "create" /\ r.target = r.caller
  /\ s = "requireAdmin" =>
       \/ r \in MemberRequests /\ r.op \in {"add", "remove", "delete"}
       \/ r \in RoleRequests
       \/ r \in Patches
  /\ s \in {"targetRole", "countAdmins"} =>
       \/ r \in MemberRequests /\ r.op = "remove"
       \/ r \in MemberRequests /\ r.op = "leave" /\ r.target = r.caller
       \/ r \in RoleRequests /\ r.wanted = "member"
  /\ s = "findGroup" => r \in Patches
  /\ s = "write" =>
       \/ r \in MemberRequests /\ r.op \in {"add", "remove", "delete"}
       \/ r \in MemberRequests /\ r.op = "leave" /\ r.target = r.caller
       \/ r \in RoleRequests
       \/ r \in PatchesOf

Shaped == \A w \in Workers : Shape(req[w], step[w])

TypeInv == Typed /\ Shaped

USE DEF MemberRequests, RoleRequests, Patches, PatchesOf, NoRequest

LEMMA TypeInvInit == Init => TypeInv
<1> SUFFICES ASSUME Init PROVE TypeInv
  OBVIOUS
<1>1. Typed
  BY MembershipAssumption
     DEF MembershipAssumption, Init, Typed, Roles, Requests, Steps, Busy
<1>2. Shaped
  BY DEF Init, Shaped, Shape
<1> QED
  BY <1>1, <1>2 DEF TypeInv

\* Worker w goes on to statement s of request r; the others do not move.
LEMMA Move ==
  ASSUME TypeInv, NEW w \in Workers, NEW s \in Steps,
         NEW r \in Requests \cup {NoRequest}, Shape(r, s),
         req' = [req EXCEPT ![w] = r], step' = [step EXCEPT ![w] = s]
  PROVE  /\ req' \in [Workers -> Requests \cup {NoRequest}]
         /\ step' \in [Workers -> Steps]
         /\ Shaped'
         /\ Busy' = IF s = "idle" THEN Busy \ {w} ELSE Busy \cup {w}
<1>1. /\ req' \in [Workers -> Requests \cup {NoRequest}]
      /\ step' \in [Workers -> Steps]
  BY DEF TypeInv, Typed
<1>2. \A v \in Workers : req'[v] = (IF v = w THEN r ELSE req[v])
                      /\ step'[v] = (IF v = w THEN s ELSE step[v])
  BY DEF TypeInv, Typed
<1>3. Shaped'
  BY <1>2 DEF TypeInv, Shaped
<1>4. Busy' = IF s = "idle" THEN Busy \ {w} ELSE Busy \cup {w}
  BY <1>2 DEF Busy
<1> QED
  BY <1>1, <1>3, <1>4

LEMMA IdleShape == Shape(NoRequest, "idle")
  BY DEF Shape

\* A step of w that changes neither table nor history, except that a request
\* that ends is no longer stale.
LEMMA ReadTypes ==
  ASSUME TypeInv, NEW w \in Workers, NEW s \in Steps,
         NEW r \in Requests \cup {NoRequest}, Shape(r, s),
         req' = [req EXCEPT ![w] = r], step' = [step EXCEPT ![w] = s],
         UNCHANGED <<tables, by, raced>>,
         held' \subseteq Busy', spare' \subseteq Busy',
         halfMade' \in BOOLEAN,
         stale' = IF s = "idle" THEN stale \ {w} ELSE stale
  PROVE  TypeInv'
<1>1. /\ req' \in [Workers -> Requests \cup {NoRequest}]
      /\ step' \in [Workers -> Steps]
      /\ Shaped'
      /\ Busy' = IF s = "idle" THEN Busy \ {w} ELSE Busy \cup {w}
  BY Move
<1>2. stale' \subseteq Busy'
  BY <1>1 DEF TypeInv, Typed
<1>3. Typed'
  BY <1>1, <1>2 DEF TypeInv, Typed, tables
<1> QED
  BY <1>1, <1>3 DEF TypeInv

LEMMA BeginTypes ==
  ASSUME TypeInv, NEW w \in Workers, NEW r \in Requests, NEW s \in Steps,
         s # "idle", Shape(r, s), Begin(w, r, s)
  PROVE  TypeInv'
  BY ReadTypes DEF Begin, history, Observe, TypeInv, Typed

LEMMA GotoTypes ==
  ASSUME TypeInv, NEW w \in Workers, NEW s \in Steps, s # "idle",
         Shape(req[w], s), Goto(w, s), UNCHANGED req
  PROVE  TypeInv'
<1>1. req' = [req EXCEPT ![w] = req[w]] /\ req[w] \in Requests \cup {NoRequest}
  BY DEF TypeInv, Typed
<1>2. Busy' = Busy \cup {w}
  BY <1>1, Move DEF Goto
<1> QED
  BY <1>1, <1>2, ReadTypes DEF Goto, history, moments, TypeInv, Typed

LEMMA RefuseTypes ==
  ASSUME TypeInv, NEW w \in Workers, Refuse(w)
  PROVE  TypeInv'
  BY ReadTypes, IdleShape DEF Refuse, End, Observe, Steps, TypeInv, Typed

\* The last statement of a request leaves roles typed.
LEMMA WriteTypes ==
  ASSUME TypeInv, NEW w \in Workers, NEW roles \in [Users -> Roles],
         SetRoles(w, roles), w \in Busy, req[w].caller \in Users,
         phase' \in {"unborn", "live", "deleted"},
         details' \in [Fields -> Values]
  PROVE  TypeInv'
<1>1. /\ req' \in [Workers -> Requests \cup {NoRequest}]
      /\ step' \in [Workers -> Steps]
      /\ Shaped'
      /\ Busy' = Busy \ {w}
  BY Move, IdleShape DEF SetRoles, End, Steps
<1>2. role' \in [Users -> Roles]
  BY DEF SetRoles
<1>3. /\ raced' \in BOOLEAN /\ stale' \subseteq Busy'
      /\ by' \in Users \cup {"nobody"}
  <2>1. raced' = (raced \/ (roles # role /\ w \in stale))
    BY DEF SetRoles
  <2>2. raced' \in BOOLEAN
    BY <2>1 DEF TypeInv, Typed
  <2>3. stale' \subseteq Busy'
    BY <1>1 DEF SetRoles, TypeInv, Typed
  <2>4. by' \in Users \cup {"nobody"}
    BY DEF SetRoles, TypeInv, Typed
  <2> QED
    BY <2>2, <2>3, <2>4
<1>4. UNCHANGED halfMade /\ held' \subseteq Busy' /\ spare' \subseteq Busy'
  BY DEF SetRoles, End, Observe
<1>5. Typed'
  BY <1>1, <1>2, <1>3, <1>4 DEF TypeInv, Typed
<1> QED
  BY <1>1, <1>5 DEF TypeInv

\* What the shape of a request that writes says of it.
LEMMA WriterFacts ==
  ASSUME TypeInv, NEW w \in Workers, step[w] \in {"write", "insertCreator"}
  PROVE  /\ w \in Busy /\ req[w].caller \in Users
         /\ req[w].op # "update" => req[w].target \in Users
         /\ req[w].op = "role" => req[w].wanted \in {"member", "admin"}
         /\ req[w].op = "update" => /\ req[w].copy \in [Fields -> Values]
                                    /\ req[w].body \in Bodies
<1>1. Shape(req[w], step[w])
  BY DEF TypeInv, Shaped
<1>2. req[w] \in MemberRequests \cup RoleRequests \cup PatchesOf
  BY <1>1 DEF Shape
<1> QED
  BY <1>2 DEF Busy

LEMMA TypeInvNext == TypeInv /\ [Next]_vars => TypeInv'
<1> SUFFICES ASSUME TypeInv, [Next]_vars PROVE TypeInv'
  OBVIOUS
<1>1. ASSUME NEW w \in Workers, NEW u \in Users,
             CreateGroup(w, u) \/ LeaveGroup(w, u) \/ DeleteGroup(w, u)
      PROVE  TypeInv'
  BY <1>1, BeginTypes DEF CreateGroup, LeaveGroup, DeleteGroup, Shape, Requests, Steps
<1>2. ASSUME NEW w \in Workers, NEW a \in Users, NEW u \in Users,
             AddMember(w, a, u) \/ RemoveMember(w, a, u)
      PROVE  TypeInv'
  BY <1>2, BeginTypes DEF AddMember, RemoveMember, Shape, Requests, Steps
<1>3. ASSUME NEW w \in Workers, NEW a \in Users, NEW u \in Users,
             NEW r \in {"member", "admin"}, UpdateMemberRole(w, a, u, r)
      PROVE  TypeInv'
  BY <1>3, BeginTypes DEF UpdateMemberRole, Shape, Requests, Steps
<1>4. ASSUME NEW w \in Workers, NEW a \in Users, NEW b \in Bodies, UpdateGroup(w, a, b)
      PROVE  TypeInv'
  BY <1>4, BeginTypes DEF UpdateGroup, Shape, Requests, Steps
<1>5. ASSUME NEW w \in Workers, RequireAdmin(w) PROVE TypeInv'
  <2>1. AfterAuth(req[w]) \in Steps \ {"idle"} /\ Shape(req[w], AfterAuth(req[w]))
    BY <1>5 DEF RequireAdmin, TypeInv, Shaped, Shape, AfterAuth, Steps
  <2> QED
    BY <1>5, <2>1, GotoTypes, RefuseTypes DEF RequireAdmin
<1>6. ASSUME NEW w \in Workers, TargetRole(w) PROVE TypeInv'
  <2>1. /\ Shape(req[w], "countAdmins") /\ Shape(req[w], "write")
        /\ {"countAdmins", "write"} \subseteq Steps \ {"idle"}
    BY <1>6 DEF TargetRole, TypeInv, Shaped, Shape, Steps
  <2> QED
    BY <1>6, <2>1, GotoTypes, RefuseTypes DEF TargetRole
<1>7. ASSUME NEW w \in Workers, CountAdmins(w) PROVE TypeInv'
  <2>1. Shape(req[w], "write") /\ "write" \in Steps \ {"idle"}
    BY <1>7 DEF CountAdmins, TypeInv, Shaped, Shape, Steps
  <2> QED
    BY <1>7, <2>1, GotoTypes, RefuseTypes DEF CountAdmins
<1>8. ASSUME NEW w \in Workers, FindGroup(w) PROVE TypeInv'
  <2>1. CASE phase # "live"
    BY <1>8, <2>1, RefuseTypes DEF FindGroup
  <2>2. CASE phase = "live"
    <3> DEFINE r == [op |-> "update", caller |-> req[w].caller,
                     body |-> req[w].body, copy |-> details]
    <3>1. req[w] \in Patches /\ details \in [Fields -> Values]
      BY <1>8 DEF FindGroup, TypeInv, Typed, Shaped, Shape
    <3>2. r \in PatchesOf
      BY <3>1
    <3>3. r \in Requests /\ Shape(r, "write")
      BY <3>2 DEF Requests, Shape
    <3>4. req' = [req EXCEPT ![w] = r]
      BY <1>8, <2>2 DEF FindGroup
    <3>5. step' = [step EXCEPT ![w] = "write"] /\ UNCHANGED <<tables, history, moments>>
      BY <1>8, <2>2 DEF FindGroup, Goto
    <3>6. Busy' = Busy \cup {w}
      BY <3>3, <3>4, <3>5, Move DEF Steps
    <3> QED
      BY <3>3, <3>4, <3>5, <3>6, ReadTypes DEF Steps, history, moments, TypeInv, Typed
  <2> QED
    BY <2>1, <2>2
<1>9. ASSUME NEW w \in Workers, InsertGroup(w) PROVE TypeInv'
  <2>1. /\ step[w] = "insertGroup" /\ phase' = "live"
        /\ req' = [req EXCEPT ![w] = req[w]]
        /\ step' = [step EXCEPT ![w] = "insertCreator"]
        /\ UNCHANGED <<details, role, history, moments>>
    BY <1>9 DEF InsertGroup, TypeInv, Typed
  <2>2. Shape(req[w], "insertCreator") /\ req[w] \in Requests \cup {NoRequest}
    BY <2>1 DEF TypeInv, Typed, Shaped, Shape
  <2>3. /\ req' \in [Workers -> Requests \cup {NoRequest}]
        /\ step' \in [Workers -> Steps]
        /\ Shaped' /\ Busy' = Busy \cup {w}
    BY <2>1, <2>2, Move DEF Steps
  <2>4. Typed'
    BY <2>1, <2>3 DEF TypeInv, Typed, history, moments
  <2> QED
    BY <2>3, <2>4 DEF TypeInv
<1>10. ASSUME NEW w \in Workers, InsertCreator(w) PROVE TypeInv'
  <2>1. step[w] = "insertCreator" /\ req[w].op = "create" /\ req[w].target \in Users
    BY <1>10 DEF InsertCreator, TypeInv, Shaped, Shape
  <2> QED
    BY <1>10, <2>1, WriterFacts, WriteTypes
       DEF InsertCreator, Roles, TypeInv, Typed
<1>11. ASSUME NEW w \in Workers,
              InsertMember(w) \/ DeleteMember(w) \/ SetMemberRole(w) \/ DeleteRow(w)
       PROVE  TypeInv'
  <2>1. w \in Busy /\ req[w].caller \in Users /\ req[w].target \in Users
    BY <1>11, WriterFacts
       DEF InsertMember, DeleteMember, SetMemberRole, DeleteRow, Writes
  <2>2. CASE InsertMember(w)
    BY <2>1, <2>2, WriteTypes DEF InsertMember, Roles, TypeInv, Typed
  <2>3. CASE DeleteMember(w)
    BY <2>1, <2>3, WriteTypes DEF DeleteMember, Roles, TypeInv, Typed
  <2>4. CASE SetMemberRole(w)
    <3>1. req[w].wanted \in Roles
      BY <2>4, WriterFacts DEF SetMemberRole, Writes, Roles
    <3> QED
      BY <2>1, <2>4, <3>1, WriteTypes DEF SetMemberRole, TypeInv, Typed
  <2>5. CASE DeleteRow(w)
    BY <2>1, <2>5, WriteTypes, MembershipAssumption
       DEF DeleteRow, Cascade, Roles, MembershipAssumption, TypeInv, Typed
  <2> QED
    BY <1>11, <2>2, <2>3, <2>4, <2>5
<1>12. ASSUME NEW w \in Workers, UpdateRow(w) PROVE TypeInv'
  <2>1. req[w].copy \in [Fields -> Values] /\ req[w].body \in Bodies
    BY <1>12, WriterFacts DEF UpdateRow, Writes
  <2>2. \A f \in Fields : f \in DOMAIN req[w].body => req[w].body[f] \in Values
    BY <2>1, MembershipAssumption DEF MembershipAssumption
  <2>3. details' \in [Fields -> Values]
    BY <1>12, <2>1, <2>2 DEF UpdateRow, Merged, TypeInv, Typed
  <2>4. /\ req' \in [Workers -> Requests \cup {NoRequest}]
        /\ step' \in [Workers -> Steps]
        /\ Shaped' /\ Busy' = Busy \ {w}
    BY <1>12, Move, IdleShape DEF UpdateRow, End, Steps
  <2>6. Typed'
    BY <1>12, <2>3, <2>4 DEF UpdateRow, End, Observe, TypeInv, Typed
  <2> QED
    BY <2>4, <2>6 DEF TypeInv
<1>13. ASSUME NEW w \in Workers, Fail(w) PROVE TypeInv'
  <2>1. halfMade' \in BOOLEAN
    BY <1>13 DEF Fail
  <2> QED
    BY <1>13, <2>1, ReadTypes, IdleShape DEF Fail, End, Observe, Steps
<1>14. ASSUME UNCHANGED vars PROVE TypeInv'
  BY <1>14 DEF vars, tables, control, history, moments, TypeInv, Typed, Shaped, Busy
<1> QED
  BY <1>1, <1>2, <1>3, <1>4, <1>5, <1>6, <1>7, <1>8, <1>9, <1>10, <1>11,
     <1>12, <1>13, <1>14 DEF Next

-----------------------------------------------------------------------------
(* The invariant.  The group is created by one request, and nobody belongs *)
(* to it before that request is done (Creation, Barren).  What a request   *)
(* has checked still holds as long as no other request has changed the     *)
(* roles (Fresh).                                                          *)

Cascaded == phase # "live" => Members = {}

Creates(w) == step[w] \in {"insertGroup", "insertCreator"}

Creation ==
  /\ \A w \in Workers : step[w] = "insertGroup" => phase = "unborn"
  /\ \A w \in Workers : step[w] = "insertCreator" => phase = "live" /\ ~halfMade
  /\ \A v, w \in Workers : (Creates(v) /\ Creates(w)) => v = w
  /\ phase = "unborn" => \A w \in Workers : step[w] \in {"idle", "insertGroup"}
  /\ halfMade => phase # "unborn"

Barren ==
  (phase = "unborn" \/ halfMade \/ \E w \in Workers : step[w] = "insertCreator")
    => Members = {} /\ stale = {} /\ ~raced

\* w has passed requireAdmin.
Admitted(w) ==
  /\ step[w] \in {"targetRole", "countAdmins", "findGroup", "write"}
  /\ req[w].op \in {"add", "remove", "role", "delete", "update"}

\* w is about to make an admin a member or nobody, after counting the admins.
Counted(w) ==
  /\ step[w] = "write"
  /\ req[w].op = "leave" \/ (req[w].op = "role" /\ req[w].wanted = "member")

Fresh ==
  ~raced => \A w \in Workers \ stale :
    /\ Admitted(w) => /\ role[req[w].caller] = "admin"
                      /\ req[w].op = "remove" => req[w].target # req[w].caller
    /\ Counted(w) => Dispensable(req[w].target)

Inv == TypeInv /\ Cascaded /\ Creation /\ Barren /\ Fresh /\ AdminUnlessRaced

LEMMA InvInit == Init => Inv
<1> SUFFICES ASSUME Init PROVE Inv
  OBVIOUS
<1>1. Cascaded /\ Creation /\ Barren /\ Fresh /\ AdminUnlessRaced
  BY DEF Init, Cascaded, Creation, Creates, Barren, Fresh, Admitted, Counted,
         AdminUnlessRaced, Members
<1> QED
  BY <1>1, TypeInvInit DEF Inv

\* When more than one admin is counted, nobody is the only one.
LEMMA NotTheLast ==
  ASSUME ~LastAdmin, NEW u \in Users
  PROVE  Dispensable(u)
<1>1. IsFiniteSet(Admins) /\ IsFiniteSet({u})
  BY MembershipAssumption, FS_Subset, FS_Singleton DEF MembershipAssumption, Admins
<1>2. ~(Admins \subseteq {u})
  <2> SUFFICES ASSUME Admins \subseteq {u} PROVE FALSE
    OBVIOUS
  <2>1. Cardinality(Admins) <= Cardinality({u}) /\ Cardinality({u}) = 1
    BY <1>1, FS_Subset, FS_Singleton
  <2> QED
    BY <1>1, <2>1, FS_CardinalityType DEF LastAdmin
<1> QED
  BY <1>2 DEF Dispensable, RosterOf!Dispensable, Admins

-----------------------------------------------------------------------------
(* Each step is a step of the Roster, or none of its business.             *)

\* A request that is refused, reads, fails or updates the group's columns.
LEMMA QuietStep ==
  ASSUME UNCHANGED <<phase, role, by, raced>>
  PROVE  UNCHANGED RosterOf!vars
  BY DEF RosterOf!vars

\* A write by a stale request is a race.
LEMMA RaceStep ==
  ASSUME TypeInv, NEW w \in Workers, NEW u \in Users, NEW r \in Roles,
         SetRoles(w, [role EXCEPT ![u] = r]), raced', phase' = phase,
         r = "member" => phase = "live" \/ role[u] # "none",
         r = "admin" => role[u] # "none"
  PROVE  RosterOf!Next
<1>1. raced' = TRUE /\ by' = "nobody"
  <2>1. raced' \in BOOLEAN
    BY DEF SetRoles, TypeInv, Typed
  <2> QED
    BY <2>1 DEF SetRoles
<1>2. role' = [role EXCEPT ![u] = r]
  BY DEF SetRoles
<1>3. RosterOf!Race
  BY <1>1, <1>2 DEF RosterOf!Race, Roles
<1> QED
  BY <1>3 DEF RosterOf!Next

\* It may find nothing to change.
LEMMA IdleRace ==
  ASSUME TypeInv, NEW w \in Workers, SetRoles(w, role), raced', phase' = phase,
         NEW u \in Users
  PROVE  RosterOf!Next
<1>1. role[u] \in Roles /\ role = [role EXCEPT ![u] = role[u]]
  BY DEF TypeInv, Typed
<1> QED
  BY <1>1, RaceStep

\* A request that is not stale writes: its checks hold now.
LEMMA FreshWrite ==
  ASSUME Inv, NEW w \in Workers, NEW roles, SetRoles(w, roles), ~raced', roles # role
  PROVE  /\ ~raced /\ w \notin stale /\ raced' = raced
         /\ by' = req[w].caller
         /\ Admitted(w) => /\ role[req[w].caller] = "admin"
                           /\ req[w].op = "remove" => req[w].target # req[w].caller
         /\ Counted(w) => Dispensable(req[w].target)
<1>1. ~raced /\ w \notin stale /\ by' = req[w].caller
  BY DEF SetRoles
<1>2. raced' = raced
  BY <1>1 DEF SetRoles, Inv, TypeInv, Typed
<1> QED
  BY <1>1, <1>2 DEF Inv, Fresh

\* A write that changes no role changes nothing of the Roster, unless it
\* deletes the row of the group.
LEMMA IdleWrite ==
  ASSUME Inv, NEW w \in Workers, SetRoles(w, role), ~raced', phase' = phase
  PROVE  UNCHANGED RosterOf!vars
<1>1. raced' = raced /\ by' = by /\ role' = role
  <2>1. raced \in BOOLEAN /\ raced' = (raced \/ (role # role /\ w \in stale))
    BY DEF SetRoles, Inv, TypeInv, Typed
  <2> QED
    BY <2>1 DEF SetRoles
<1> QED
  BY <1>1, QuietStep

LEMMA WriteRefines ==
  ASSUME Inv, NEW w \in Workers,
         InsertMember(w) \/ DeleteMember(w) \/ SetMemberRole(w) \/ DeleteRow(w)
  PROVE  RosterOf!Next \/ UNCHANGED RosterOf!vars
<1> DEFINE a == req[w].caller
           u == req[w].target
<1>1. /\ a \in Users /\ u \in Users /\ step[w] = "write"
      /\ req[w].op = "role" => req[w].wanted \in {"member", "admin"}
      /\ req[w].op = "leave" => a = u
  <2>1. step[w] = "write" /\ req[w].op \in {"add", "remove", "leave", "role", "delete"}
    BY DEF InsertMember, DeleteMember, SetMemberRole, DeleteRow, Writes
  <2>2. Shape(req[w], "write")
    BY <2>1 DEF Inv, TypeInv, Shaped
  <2> QED
    BY <2>1, <2>2, WriterFacts DEF Inv, Shape
<1>2. role \in [Users -> Roles] /\ phase \in {"unborn", "live", "deleted"}
  BY DEF Inv, TypeInv, Typed
<1>3. CASE InsertMember(w)
  <2> DEFINE roles == IF phase = "live" /\ role[u] = "none"
                      THEN [role EXCEPT ![u] = "member"] ELSE role
  <2>1. SetRoles(w, roles) /\ phase' = phase /\ Admitted(w)
    BY <1>3 DEF InsertMember, Writes, Admitted
  <2>2. roles \in [Users -> Roles]
    BY <1>1, <1>2 DEF Roles
  <2>3. CASE raced'
    <3>1. CASE roles = role
      BY <1>1, <2>1, <2>3, <3>1, IdleRace DEF Inv
    <3>2. CASE roles # role
      <4>1. phase = "live" /\ roles = [role EXCEPT ![u] = "member"]
        BY <3>2
      <4> QED
        BY <1>1, <2>1, <2>3, <4>1, RaceStep DEF Inv, Roles
    <3> QED
      BY <3>1, <3>2
  <2>4. CASE ~raced' /\ roles = role
    BY <2>1, <2>4, IdleWrite
  <2>5. CASE ~raced' /\ roles # role
    <3>1. RosterOf!Add(a, u)
      BY <1>1, <2>1, <2>5, FreshWrite DEF SetRoles, RosterOf!Add
    <3> QED
      BY <1>1, <3>1 DEF RosterOf!Next
  <2> QED
    BY <2>3, <2>4, <2>5
<1>4. CASE DeleteMember(w)
  <2> DEFINE roles == [role EXCEPT ![u] = "none"]
  <2>1. SetRoles(w, roles) /\ phase' = phase /\ req[w].op \in {"remove", "leave"}
    BY <1>4 DEF DeleteMember, Writes
  <2>2. roles \in [Users -> Roles]
    BY <1>1, <1>2 DEF Roles
  <2>3. CASE raced'
    BY <1>1, <2>1, <2>3, RaceStep DEF Inv, Roles
  <2>4. CASE ~raced' /\ roles = role
    BY <2>1, <2>4, IdleWrite
  <2>5. CASE ~raced' /\ roles # role
    <3>1. CASE req[w].op = "remove"
      <4>1. Admitted(w)
        BY <1>1, <3>1 DEF Admitted
      <4>2. RosterOf!Remove(a, u)
        BY <1>1, <2>1, <2>5, <3>1, <4>1, FreshWrite DEF SetRoles, RosterOf!Remove
      <4> QED
        BY <1>1, <4>2 DEF RosterOf!Next
    <3>2. CASE req[w].op = "leave"
      <4>1. Counted(w)
        BY <1>1, <3>2 DEF Counted
      <4>2. RosterOf!Leave(u)
        BY <1>1, <2>1, <2>5, <3>2, <4>1, FreshWrite
           DEF SetRoles, RosterOf!Leave, Dispensable, RosterOf!Dispensable
      <4> QED
        BY <1>1, <4>2 DEF RosterOf!Next
    <3> QED
      BY <2>1, <3>1, <3>2
  <2> QED
    BY <2>3, <2>4, <2>5
<1>5. CASE SetMemberRole(w)
  <2> DEFINE roles == IF role[u] # "none"
                      THEN [role EXCEPT ![u] = req[w].wanted] ELSE role
  <2>1. SetRoles(w, roles) /\ phase' = phase /\ req[w].op = "role" /\ Admitted(w)
    BY <1>5 DEF SetMemberRole, Writes, Admitted
  <2>2. roles \in [Users -> Roles]
    BY <1>1, <1>2, <2>1 DEF Roles
  <2>3. CASE raced'
    <3>1. CASE roles = role
      BY <1>1, <2>1, <2>3, <3>1, IdleRace DEF Inv
    <3>2. CASE roles # role
      <4>1. role[u] # "none" /\ roles = [role EXCEPT ![u] = req[w].wanted]
        BY <3>2
      <4> QED
        BY <1>1, <2>1, <2>3, <4>1, RaceStep DEF Inv, Roles
    <3> QED
      BY <3>1, <3>2
  <2>4. CASE ~raced' /\ roles = role
    BY <2>1, <2>4, IdleWrite
  <2>5. CASE ~raced' /\ roles # role /\ req[w].wanted = "admin"
    <3>1. RosterOf!Promote(a, u)
      BY <1>1, <2>1, <2>5, FreshWrite DEF SetRoles, RosterOf!Promote
    <3> QED
      BY <1>1, <3>1 DEF RosterOf!Next
  <2>6. CASE ~raced' /\ roles # role /\ req[w].wanted = "member"
    <3>1. Counted(w)
      BY <1>1, <2>1, <2>6 DEF Counted
    <3>2. RosterOf!Demote(a, u)
      BY <1>1, <2>1, <2>6, <3>1, FreshWrite
         DEF SetRoles, RosterOf!Demote, Dispensable, RosterOf!Dispensable
    <3> QED
      BY <1>1, <3>2 DEF RosterOf!Next
  <2> QED
    BY <1>1, <2>1, <2>3, <2>4, <2>5, <2>6
<1>6. CASE DeleteRow(w)
  <2>1. SetRoles(w, Cascade) /\ phase' = "deleted" /\ Admitted(w)
    BY <1>6 DEF DeleteRow, Writes, Admitted
  <2>2. Cascade \in [Users -> Roles]
    BY DEF Cascade, Roles
  <2>3. CASE raced'
    <3>1. phase # "unborn"
      BY <1>1 DEF Inv, Creation
    <3>2. RosterOf!Race
      BY <1>2, <2>1, <2>3, <3>1
         DEF SetRoles, Cascade, Inv, TypeInv, Typed, RosterOf!Race
    <3> QED
      BY <3>2 DEF RosterOf!Next
  <2>4. CASE ~raced' /\ Cascade = role
    \* Nobody is a member, so the group is gone already: while it is being
    \* created, or has never had a member, nobody passes requireAdmin.
    <3>1. Admins = {} /\ role[a] # "admin"
      BY <1>1, <2>4 DEF Cascade, Admins
    <3>2. ~raced
      BY <2>1, <2>4 DEF SetRoles
    <3>3. w \in stale
      BY <2>1, <3>1, <3>2 DEF Inv, Fresh
    <3>4. phase = "deleted"
      BY <1>2, <3>1, <3>2, <3>3 DEF Inv, Barren, AdminUnlessRaced
    <3> QED
      BY <2>1, <2>4, <3>4, IdleWrite
  <2>5. CASE ~raced' /\ Cascade # role
    <3>1. RosterOf!Delete(a)
      BY <1>1, <2>1, <2>5, FreshWrite DEF SetRoles, Cascade, RosterOf!Delete
    <3> QED
      BY <1>1, <3>1 DEF RosterOf!Next
  <2> QED
    BY <2>3, <2>4, <2>5
<1> QED
  BY <1>3, <1>4, <1>5, <1>6

LEMMA CreateRefines ==
  ASSUME Inv, NEW w \in Workers, InsertGroup(w) \/ InsertCreator(w)
  PROVE  RosterOf!Next
<1>1. CASE InsertGroup(w)
  <2>1. RosterOf!Create
    BY <1>1 DEF InsertGroup, Inv, Creation, history, RosterOf!Create
  <2> QED
    BY <2>1 DEF RosterOf!Next
<1>2. CASE InsertCreator(w)
  <2> DEFINE u == req[w].target
  <2>1. /\ step[w] = "insertCreator" /\ u \in Users /\ u = req[w].caller
        /\ SetRoles(w, [role EXCEPT ![u] = "admin"]) /\ phase' = phase
    BY <1>2 DEF InsertCreator, Inv, TypeInv, Shaped, Shape
  <2>2. phase = "live" /\ Members = {} /\ stale = {} /\ ~raced
    BY <2>1 DEF Inv, Creation, Barren
  <2>3. (\A v \in Users : role[v] = "none") /\ role \in [Users -> Roles]
    BY <2>2 DEF Members, Inv, TypeInv, Typed
  <2>4. ~raced'
    BY <2>1, <2>2 DEF SetRoles
  <2>5. [role EXCEPT ![u] = "admin"] # role
    BY <2>1, <2>3
  <2>6. RosterOf!Found(u)
    BY <2>1, <2>2, <2>3, <2>4, <2>5, FreshWrite DEF SetRoles, RosterOf!Found
  <2> QED
    BY <2>1, <2>6 DEF RosterOf!Next
<1> QED
  BY <1>1, <1>2

LEMMA NextRefines == Inv /\ [Next]_vars => RosterOf!Next \/ UNCHANGED RosterOf!vars
<1> SUFFICES ASSUME Inv, [Next]_vars
             PROVE  RosterOf!Next \/ UNCHANGED RosterOf!vars
  OBVIOUS
<1>1. ASSUME NEW w \in Workers, NEW r, NEW s, Begin(w, r, s)
      PROVE  UNCHANGED RosterOf!vars
  BY <1>1, QuietStep DEF Begin, tables, history
<1>2. ASSUME NEW w \in Workers,
             \/ RequireAdmin(w) \/ TargetRole(w) \/ CountAdmins(w) \/ FindGroup(w)
             \/ UpdateRow(w) \/ Fail(w)
      PROVE  UNCHANGED RosterOf!vars
  BY <1>2, QuietStep
     DEF RequireAdmin, TargetRole, CountAdmins, FindGroup, UpdateRow, Fail, Refuse,
         Goto, tables, history
<1>3. ASSUME UNCHANGED vars PROVE UNCHANGED RosterOf!vars
  BY <1>3, QuietStep DEF vars, tables, history
<1> QED
  BY <1>1, <1>2, <1>3, WriteRefines, CreateRefines
     DEF Next, CreateGroup, LeaveGroup, DeleteGroup, AddMember, RemoveMember,
         UpdateMemberRole, UpdateGroup

-----------------------------------------------------------------------------
(* The invariant is inductive: the steps that leave the roles alone.       *)

Rest == Cascaded /\ Creation /\ Barren /\ Fresh /\ AdminUnlessRaced

\* w goes on to a statement after its first, which its checks allow.
LEMMA GoesOn ==
  ASSUME Inv, NEW w \in Workers, NEW r, NEW s,
         req' = [req EXCEPT ![w] = r], step' = [step EXCEPT ![w] = s],
         UNCHANGED <<phase, role, stale, raced, halfMade>>,
         s \notin {"insertGroup", "insertCreator"},
         step[w] \notin {"insertGroup", "insertCreator"}, phase # "unborn",
         (w \notin stale /\ ~raced) =>
           /\ Admitted(w)' => /\ role[r.caller] = "admin"
                              /\ r.op = "remove" => r.target # r.caller
           /\ Counted(w)' => Dispensable(r.target)
  PROVE  Rest'
<1>1. \A v \in Workers : /\ req'[v] = (IF v = w THEN r ELSE req[v])
                         /\ step'[v] = (IF v = w THEN s ELSE step[v])
  BY DEF Inv, TypeInv, Typed
<1>2. Cascaded'
  BY DEF Inv, Cascaded, Members
<1>3. Creation'
  BY <1>1 DEF Inv, Creation, Creates
<1>4. Barren'
  BY <1>1 DEF Inv, Barren, Members
<1>5. Fresh'
  <2> SUFFICES ASSUME ~raced, NEW v \in Workers \ stale
               PROVE  /\ Admitted(v)' => /\ role[req'[v].caller] = "admin"
                                         /\ req'[v].op = "remove" =>
                                              req'[v].target # req'[v].caller
                      /\ Counted(v)' => Dispensable(req'[v].target)
    BY DEF Fresh, Dispensable
  <2>1. CASE v = w
    BY <1>1, <2>1
  <2>2. CASE v # w
    BY <1>1, <2>2 DEF Inv, Fresh, Admitted, Counted
  <2> QED
    BY <2>1, <2>2
<1>6. AdminUnlessRaced'
  BY <1>1 DEF Inv, AdminUnlessRaced, Admins
<1> QED
  BY <1>2, <1>3, <1>4, <1>5, <1>6 DEF Rest

\* w ends without having changed a role.
LEMMA Ends ==
  ASSUME Inv, NEW w \in Workers, End(w), UNCHANGED <<phase, role, raced>>,
         halfMade' = (halfMade \/ step[w] = "insertCreator"),
         stale' \subseteq stale, ~raced => stale' = stale \ {w}
  PROVE  Rest'
<1>1. \A v \in Workers : /\ req'[v] = (IF v = w THEN NoRequest ELSE req[v])
                         /\ step'[v] = (IF v = w THEN "idle" ELSE step[v])
  BY DEF Inv, TypeInv, Typed, End
<1>2. Cascaded'
  BY DEF Inv, Cascaded, Members
<1>3. Creation'
  BY <1>1 DEF Inv, Creation, Creates
<1>4. Barren'
  BY <1>1 DEF Inv, Barren, Members
<1>5. Fresh'
  <2> SUFFICES ASSUME ~raced, NEW v \in Workers \ stale'
               PROVE  /\ Admitted(v)' => /\ role[req'[v].caller] = "admin"
                                         /\ req'[v].op = "remove" =>
                                              req'[v].target # req'[v].caller
                      /\ Counted(v)' => Dispensable(req'[v].target)
    BY DEF Fresh, Dispensable
  <2>1. CASE v = w
    BY <1>1, <2>1 DEF Admitted, Counted
  <2>2. CASE v # w
    BY <1>1, <2>2 DEF Inv, Fresh, Admitted, Counted
  <2> QED
    BY <2>1, <2>2
<1>6. AdminUnlessRaced'
  BY <1>1 DEF Inv, AdminUnlessRaced, Admins
<1> QED
  BY <1>2, <1>3, <1>4, <1>5, <1>6 DEF Rest

LEMMA BeginInv ==
  ASSUME Inv, NEW w \in Workers, NEW r \in Requests, Begin(w, r, "requireAdmin")
                                 \/ (Begin(w, r, "targetRole") /\ r.op = "leave"),
         phase # "unborn"
  PROVE  Rest'
<1>1. PICK s \in {"requireAdmin", "targetRole"} :
        Begin(w, r, s) /\ (s = "targetRole" => r.op = "leave")
  OBVIOUS
<1>2. /\ step[w] = "idle" /\ UNCHANGED <<phase, role, stale, raced, halfMade>>
      /\ req' = [req EXCEPT ![w] = r] /\ step' = [step EXCEPT ![w] = s]
  BY <1>1 DEF Begin, tables, history
<1>3. req'[w] = r /\ step'[w] = s
  BY <1>2 DEF Inv, TypeInv, Typed
<1>4. ~Admitted(w)' /\ ~Counted(w)'
  BY <1>1, <1>3 DEF Admitted, Counted
<1> QED
  BY <1>1, <1>2, <1>4, GoesOn

LEMMA CreateInv ==
  ASSUME Inv, NEW w \in Workers, NEW u \in Users, CreateGroup(w, u)
  PROVE  Rest'
<1>1. /\ phase = "unborn" /\ step[w] = "idle"
      /\ \A v \in Workers : req[v].op # "create"
      /\ UNCHANGED <<phase, role, stale, raced, halfMade>>
  BY DEF CreateGroup, Begin, tables, history
<1>2. \A v \in Workers :
        /\ step'[v] = IF v = w THEN "insertGroup" ELSE step[v]
        /\ v # w => req'[v] = req[v]
  BY DEF CreateGroup, Begin, Inv, TypeInv, Typed
<1>3. \A v \in Workers : ~Creates(v)
  BY <1>1 DEF Inv, TypeInv, Shaped, Shape, Creates
<1>4. Cascaded' /\ Barren'
  BY <1>1 DEF Inv, Cascaded, Barren, Members
<1>5. Creation'
  BY <1>1, <1>2, <1>3 DEF Inv, Creation, Creates
<1>6. Fresh'
  BY <1>1, <1>2
     DEF Inv, Creation, Fresh, Admitted, Counted, Dispensable
<1>7. AdminUnlessRaced'
  BY <1>1 DEF AdminUnlessRaced
<1> QED
  BY <1>4, <1>5, <1>6, <1>7 DEF Rest

LEMMA ReadInv ==
  ASSUME Inv, NEW w \in Workers,
         RequireAdmin(w) \/ TargetRole(w) \/ CountAdmins(w) \/ FindGroup(w)
  PROVE  Rest'
<1>1. ASSUME Refuse(w), step[w] # "insertCreator" PROVE Rest'
  BY <1>1, Ends DEF Refuse, tables, Inv, TypeInv, Typed
<1>2. /\ step[w] \in {"requireAdmin", "targetRole", "countAdmins", "findGroup"}
      /\ phase # "unborn" /\ Shape(req[w], step[w])
  BY DEF RequireAdmin, TargetRole, CountAdmins, FindGroup, Inv, Creation, TypeInv, Shaped
<1>3. CASE RequireAdmin(w)
  <2>1. CASE Authorized(req[w])
    <3>1. Goto(w, AfterAuth(req[w])) /\ UNCHANGED req
      BY <1>3, <2>1 DEF RequireAdmin
    <3>2. /\ UNCHANGED <<phase, role, stale, raced, halfMade>>
          /\ step' = [step EXCEPT ![w] = AfterAuth(req[w])]
          /\ req' = [req EXCEPT ![w] = req[w]]
          /\ req'[w] = req[w] /\ step'[w] = AfterAuth(req[w])
      BY <3>1 DEF Goto, tables, history, Inv, TypeInv, Typed
    <3>3. /\ AfterAuth(req[w]) \notin {"insertGroup", "insertCreator"}
          /\ ~Counted(w)'
      BY <1>2, <1>3, <3>2 DEF RequireAdmin, Shape, AfterAuth, Counted
    <3> QED
      BY <1>2, <1>3, <2>1, <3>2, <3>3, GoesOn DEF RequireAdmin, Authorized
  <2> QED
    BY <1>1, <1>3, <2>1 DEF RequireAdmin
<1>4. CASE TargetRole(w)
  <2> DEFINE s == IF role[req[w].target] = "admin" THEN "countAdmins" ELSE "write"
  <2>1. CASE role[req[w].target] # "none"
    <3>1. Goto(w, s) /\ UNCHANGED req
      BY <1>4, <2>1 DEF TargetRole
    <3>2. /\ UNCHANGED <<phase, role, stale, raced, halfMade>>
          /\ step' = [step EXCEPT ![w] = s]
          /\ req' = [req EXCEPT ![w] = req[w]]
          /\ req'[w] = req[w] /\ step'[w] = s
      BY <3>1 DEF Goto, tables, history, Inv, TypeInv, Typed
    <3>3. Admitted(w)' => Admitted(w)
      BY <1>4, <3>2 DEF TargetRole, Admitted
    <3>4. Counted(w)' => Dispensable(req[w].target)
      BY <3>2 DEF Counted, Dispensable
    <3>5. s \notin {"insertGroup", "insertCreator"}
      OBVIOUS
    <3>6. (w \notin stale /\ ~raced) =>
            (Admitted(w) => /\ role[req[w].caller] = "admin"
                            /\ req[w].op = "remove" => req[w].target # req[w].caller)
      BY DEF Inv, Fresh
    <3> HIDE DEF s
    <3> QED
      BY <1>2, <1>4, <3>2, <3>3, <3>4, <3>5, <3>6, GoesOn DEF TargetRole
  <2> QED
    BY <1>1, <1>4, <2>1 DEF TargetRole
<1>5. CASE CountAdmins(w)
  <2>1. CASE ~LastAdmin
    <3>1. Goto(w, "write") /\ UNCHANGED req
      BY <1>5, <2>1 DEF CountAdmins
    <3>2. /\ UNCHANGED <<phase, role, stale, raced, halfMade>>
          /\ step' = [step EXCEPT ![w] = "write"]
          /\ req' = [req EXCEPT ![w] = req[w]]
          /\ req'[w] = req[w] /\ step'[w] = "write"
      BY <3>1 DEF Goto, tables, history, Inv, TypeInv, Typed
    <3>3. Admitted(w)' => Admitted(w)
      BY <1>5, <3>2 DEF CountAdmins, Admitted
    <3>4. req[w].target \in Users
      BY <1>2, <1>5 DEF CountAdmins, Shape
    <3>5. Dispensable(req[w].target)
      BY <2>1, <3>4, NotTheLast
    <3> QED
      BY <1>2, <1>5, <3>2, <3>3, <3>5, GoesOn DEF CountAdmins, Inv, Fresh
  <2> QED
    BY <1>1, <1>5, <2>1 DEF CountAdmins
<1>6. CASE FindGroup(w)
  <2>1. CASE phase = "live"
    <3> DEFINE r == [op |-> "update", caller |-> req[w].caller,
                     body |-> req[w].body, copy |-> details]
    <3>1. /\ UNCHANGED <<phase, role, stale, raced, halfMade>>
          /\ step' = [step EXCEPT ![w] = "write"]
          /\ req' = [req EXCEPT ![w] = r]
          /\ req'[w] = r /\ step'[w] = "write"
      BY <1>6, <2>1 DEF FindGroup, Goto, tables, history, Inv, TypeInv, Typed
    <3>2. ~Counted(w)' /\ r.caller = req[w].caller /\ r.op # "remove"
      BY <3>1 DEF Counted
    <3>3. Admitted(w)
      BY <1>2, <1>6 DEF FindGroup, Shape, Admitted
    <3> QED
      BY <1>2, <1>6, <3>1, <3>2, <3>3, GoesOn DEF FindGroup, Inv, Fresh
  <2> QED
    BY <1>1, <1>6, <2>1 DEF FindGroup
<1> QED
  BY <1>3, <1>4, <1>5, <1>6

LEMMA EndInv ==
  ASSUME Inv, NEW w \in Workers, UpdateRow(w) \/ Fail(w)
  PROVE  Rest'
<1>1. CASE UpdateRow(w)
  BY <1>1, Ends DEF UpdateRow, Writes, Inv, TypeInv, Typed
<1>2. CASE Fail(w)
  BY <1>2, Ends DEF Fail, tables, Inv, TypeInv, Typed
<1> QED
  BY <1>1, <1>2

-----------------------------------------------------------------------------
(* The invariant is inductive: the writes.                                 *)

LEMMA InsertGroupInv ==
  ASSUME Inv, NEW w \in Workers, InsertGroup(w)
  PROVE  Rest'
<1>1. /\ step[w] = "insertGroup" /\ phase = "unborn" /\ phase' = "live"
      /\ UNCHANGED <<role, req, stale, raced, halfMade>>
  BY DEF InsertGroup, history, Inv, Creation
<1>2. \A v \in Workers : step'[v] = IF v = w THEN "insertCreator" ELSE step[v]
  BY DEF InsertGroup, Inv, TypeInv, Typed
<1>3. Cascaded' /\ Barren'
  BY <1>1 DEF Inv, Cascaded, Barren, Members
<1>4. Creation'
  BY <1>1, <1>2 DEF Inv, Creation, Creates
<1>5. Fresh'
  BY <1>1, <1>2
     DEF Inv, Creation, Fresh, Admitted, Counted, Dispensable
<1>6. AdminUnlessRaced'
  BY <1>2 DEF AdminUnlessRaced
<1> QED
  BY <1>3, <1>4, <1>5, <1>6 DEF Rest

\* w has changed the roles: the checks of every other request are stale.
LEMMA ChangeMakesStale ==
  ASSUME Inv, NEW w \in Workers, NEW roles, SetRoles(w, roles), roles # role
  PROVE  Fresh'
<1>1. \A v \in Workers : step'[v] = IF v = w THEN "idle" ELSE step[v]
  BY DEF SetRoles, End, Inv, TypeInv, Typed
<1> SUFFICES ASSUME ~raced', NEW v \in Workers \ stale'
             PROVE  ~Admitted(v)' /\ ~Counted(v)'
  BY DEF Fresh, Dispensable
<1>2. stale' = Busy \ {w}
  BY DEF SetRoles
<1>3. step'[v] = "idle"
  BY <1>1, <1>2 DEF Busy
<1> QED
  BY <1>3 DEF Admitted, Counted

LEMMA InsertCreatorInv ==
  ASSUME Inv, NEW w \in Workers, InsertCreator(w)
  PROVE  Rest'
<1> DEFINE u == req[w].target
           roles == [role EXCEPT ![u] = "admin"]
<1>1. /\ step[w] = "insertCreator" /\ u \in Users
      /\ SetRoles(w, roles) /\ phase' = phase /\ halfMade' = halfMade
  BY DEF InsertCreator, SetRoles, Inv, TypeInv, Shaped, Shape
<1>2. phase = "live" /\ ~halfMade /\ Members = {}
  BY <1>1 DEF Inv, Creation, Barren
<1>3. \A v \in Workers : step'[v] = IF v = w THEN "idle" ELSE step[v]
  BY <1>1 DEF SetRoles, End, Inv, TypeInv, Typed
<1>4. roles # role /\ role'[u] = "admin"
  BY <1>1, <1>2 DEF SetRoles, Members, Inv, TypeInv, Typed
<1>5. Cascaded'
  BY <1>1, <1>2 DEF Cascaded
<1>6. Creation'
  BY <1>1, <1>2, <1>3 DEF Inv, Creation, Creates
<1>7. Barren'
  BY <1>1, <1>2, <1>3, <1>6 DEF Inv, Barren, Creation, Creates
<1>8. Fresh'
  BY <1>1, <1>4, ChangeMakesStale
<1>9. AdminUnlessRaced'
  BY <1>1, <1>4 DEF AdminUnlessRaced, Admins
<1> QED
  BY <1>5, <1>6, <1>7, <1>8, <1>9 DEF Rest

Writing(w) == InsertMember(w) \/ DeleteMember(w) \/ SetMemberRole(w) \/ DeleteRow(w)

LEMMA WritingFacts ==
  ASSUME Inv, NEW w \in Workers, Writing(w)
  PROVE  /\ step[w] = "write" /\ phase # "unborn"
         /\ req[w].caller \in Users /\ req[w].target \in Users
         /\ SetRoles(w, role') /\ role' \in [Users -> Roles]
         /\ phase' \in {phase, "deleted"} /\ halfMade' = halfMade
         /\ phase' # phase => DeleteRow(w)
         /\ End(w)
<1>1. step[w] = "write" /\ req[w].op # "update"
  BY DEF Writing, InsertMember, DeleteMember, SetMemberRole, DeleteRow, Writes
<1>2. phase # "unborn"
  BY <1>1 DEF Inv, Creation
<1>3. TypeInv'
  BY TypeInvNext
     DEF Writing, Inv, Next
<1>4. SetRoles(w, role')
  BY DEF Writing, InsertMember, DeleteMember, SetMemberRole, DeleteRow, SetRoles
<1> QED
  BY <1>1, <1>2, <1>3, <1>4, WriterFacts
     DEF Writing, InsertMember, DeleteMember, SetMemberRole, DeleteRow, SetRoles,
         TypeInv, Typed, Inv

\* In a group that nobody has joined yet, no write changes anything.
LEMMA Inhabited ==
  ASSUME Inv, NEW w \in Workers, Writing(w), role' # role \/ DeleteRow(w)
  PROVE  /\ ~halfMade
         /\ \A v \in Workers : step[v] # "insertCreator"
<1> SUFFICES ASSUME halfMade \/ \E v \in Workers : step[v] = "insertCreator"
             PROVE  FALSE
  OBVIOUS
<1>1. Members = {} /\ stale = {} /\ ~raced
  BY DEF Inv, Barren
<1>2. \A u \in Users : role[u] = "none"
  BY <1>1 DEF Members
<1>3. ~Admitted(w)
  BY <1>1, <1>2, WritingFacts DEF Inv, Fresh
<1>4. CASE InsertMember(w) \/ SetMemberRole(w) \/ DeleteRow(w)
  BY <1>3, <1>4
     DEF InsertMember, SetMemberRole, DeleteRow, Writes, Admitted
<1>5. CASE DeleteMember(w)
  <2>1. role' = role
    BY <1>2, <1>5, WritingFacts DEF DeleteMember, SetRoles, Inv, TypeInv, Typed
  <2>2. ~DeleteRow(w)
    BY <1>5 DEF DeleteMember, DeleteRow, Writes
  <2> QED
    BY <2>1, <2>2
<1> QED
  BY <1>4, <1>5 DEF Writing

\* The operations of a Roster keep an admin.
LEMMA RosterKeepsAdmin ==
  ASSUME Inv, RosterOf!Next, phase = "live", phase' = "live", ~raced', Admins # {}
  PROVE  Admins' # {}
<1>1. PICK x \in Users : role[x] = "admin"
  BY DEF Admins
<1>2. role \in [Users -> Roles]
  BY DEF Inv, TypeInv, Typed
<1> SUFFICES \E y \in Users : role'[y] = "admin"
  BY DEF Admins
<1>3. CASE RosterOf!Create \/ RosterOf!Race
  BY <1>3 DEF RosterOf!Create, RosterOf!Race
<1>4. ASSUME NEW u \in Users, RosterOf!Found(u) \/ RosterOf!Delete(u)
      PROVE  \E y \in Users : role'[y] = "admin"
  BY <1>1, <1>4 DEF RosterOf!Found, RosterOf!Delete
<1>5. ASSUME NEW u \in Users, RosterOf!Leave(u)
      PROVE  \E y \in Users : role'[y] = "admin"
  BY <1>1, <1>2, <1>5 DEF RosterOf!Leave, RosterOf!Dispensable
<1>6. ASSUME NEW a \in Users, NEW u \in Users, RosterOf!Add(a, u) \/ RosterOf!Remove(a, u)
      PROVE  \E y \in Users : role'[y] = "admin"
  BY <1>2, <1>6 DEF RosterOf!Add, RosterOf!Remove
<1>7. ASSUME NEW a \in Users, NEW u \in Users,
             RosterOf!Promote(a, u) \/ RosterOf!Demote(a, u)
      PROVE  \E y \in Users : role'[y] = "admin"
  BY <1>1, <1>2, <1>7 DEF RosterOf!Promote, RosterOf!Demote, RosterOf!Dispensable
<1> QED
  BY <1>3, <1>4, <1>5, <1>6, <1>7 DEF RosterOf!Next

LEMMA WritingInv ==
  ASSUME Inv, NEW w \in Workers, Writing(w)
  PROVE  Rest'
<1>1. /\ step[w] = "write" /\ phase # "unborn" /\ SetRoles(w, role') /\ End(w)
      /\ phase' \in {phase, "deleted"} /\ halfMade' = halfMade
      /\ phase' # phase => DeleteRow(w)
  BY WritingFacts
<1>2. \A v \in Workers : step'[v] = IF v = w THEN "idle" ELSE step[v]
  BY <1>1 DEF End, Inv, TypeInv, Typed
<1>3. CASE role' = role /\ ~DeleteRow(w)
  <2>1. raced' = raced
    BY <1>1, <1>3 DEF SetRoles, Inv, TypeInv, Typed
  <2>2. stale' \subseteq stale /\ (~raced => stale' = stale \ {w})
    BY <1>1, <1>3, <2>1 DEF SetRoles
  <2> QED
    BY <1>1, <1>3, <2>1, <2>2, Ends DEF Inv, TypeInv, Typed
<1>4. CASE role' # role \/ DeleteRow(w)
  <2>1. ~halfMade /\ \A v \in Workers : step[v] # "insertCreator"
    BY <1>4, Inhabited
  <2>2. Cascaded'
    <3>1. CASE DeleteRow(w)
      BY <3>1 DEF DeleteRow, SetRoles, Cascade, Cascaded, Members
    <3>2. CASE ~DeleteRow(w)
      <4>1. phase' = phase
        BY <1>1, <3>2
      <4>2. phase # "live" => role' = role
        <5> SUFFICES ASSUME phase # "live" PROVE role' = role
          OBVIOUS
        <5>1. role \in [Users -> Roles] /\ \A u \in Users : role[u] = "none"
          BY DEF Inv, Cascaded, Members, TypeInv, Typed
        <5>2. req[w].target \in Users
          BY WritingFacts
        <5> QED
          BY <3>2, <5>1, <5>2
             DEF Writing, InsertMember, DeleteMember, SetMemberRole, SetRoles
      <4> QED
        BY <4>1, <4>2 DEF Inv, Cascaded, Members
    <3> QED
      BY <3>1, <3>2
  <2>3. Creation'
    BY <1>1, <1>2, <2>1 DEF Inv, Creation, Creates
  <2>4. Barren'
    BY <1>1, <1>2, <2>1 DEF Barren
  <2>5. Fresh'
    <3>1. CASE role' # role
      BY <1>1, <3>1, ChangeMakesStale
    <3>2. CASE role' = role
      <4> SUFFICES ASSUME ~raced', NEW v \in Workers \ stale'
                   PROVE  /\ Admitted(v)' => /\ role[req'[v].caller] = "admin"
                                             /\ req'[v].op = "remove" =>
                                                  req'[v].target # req'[v].caller
                          /\ Counted(v)' => Dispensable(req'[v].target)
        BY <3>2 DEF Fresh, Dispensable
      <4>1. ~raced /\ stale' = stale \ {w}
        BY <1>1, <3>2 DEF SetRoles
      <4>2. CASE v = w
        BY <1>2, <4>2 DEF Admitted, Counted
      <4>3. CASE v # w
        <5>1. req'[v] = req[v] /\ step'[v] = step[v] /\ v \notin stale
          BY <1>1, <1>2, <4>1, <4>3 DEF End, Inv, TypeInv, Typed
        <5> QED
          BY <4>1, <5>1 DEF Inv, Fresh, Admitted, Counted
      <4> QED
        BY <4>2, <4>3
    <3> QED
      BY <3>1, <3>2
  <2>6. AdminUnlessRaced'
    <3> SUFFICES ASSUME phase' = "live", ~raced' PROVE Admins' # {}
      BY DEF AdminUnlessRaced
    <3>1. phase = "live" /\ ~DeleteRow(w)
      BY <1>1 DEF DeleteRow
    <3>2. role' # role
      BY <1>4, <3>1
    <3>3. RosterOf!Next
      BY <3>2, WriteRefines DEF Writing, RosterOf!vars
    <3>4. Admins # {}
      BY <1>1, <2>1, <3>1 DEF SetRoles, Inv, AdminUnlessRaced
    <3> QED
      BY <3>1, <3>3, <3>4, RosterKeepsAdmin
  <2> QED
    BY <2>2, <2>3, <2>4, <2>5, <2>6 DEF Rest
<1> QED
  BY <1>3, <1>4

LEMMA InvNext == Inv /\ [Next]_vars => Inv'
<1> SUFFICES ASSUME Inv, [Next]_vars PROVE Rest'
  BY TypeInvNext DEF Inv, Rest
<1>1. ASSUME NEW w \in Workers, NEW u \in Users,
             CreateGroup(w, u) \/ LeaveGroup(w, u) \/ DeleteGroup(w, u)
      PROVE  Rest'
  <2>1. CASE CreateGroup(w, u)
    BY <2>1, CreateInv
  <2>2. CASE LeaveGroup(w, u) \/ DeleteGroup(w, u)
    BY <2>2, BeginInv DEF LeaveGroup, DeleteGroup, Requests
  <2> QED
    BY <1>1, <2>1, <2>2
<1>2. ASSUME NEW w \in Workers, NEW a \in Users, NEW u \in Users,
             AddMember(w, a, u) \/ RemoveMember(w, a, u)
      PROVE  Rest'
  BY <1>2, BeginInv DEF AddMember, RemoveMember, Requests
<1>3. ASSUME NEW w \in Workers, NEW a \in Users, NEW u \in Users,
             NEW r \in {"member", "admin"}, UpdateMemberRole(w, a, u, r)
      PROVE  Rest'
  BY <1>3, BeginInv DEF UpdateMemberRole, Requests
<1>4. ASSUME NEW w \in Workers, NEW a \in Users, NEW b \in Bodies, UpdateGroup(w, a, b)
      PROVE  Rest'
  BY <1>4, BeginInv DEF UpdateGroup, Requests
<1>5. ASSUME UNCHANGED vars PROVE Rest'
  BY <1>5
     DEF vars, tables, control, history, Rest, Inv, Cascaded, Creation, Creates,
         Barren, Fresh, Admitted, Counted, AdminUnlessRaced, Members, Admins,
         Dispensable
<1> QED
  BY <1>1, <1>2, <1>3, <1>4, <1>5, ReadInv, EndInv, InsertGroupInv,
     InsertCreatorInv, WritingInv
     DEF Next, Writing

-----------------------------------------------------------------------------
(* What has been true since a request began.  A check that passes reads it, *)
(* and nothing that others do later takes it back.                          *)

Observed ==
  \A w \in Busy : /\ CallerIsAdmin(w) => w \in held
                  /\ TargetIsSpare(w) => w \in spare

Checked ==
  \A w \in Workers :
    /\ Admitted(w) => /\ w \in held
                      /\ req[w].op = "remove" => w \in spare
    /\ Counted(w) => w \in spare

\* A statement that is not a request's last one and reads only.
LEMMA ReadMoves ==
  ASSUME TypeInv, NEW w \in Workers,
         \/ RequireAdmin(w) \/ TargetRole(w) \/ CountAdmins(w) \/ FindGroup(w)
         \/ InsertGroup(w),
         ~Observe
  PROVE  /\ UNCHANGED <<role, held, spare>>
         /\ Busy' = Busy
         /\ \A v \in Busy : /\ req'[v].caller = req[v].caller
                            /\ TakesAway(req'[v]) <=> TakesAway(req[v])
                            /\ TakesAway(req[v]) => req'[v] = req[v]
<1>1. step[w] # "idle"
  BY DEF RequireAdmin, TargetRole, CountAdmins, FindGroup, InsertGroup
<1>2. ASSUME NEW s \in Steps \ {"idle"}, step' = [step EXCEPT ![w] = s]
      PROVE  Busy' = Busy
  BY <1>1, <1>2 DEF Busy, TypeInv, Typed
<1>3. ASSUME NEW s \in Steps \ {"idle"}, Goto(w, s), UNCHANGED req
      PROVE  UNCHANGED <<role, held, spare, req>> /\ Busy' = Busy
  BY <1>2, <1>3 DEF Goto, tables, moments
<1>4. ~Refuse(w)
  BY DEF Refuse, End
<1>5. CASE RequireAdmin(w)
  <2>1. AfterAuth(req[w]) \in Steps \ {"idle"}
    BY <1>5 DEF RequireAdmin, TypeInv, Shaped, Shape, AfterAuth, Steps
  <2> QED
    BY <1>3, <1>4, <1>5, <2>1 DEF RequireAdmin
<1>6. CASE TargetRole(w) \/ CountAdmins(w)
  BY <1>3, <1>4, <1>6 DEF TargetRole, CountAdmins, Steps
<1>7. CASE FindGroup(w)
  <2>1. /\ Goto(w, "write")
        /\ req' = [req EXCEPT ![w] = [op |-> "update", caller |-> req[w].caller,
                                      body |-> req[w].body, copy |-> details]]
    BY <1>4, <1>7 DEF FindGroup
  <2>2. req[w].op = "update"
    BY <1>7 DEF FindGroup, TypeInv, Shaped, Shape
  <2>3. Busy' = Busy /\ UNCHANGED <<role, held, spare>>
    BY <1>2, <2>1 DEF Goto, tables, moments, Steps
  <2>4. ~TakesAway(req[w]) /\ ~TakesAway(req'[w]) /\ req'[w].caller = req[w].caller
    BY <2>1, <2>2 DEF TakesAway, TypeInv, Typed
  <2>5. \A v \in Workers \ {w} : req'[v] = req[v]
    BY <2>1 DEF TypeInv, Typed
  <2> QED
    BY <2>3, <2>4, <2>5 DEF Busy
<1>8. CASE InsertGroup(w)
  BY <1>2, <1>8 DEF InsertGroup, moments, Steps
<1> QED
  BY <1>5, <1>6, <1>7, <1>8

LEMMA Kept ==
  ASSUME TypeInv, Observed, [Next]_vars
  PROVE  /\ Observed'
         /\ \A w \in Busy' : /\ w \in held => w \in held'
                             /\ w \in spare => w \in spare'
<1>1. ASSUME Observe
      PROVE  /\ Observed'
             /\ \A w \in Busy' : /\ w \in held => w \in held'
                                 /\ w \in spare => w \in spare'
  BY <1>1 DEF Observe, Observed, CallerIsAdmin, TargetIsSpare
<1>2. ASSUME UNCHANGED <<role, held, spare>>, Busy' = Busy,
             \A w \in Busy : /\ req'[w].caller = req[w].caller
                             /\ TakesAway(req'[w]) <=> TakesAway(req[w])
                             /\ TakesAway(req[w]) => req'[w] = req[w]
      PROVE  /\ Observed'
             /\ \A w \in Busy' : /\ w \in held => w \in held'
                                 /\ w \in spare => w \in spare'
  <2>1. \A w \in Busy : CallerIsAdmin(w)' => CallerIsAdmin(w)
    BY <1>2 DEF CallerIsAdmin
  <2>2. \A w \in Busy : TargetIsSpare(w)' => TargetIsSpare(w)
    BY <1>2 DEF TargetIsSpare, Dispensable
  <2> QED
    BY <1>2, <2>1, <2>2 DEF Observed
<1>3. ASSUME NEW w \in Workers, NEW r, NEW s, Begin(w, r, s) PROVE Observe
  BY <1>3 DEF Begin
<1>4. ASSUME NEW w \in Workers,
             \/ InsertCreator(w) \/ InsertMember(w) \/ DeleteMember(w)
             \/ SetMemberRole(w) \/ DeleteRow(w) \/ UpdateRow(w) \/ Fail(w)
      PROVE  Observe
  BY <1>4 DEF InsertCreator, InsertMember, DeleteMember, SetMemberRole, DeleteRow,
              UpdateRow, Fail, SetRoles, End
<1>5. CASE UNCHANGED vars
  BY <1>2, <1>5 DEF vars, tables, control, moments, Busy
<1>6. CASE Next
  BY <1>1, <1>2, <1>3, <1>4, <1>6, ReadMoves
     DEF Next, CreateGroup, LeaveGroup, DeleteGroup, AddMember, RemoveMember,
         UpdateMemberRole, UpdateGroup
<1> QED
  BY <1>5, <1>6

\* A statement of w that lets its request go on to its write has just read what
\* the write needs; a statement of another worker leaves w where it is.
LEMMA CheckedStep ==
  ASSUME Inv, Observed, Checked, [Next]_vars, NEW w \in Workers
  PROVE  /\ Admitted(w)' => /\ w \in held
                            /\ req'[w].op = "remove" => w \in spare
         /\ Counted(w)' => w \in spare
<1> DEFINE Good == /\ Admitted(w)' => /\ w \in held
                                      /\ req'[w].op = "remove" => w \in spare
                   /\ Counted(w)' => w \in spare
<1>1. ASSUME step'[w] = step[w], req'[w] = req[w] PROVE Good
  BY <1>1 DEF Checked, Admitted, Counted
<1>2. ASSUME step'[w] \in {"idle", "requireAdmin", "insertGroup", "insertCreator"}
             \/ (step'[w] = "targetRole" /\ req'[w].op = "leave")
      PROVE  Good
  BY <1>2 DEF Admitted, Counted
<1>3. ASSUME NEW v \in Workers, NEW r, NEW s, v # w,
             req' = req \/ req' = [req EXCEPT ![v] = r], step' = [step EXCEPT ![v] = s]
      PROVE  Good
  BY <1>1, <1>3 DEF Inv, TypeInv, Typed
<1>4. ASSUME NEW v \in Workers, End(v) PROVE Good
  <2>1. CASE v = w
    BY <1>2, <1>4, <2>1 DEF End, Inv, TypeInv, Typed
  <2> QED
    BY <1>3, <1>4, <2>1 DEF End
<1>5. ASSUME NEW v \in Workers, NEW r, NEW s,
             Begin(v, r, s), s \in {"requireAdmin", "insertGroup"} \/ r.op = "leave",
             s \in {"requireAdmin", "insertGroup", "targetRole"}
      PROVE  Good
  <2>1. CASE v = w
    BY <1>2, <1>5, <2>1 DEF Begin, Inv, TypeInv, Typed
  <2> QED
    BY <1>3, <1>5, <2>1 DEF Begin
<1>6. ASSUME Goto(w, step'[w]), UNCHANGED req, step[w] # "idle"
      PROVE  /\ req'[w] = req[w] /\ w \in Busy
             /\ Admitted(w) => w \in held /\ (req[w].op = "remove" => w \in spare)
             /\ CallerIsAdmin(w) => w \in held
             /\ TakesAway(req[w]) /\ Dispensable(req[w].target) => w \in spare
  BY <1>6 DEF Observed, Checked, Busy, TargetIsSpare
<1>7. CASE RequireAdmin(w)
  <2>1. CASE Authorized(req[w])
    <3>1. Goto(w, AfterAuth(req[w])) /\ UNCHANGED req /\ step'[w] = AfterAuth(req[w])
      BY <1>7, <2>1 DEF RequireAdmin, Goto, Inv, TypeInv, Typed
    <3>2. CallerIsAdmin(w) /\ (req[w].op = "remove" => req[w].target # req[w].caller)
      BY <2>1 DEF Authorized, CallerIsAdmin
    <3>3. w \in held
      BY <1>6, <1>7, <3>1, <3>2 DEF RequireAdmin
    <3>4. CASE req[w].op = "remove"
      <4>1. req[w].caller \in Users
        BY <1>7, <3>4 DEF RequireAdmin, Inv, TypeInv, Shaped, Shape
      <4>2. TakesAway(req[w]) /\ Dispensable(req[w].target)
        BY <3>2, <3>4, <4>1 DEF TakesAway, Dispensable, CallerIsAdmin
      <4>3. w \in spare
        BY <1>6, <1>7, <3>1, <4>2 DEF RequireAdmin
      <4> QED
        BY <3>3, <4>3
    <3>5. CASE req[w].op # "remove"
      <4>1. ~Counted(w)'
        BY <1>7, <3>1, <3>5
           DEF RequireAdmin, Inv, TypeInv, Shaped, Shape, AfterAuth, Counted
      <4> QED
        BY <3>1, <3>3, <3>5, <4>1
    <3> QED
      BY <3>4, <3>5
  <2>2. CASE ~Authorized(req[w])
    BY <1>4, <1>7, <2>2 DEF RequireAdmin, Refuse
  <2> QED
    BY <2>1, <2>2
<1>8. CASE TargetRole(w) \/ CountAdmins(w)
  <2>1. CASE Refuse(w)
    BY <1>4, <2>1 DEF Refuse
  <2>2. CASE ~Refuse(w)
    <3>1. /\ Goto(w, step'[w]) /\ UNCHANGED req
          /\ step[w] \in {"targetRole", "countAdmins"}
          /\ step'[w] = "write" => role[req[w].target] # "admin" \/ ~LastAdmin
      BY <1>8, <2>2 DEF TargetRole, CountAdmins, Goto, Inv, TypeInv, Typed
    <3>2. req[w].target \in Users
      BY <3>1 DEF Inv, TypeInv, Shaped, Shape
    <3>3. step'[w] = "write" => Dispensable(req[w].target)
      BY <3>1, <3>2, NotTheLast DEF Dispensable
    <3>4. Counted(w)' => w \in spare
      BY <1>6, <3>1, <3>3 DEF Counted, TakesAway
    <3>5. Admitted(w)' => Admitted(w)
      BY <1>6, <3>1 DEF Admitted
    <3> QED
      BY <1>6, <3>1, <3>4, <3>5
  <2> QED
    BY <2>1, <2>2
<1>9. CASE FindGroup(w)
  <2>1. CASE Refuse(w)
    BY <1>4, <2>1 DEF Refuse
  <2>2. CASE ~Refuse(w)
    <3>1. /\ req[w].op = "update" /\ step[w] = "findGroup"
          /\ req'[w].op = "update"
      BY <1>9, <2>2 DEF FindGroup, Inv, TypeInv, Typed, Shaped, Shape
    <3> QED
      BY <3>1 DEF Checked, Admitted, Counted
  <2> QED
    BY <2>1, <2>2
<1>10. CASE InsertGroup(w)
  BY <1>2, <1>10 DEF InsertGroup, Inv, TypeInv, Typed
<1>11. ASSUME NEW v \in Workers, v # w,
              \/ RequireAdmin(v) \/ TargetRole(v) \/ CountAdmins(v) \/ FindGroup(v)
              \/ InsertGroup(v)
       PROVE  Good
  BY <1>3, <1>4, <1>11
     DEF RequireAdmin, TargetRole, CountAdmins, FindGroup, InsertGroup, Goto, Refuse
<1>12. ASSUME NEW v \in Workers,
              \/ InsertCreator(v) \/ InsertMember(v) \/ DeleteMember(v)
              \/ SetMemberRole(v) \/ DeleteRow(v) \/ UpdateRow(v) \/ Fail(v)
       PROVE  Good
  BY <1>4, <1>12 DEF InsertCreator, InsertMember, DeleteMember, SetMemberRole, DeleteRow,
                     UpdateRow, Fail, SetRoles
<1>13. CASE UNCHANGED vars
  BY <1>1, <1>13 DEF vars, control
<1>14. CASE Next
  BY <1>5, <1>7, <1>8, <1>9, <1>10, <1>11, <1>12, <1>14
     DEF Next, CreateGroup, LeaveGroup, DeleteGroup, AddMember, RemoveMember,
         UpdateMemberRole, UpdateGroup
<1> QED
  BY <1>13, <1>14

Memory == Inv /\ Observed /\ Checked

LEMMA MemoryNext == Memory /\ [Next]_vars => Memory'
<1> SUFFICES ASSUME Memory, [Next]_vars PROVE Memory'
  OBVIOUS
<1>1. Inv'
  BY InvNext DEF Memory
<1>2. /\ Observed'
      /\ \A w \in Busy' : /\ w \in held => w \in held'
                          /\ w \in spare => w \in spare'
  BY Kept DEF Memory, Inv
<1>3. ASSUME NEW w \in Workers
      PROVE  /\ Admitted(w)' => /\ w \in held'
                                /\ req'[w].op = "remove" => w \in spare'
             /\ Counted(w)' => w \in spare'
  <2>1. Admitted(w)' \/ Counted(w)' => w \in Busy'
    BY DEF Admitted, Counted, Busy
  <2> QED
    BY <1>2, <2>1, CheckedStep DEF Memory
<1>4. Checked'
  BY <1>3 DEF Checked
<1> QED
  BY <1>1, <1>2, <1>4 DEF Memory

-----------------------------------------------------------------------------
\* The types, and: only a live group has members, whatever overlaps.
THEOREM MembershipTypeCorrect == Spec => []TypeOK
<1>1. Inv => TypeOK
  BY DEF Inv, TypeInv, Cascaded, TypeOK
<1> QED
  BY InvInit, InvNext, <1>1, PTL DEF Spec

\* A live group has an admin unless requests have raced, or its creation is
\* not finished or failed half-way.
THEOREM MembershipKeepsAdmin == Spec => []AdminUnlessRaced
<1>1. Inv => AdminUnlessRaced
  BY DEF Inv
<1> QED
  BY InvInit, InvNext, <1>1, PTL DEF Spec

\* No request is carried out, however late, that was not the right of its caller
\* at some moment since it began, and none takes a role away that could not be
\* spared at any moment since then.
THEOREM MembershipJustified == Spec => []Justified
<1>1. Init => Memory
  BY InvInit DEF Init, Memory, Observed, Checked, Busy, Admitted, Counted
<1>2. Memory => Justified
  <2> SUFFICES ASSUME Memory, NEW w \in Workers, step[w] = "write"
               PROVE  /\ req[w].op # "leave" => w \in held
                      /\ TakesAway(req[w]) => w \in spare
    BY DEF Justified
  <2>1. req[w].op \in {"add", "remove", "delete", "role", "update", "leave"}
    BY DEF Memory, Inv, TypeInv, Shaped, Shape
  <2>2. req[w].op # "leave" => Admitted(w)
    BY <2>1 DEF Admitted
  <2>3. TakesAway(req[w]) => Counted(w) \/ (Admitted(w) /\ req[w].op = "remove")
    BY <2>2 DEF TakesAway, Counted
  <2> QED
    BY <2>2, <2>3 DEF Memory, Checked
<1> QED
  BY MemoryNext, <1>1, <1>2, PTL DEF Spec

\* The requests implement the Roster: each change of the roles by a request
\* that is not stale is one operation, asked for by an admin of that moment, and
\* each by a stale one still changes one row only, or deletes the group.
THEOREM MembershipRefinesRoster == Spec => RosterSpec
<1>1. Init => RosterOf!Init
  BY DEF Init, RosterOf!Init
<1>2. Inv /\ [Next]_vars => [RosterOf!Next]_RosterOf!vars
  BY NextRefines
<1> QED
  BY InvInit, InvNext, <1>1, <1>2, PTL DEF Spec, RosterSpec, RosterOf!Spec
=============================================================================
