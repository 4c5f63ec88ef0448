-------------------------- MODULE WorkspaceMembers --------------------------
(***************************************************************************)
(* The membership half of WorkspacesService: create, change a role,        *)
(* remove, leave, transfer.  A handler is a chain of awaited queries with  *)
(* no transaction around it (transfer wraps only its two UPDATEs), so each *)
(* query is an action and the queries of concurrent requests interleave.   *)
(*                                                                         *)
(* A request slot is idle or carries one call.  `call[r].role` is the role *)
(* WorkspaceGuard read on admission; the handler never reads it again.     *)
(* update, remove and leave end in one statement on the target's row, so   *)
(* `newRole` is the value that statement gives the row, NoRow a deletion.  *)
(*                                                                         *)
(* Invites are WorkspaceInvites' subject: here Join is the one effect an   *)
(* accepted invite has on the member rows.                                 *)
(***************************************************************************)
EXTENDS Naturals, FiniteSets

CONSTANTS
  Users,        \* accounts
  Workspaces,   \* workspace ids, whether or not the row exists yet
  Requests      \* slots for HTTP requests in flight at the same time

ASSUME UsersFinite == IsFiniteSet(Users)

Owner  == "owner"
Admin  == "admin"
Member == "member"
NoRow  == "none"

Roles    == {Owner, Admin, Member}
Managers == {Owner, Admin}

VARIABLES
  workspaces,   \* ids of the rows of table workspaces
  role,         \* table workspace_members: role[w][u], NoRow if no row
  pc,           \* the next query of each request
  call,         \* what each request asked for, and the role the guard saw
  held,         \* open transfer transactions that have locked the target row
  founded,      \* ghost: workspaces whose first owner row was inserted
  overtaken     \* ghost: requests some other request's write came before

vars == <<workspaces, role, pc, call, held, founded, overtaken>>

Ops == {"create", "update", "remove", "leave", "transfer"}

Call == [op : Ops, ws : Workspaces, actor : Users, target : Users,
         newRole : Roles \union {NoRow}, role : Roles \union {NoRow}]

NoCall == [op |-> "none", ws |-> "none", actor |-> "none", target |-> "none",
           newRole |-> "none", role |-> "none"]

Labels == {"idle", "addOwner", "findActor", "findTarget", "countOwners",
           "write", "promote", "demote"}

TypeOK ==
  /\ workspaces \subseteq Workspaces
  /\ founded \subseteq Workspaces
  /\ role \in [Workspaces -> [Users -> Roles \union {NoRow}]]
  /\ pc \in [Requests -> Labels]
  /\ call \in [Requests -> Call \union {NoCall}]
  /\ \A r \in Requests : pc[r] = "idle" <=> call[r] = NoCall
  /\ held \subseteq {r \in Requests : pc[r] = "demote"}
  /\ overtaken \subseteq Requests

Owners(w) == {u \in Users : role[w][u] = Owner}

Init ==
  /\ workspaces = {}
  /\ role = [w \in Workspaces |-> [u \in Users |-> NoRow]]
  /\ pc = [r \in Requests |-> "idle"]
  /\ call = [r \in Requests |-> NoCall]
  /\ held = {}
  /\ founded = {}
  /\ overtaken = {}

-----------------------------------------------------------------------------
(* Helpers                                                                 *)

Goto(r, label) == pc' = [pc EXCEPT ![r] = label]

\* The response is sent, or the request is lost: the slot is free again.
Finish(r) ==
  /\ Goto(r, "idle")
  /\ call' = [call EXCEPT ![r] = NoCall]

\* Reads and replies that write no row.
NoWrite == UNCHANGED <<workspaces, role, held, founded, overtaken>>

\* A committed write of r overtakes the others at work on the same workspace.
Overtake(r) ==
  overtaken' = (overtaken \ {r})
                 \union {s \in Requests \ {r} : call[s].ws = call[r].ws}

\* The row of u in w is locked by the open transaction of another request.
LockedByOther(r, w, u) ==
  \E s \in held \ {r} : call[s].ws = w /\ call[s].target = u

\* UPDATE and DELETE match the row if there is one, and nothing otherwise.
Matched(w, u, new) == IF role[w][u] = NoRow THEN NoRow ELSE new

-----------------------------------------------------------------------------
(* Admission: WorkspaceGuard reads the caller's row, WorkspaceRolesGuard   *)
(* compares it with the route's roles.  A refused request changes nothing. *)

RouteRoles(op) ==
  CASE op = "transfer"            -> {Owner}
    [] op \in {"update", "remove"} -> Managers
    [] OTHER                      -> Roles

FirstQuery(op, ctx) ==
  CASE op \in {"update", "remove"} -> "findTarget"
    [] op = "leave"                -> IF ctx = Owner THEN "countOwners" ELSE "write"
    [] OTHER                       -> "findActor"

Admit(r, c) ==
  /\ pc[r] = "idle"
  /\ role[c.ws][c.actor] = c.role
  /\ Goto(r, FirstQuery(c.op, c.role))
  /\ call' = [call EXCEPT ![r] = c]
  /\ overtaken' = overtaken \ {r}
  /\ UNCHANGED <<workspaces, role, held, founded>>

BeginUpdate(r) ==
  \E w \in Workspaces, a, t \in Users, new, ctx \in Roles :
    /\ ctx \in RouteRoles("update")
    /\ Admit(r, [op |-> "update", ws |-> w, actor |-> a, target |-> t,
                 newRole |-> new, role |-> ctx])

BeginRemove(r) ==
  \E w \in Workspaces, a, t \in Users, ctx \in Roles :
    /\ ctx \in RouteRoles("remove")
    /\ Admit(r, [op |-> "remove", ws |-> w, actor |-> a, target |-> t,
                 newRole |-> NoRow, role |-> ctx])

BeginLeave(r) ==
  \E w \in Workspaces, a \in Users, ctx \in Roles :
    /\ ctx \in RouteRoles("leave")
    /\ Admit(r, [op |-> "leave", ws |-> w, actor |-> a, target |-> a,
                 newRole |-> NoRow, role |-> ctx])

\* INVALID_TRANSFER: nobody transfers to themselves.
BeginTransfer(r) ==
  \E w \in Workspaces, a, t \in Users, ctx \in Roles :
    /\ a # t
    /\ ctx \in RouteRoles("transfer")
    /\ Admit(r, [op |-> "transfer", ws |-> w, actor |-> a, target |-> t,
                 newRole |-> Owner, role |-> ctx])

-----------------------------------------------------------------------------
(* Founding a workspace                                                    *)

\* Registration inserts user, workspace and owner row in one transaction.
createDefaultWorkspaceForNewUser(w, u) ==
  /\ w \notin workspaces
  /\ workspaces' = workspaces \union {w}
  /\ founded' = founded \union {w}
  /\ role' = [role EXCEPT ![w][u] = Owner]
  /\ UNCHANGED <<pc, call, held, overtaken>>

\* createWorkspace saves the workspace row first, on its own...
BeginCreate(r) ==
  \E w \in Workspaces \ workspaces, a \in Users :
    /\ pc[r] = "idle"
    /\ workspaces' = workspaces \union {w}
    /\ Goto(r, "addOwner")
    /\ call' = [call EXCEPT ![r] = [op |-> "create", ws |-> w, actor |-> a,
                  target |-> a, newRole |-> Owner, role |-> NoRow]]
    /\ overtaken' = overtaken \ {r}
    /\ UNCHANGED <<role, held, founded>>

\* ... and then its owner row.
AddOwner(r) ==
  /\ pc[r] = "addOwner"
  /\ role' = [role EXCEPT ![call[r].ws][call[r].actor] = Owner]
  /\ founded' = founded \union {call[r].ws}
  /\ Finish(r)
  /\ UNCHANGED <<workspaces, held, overtaken>>

-----------------------------------------------------------------------------
(* The queries of update, remove and leave                                 *)

TargetRole(r) == role[call[r].ws][call[r].target]

\* A slip: managers are equal.
EveryManagerManages(actorRole, targetRole) == TRUE

\* assertActorCanManageTarget: an admin may not touch an owner.
assertActorCanManageTarget(actorRole, targetRole) ==
  ~(actorRole = Admin /\ targetRole = Owner)

\* A slip: admins may hand out the owner role.
AnyoneAssigns(actorRole, newRole) == TRUE

\* Only an owner assigns the owner role.
MayAssign(actorRole, newRole) == newRole = Owner => actorRole = Owner

\* A slip: a demotion takes nothing away.
TakesOwnerOnRemoval(targetRole, newRole) == targetRole = Owner /\ newRole = NoRow

\* The write takes an owner away, so the owners are counted first.
TakesOwner(targetRole, newRole) == targetRole = Owner /\ newRole # Owner

FindTarget(r) ==
  /\ pc[r] = "findTarget"
  /\ call[r].op \in {"update", "remove"}
  /\ IF /\ TargetRole(r) # NoRow
        /\ assertActorCanManageTarget(call[r].role, TargetRole(r))
        /\ MayAssign(call[r].role, call[r].newRole)
       THEN /\ Goto(r, IF TakesOwner(TargetRole(r), call[r].newRole)
                         THEN "countOwners" ELSE "write")
            /\ call' = call
       ELSE Finish(r)
  /\ NoWrite

\* A slip: the owner about to go is counted as one who stays.
OneOwnerIsEnough(w) == Cardinality(Owners(w)) >= 1

\* LAST_OWNER
EnoughOwners(w) == Cardinality(Owners(w)) > 1

CountOwners(r) ==
  /\ pc[r] = "countOwners"
  /\ IF EnoughOwners(call[r].ws) THEN Goto(r, "write") /\ call' = call
                                 ELSE Finish(r)
  /\ NoWrite

\* updateRole or deleteByWorkspaceAndUser: one statement, waiting for a
\* transfer that has locked the row.
Write(r) ==
  LET w == call[r].ws
      t == call[r].target
  IN  /\ pc[r] = "write"
      /\ ~LockedByOther(r, w, t)
      /\ role' = [role EXCEPT ![w][t] = Matched(w, t, call[r].newRole)]
      /\ Overtake(r)
      /\ Finish(r)
      /\ UNCHANGED <<workspaces, held, founded>>

-----------------------------------------------------------------------------
(* transferOwnership                                                       *)

FindActor(r) ==
  /\ pc[r] = "findActor"
  /\ IF role[call[r].ws][call[r].actor] = Owner
       THEN Goto(r, "findTarget") /\ call' = call
       ELSE Finish(r)
  /\ NoWrite

FindNewOwner(r) ==
  /\ pc[r] = "findTarget"
  /\ call[r].op = "transfer"
  /\ IF TargetRole(r) # NoRow THEN Goto(r, "promote") /\ call' = call
                              ELSE Finish(r)
  /\ NoWrite

\* First UPDATE of the transaction: locks the target's row, if it is there.
Promote(r) ==
  /\ pc[r] = "promote"
  /\ ~LockedByOther(r, call[r].ws, call[r].target)
  /\ Goto(r, "demote")
  /\ held' = held \union {s \in {r} : TargetRole(r) # NoRow}
  /\ UNCHANGED <<workspaces, role, call, founded, overtaken>>

\* Second UPDATE and COMMIT: the promoted row becomes visible with it.
Demote(r) ==
  LET w == call[r].ws
      a == call[r].actor
      t == call[r].target
  IN  /\ pc[r] = "demote"
      /\ ~LockedByOther(r, w, a)
      /\ role' = [role EXCEPT ![w] =
                    [role[w] EXCEPT ![t] = IF r \in held THEN Owner ELSE TargetRole(r),
                                    ![a] = Matched(w, a, Admin)]]
      /\ held' = held \ {r}
      /\ Overtake(r)
      /\ Finish(r)
      /\ UNCHANGED <<workspaces, founded>>

\* The second UPDATE of s waits for the row the first one of h has locked.
WaitsFor(s, h) ==
  s # h /\ call[s].ws = call[h].ws /\ call[s].actor = call[h].target

\* r is in a cycle of open transactions waiting for each other.
Deadlocked(r) ==
  \E S \in SUBSET {s \in held : pc[s] = "demote"} :
    /\ r \in S
    /\ \A s \in S : \E h \in S : WaitsFor(s, h)
    /\ \A h \in S : \E s \in S : WaitsFor(s, h)

\* A slip: the failed transaction is left open.
AbortKeepsLock(r) ==
  /\ Deadlocked(r)
  /\ Finish(r)
  /\ UNCHANGED <<workspaces, role, held, founded, overtaken>>

\* PostgreSQL aborts one transaction of the cycle.
AbortDeadlock(r) ==
  /\ Deadlocked(r)
  /\ held' = held \ {r}
  /\ Finish(r)
  /\ UNCHANGED <<workspaces, role, founded, overtaken>>

-----------------------------------------------------------------------------
(* Environment                                                             *)

\* acceptInvite commits a row for a user who has none; an invite is for an
\* admin or a member, and only a founded workspace ever issued one.
Join(w, u) ==
  /\ w \in founded
  /\ role[w][u] = NoRow
  /\ \E invited \in {Admin, Member} : role' = [role EXCEPT ![w][u] = invited]
  /\ UNCHANGED <<workspaces, pc, call, held, founded, overtaken>>

\* The process dies under the request, or its connection does: what was
\* committed stays, an open transaction rolls back.
Crash(r) ==
  /\ pc[r] # "idle"
  /\ held' = held \ {r}
  /\ Finish(r)
  /\ UNCHANGED <<workspaces, role, founded, overtaken>>

-----------------------------------------------------------------------------

Handle(r) ==
  \/ AddOwner(r)
  \/ FindTarget(r)
  \/ CountOwners(r)
  \/ Write(r)
  \/ FindActor(r)
  \/ FindNewOwner(r)
  \/ Promote(r)
  \/ Demote(r)
  \/ AbortDeadlock(r)

Begin(r) ==
  \/ BeginCreate(r)
  \/ BeginUpdate(r)
  \/ BeginRemove(r)
  \/ BeginLeave(r)
  \/ BeginTransfer(r)

Next ==
  \/ \E w \in Workspaces, u \in Users :
       createDefaultWorkspaceForNewUser(w, u) \/ Join(w, u)
  \/ \E r \in Requests : Begin(r) \/ Handle(r) \/ Crash(r)

Spec == Init /\ [][Next]_vars

-----------------------------------------------------------------------------
(* Properties                                                              *)

Rules == INSTANCE MembershipRules

\* What the rules let the caller do to the member rows in one atomic step.
RuleFor(c) ==
  \/ c.op = "update"   /\ Rules!ChangeRole(c.ws, c.actor, c.target, c.newRole)
  \/ c.op = "remove"   /\ Rules!Remove(c.ws, c.actor, c.target)
  \/ c.op = "leave"    /\ Rules!Leave(c.ws, c.actor)
  \/ c.op = "transfer" /\ Rules!Transfer(c.ws, c.actor, c.target)

\* A request commits its write by the rules, unless it was overtaken.
CommitsByTheRules(r) ==
  /\ pc[r] \in {"write", "demote"} /\ pc'[r] = "idle"
  /\ r \in overtaken \/ RuleFor(call[r])

\* However requests interleave, crash and deadlock, a request changes the
\* member rows as the documented rules allow its caller at that moment, unless
\* it was overtaken by another request's write between its admission and its
\* own write: the checks of updateMemberRole, removeMember, leaveWorkspace and
\* transferOwnership are right about the state they read.
UnovertakenRequestsAreAtomic ==
  [][\/ \E w \in Workspaces, u \in Users :
          Rules!Found(w, u) \/ \E invited \in {Admin, Member} : Rules!Join(w, u, invited)
     \/ \E r \in Requests : CommitsByTheRules(r)]_role

\* If requests are served one at a time, crashes included, the handlers do
\* what the documented rules say and nothing else.
ImplementsRules == Rules!Spec

\* "Workspace must keep at least one owner" (workspaces.service.ts:267): as
\* long as requests are served one at a time, no step takes the last owner of a
\* workspace away.  Concurrent requests can: SoleOwnersStay is one way.
KeepsAnOwner ==
  [][\A w \in Workspaces : Owners(w) # {} => Owners(w)' # {}]_role

\* r commits its write in this step, if the step changes member rows at all.
Commits(r) == pc[r] \in {"write", "demote"} /\ pc'[r] = "idle"

\* "sole owner must transfer ownership first" (workspaces.service.ts:307): an
\* owner whose departure has passed leaveWorkspace's count of the owners is not
\* the only one when the row is deleted.  The count and the DELETE are two
\* queries, and another owner may leave between them on a count of their own.
SoleOwnersStay ==
  [][\A r \in Requests :
       Commits(r) /\ call[r].op = "leave" /\ call[r].role = Owner
         => Owners(call[r].ws) # {call[r].actor}]_role

\* Nobody owns w and no request admitted as an owner of w is in flight.
Stranded(w) ==
  /\ w \in founded
  /\ Owners(w) = {}
  /\ \A r \in Requests : call[r].ws = w => call[r].role # Owner

\* A workspace that has lost its owners can never get one back: only a caller
\* WorkspaceGuard saw as an owner can grant the role, so nothing the API
\* offers repairs the loss KeepsAnOwner is about.
StrandedForever ==
  [][\A w \in Workspaces : Stranded(w) => Stranded(w)']_vars

=============================================================================
