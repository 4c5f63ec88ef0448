----------------------- MODULE WorkspaceMembersProofs -----------------------
(***************************************************************************)
(* Theorems about WorkspaceMembers, for any number of users, workspaces    *)
(* and concurrent requests.                                                *)
(***************************************************************************)
EXTENDS WorkspaceMembers, FiniteSetTheorems, TLAPS

-----------------------------------------------------------------------------
(* The inductive invariant                                                 *)

\* Which operation stands where, and what its call asks for.
OpAt(r) ==
  /\ pc[r] = "addOwner" => call[r].op = "create"
  /\ pc[r] \in {"findActor", "promote", "demote"} => call[r].op = "transfer"
  /\ pc[r] = "findTarget" => call[r].op \in {"update", "remove", "transfer"}
  /\ pc[r] \in {"countOwners", "write"} => call[r].op \in {"update", "remove", "leave"}

CallOK(c) ==
  /\ c.op # "create" => c.role \in Roles
  /\ c.op = "update" => c.role \in Managers /\ c.newRole \in Roles
  /\ c.op = "remove" => c.role \in Managers /\ c.newRole = NoRow
  /\ c.op = "leave" => c.actor = c.target /\ c.newRole = NoRow
  /\ c.op = "transfer" => c.role = Owner /\ c.actor # c.target
  /\ c.op = "create" => c.role = NoRow

\* A workspace not founded yet has no rows, and one creation under way at most.
Unfounded ==
  /\ founded \subseteq workspaces
  /\ \A w \in Workspaces \ founded, u \in Users : role[w][u] = NoRow
  /\ \A r \in Requests : pc[r] = "addOwner" =>
       call[r].ws \in workspaces \ founded
  /\ \A r, s \in Requests :
       pc[r] = "addOwner" /\ pc[s] = "addOwner" /\ call[r].ws = call[s].ws => r = s

\* Only an owner's request gets as far as granting the owner role.
GrantsAreOwners(r) ==
  pc[r] \in {"countOwners", "write"} => MayAssign(call[r].role, call[r].newRole)

\* What a request not overtaken has read still holds.
ReadsHold(r) ==
  /\ pc[r] \notin {"idle", "addOwner"} => role[call[r].ws][call[r].actor] = call[r].role
  /\ pc[r] \in {"countOwners", "write"} =>
       /\ TargetRole(r) # NoRow
       /\ call[r].op # "leave" => assertActorCanManageTarget(call[r].role, TargetRole(r))
  /\ pc[r] = "write" /\ TakesOwner(TargetRole(r), call[r].newRole) =>
       EnoughOwners(call[r].ws)
  /\ pc[r] \in {"promote", "demote"} => TargetRole(r) # NoRow
  /\ pc[r] = "demote" => r \in held

CallsOK == \A r \in Requests : pc[r] # "idle" => /\ OpAt(r)
                                                 /\ CallOK(call[r])
                                                 /\ GrantsAreOwners(r)

ReadsOK == \A r \in Requests \ overtaken : ReadsHold(r)

\* A row an open transfer has locked cannot go away.
LocksOK == \A r \in held : TargetRole(r) # NoRow

IInv == TypeOK /\ CallsOK /\ Unfounded /\ LocksOK /\ ReadsOK

-----------------------------------------------------------------------------
(* Type correctness                                                        *)

LEMMA InitType == Init => TypeOK
  BY DEF Init, TypeOK, Labels, NoCall

\* A request in flight carries a proper call.
LEMMA CallType ==
  ASSUME TypeOK, NEW r \in Requests, pc[r] # "idle"
  PROVE  call[r] \in Call
  BY DEF TypeOK

LEMMA AdmitType ==
  ASSUME TypeOK, NEW r \in Requests, NEW c \in Call, Admit(r, c)
  PROVE  TypeOK'
  <1>1. FirstQuery(c.op, c.role) \in Labels \ {"idle"}
    BY DEF FirstQuery, Labels
  <1>2. c # NoCall
    BY DEF Call, NoCall, Ops
  <1>3. QED
    BY <1>1, <1>2 DEF TypeOK, Admit, Goto

\* Ending a request keeps the types, whatever its last query did to the rows.
LEMMA FinishType ==
  ASSUME TypeOK, NEW r \in Requests, pc[r] # "idle", Finish(r),
         role' \in [Workspaces -> [Users -> Roles \union {NoRow}]],
         workspaces' = workspaces, founded' \subseteq Workspaces,
         held' = held \ {r}, overtaken' \subseteq Requests
  PROVE  TypeOK'
  BY DEF TypeOK, Finish, Goto, Labels

LEMMA StepType ==
  ASSUME TypeOK, NEW r \in Requests, NEW l \in Labels \ {"idle"}, pc[r] # "idle",
         Goto(r, l), call' = call, r \notin held, NoWrite
  PROVE  TypeOK'
  BY DEF TypeOK, Goto, NoWrite

\* What an admission puts into the slot.
Admission(r, c) ==
  /\ c \in Call
  /\ CallOK(c)
  /\ c.op # "create"
  /\ Admit(r, c)

LEMMA BeginAdmits ==
  ASSUME NEW r \in Requests, Begin(r), ~BeginCreate(r)
  PROVE  \E c \in Call : Admission(r, c)
  <1>1. CASE BeginUpdate(r)
    <2>1. PICK w \in Workspaces, a \in Users, t \in Users, new \in Roles, ctx \in Roles :
             /\ ctx \in RouteRoles("update")
             /\ Admit(r, [op |-> "update", ws |-> w, actor |-> a, target |-> t,
                          newRole |-> new, role |-> ctx])
      BY <1>1 DEF BeginUpdate
    <2> DEFINE c == [op |-> "update", ws |-> w, actor |-> a, target |-> t,
                     newRole |-> new, role |-> ctx]
    <2>2. c \in Call
      BY DEF Call, Ops
    <2>3. CallOK(c)
      BY <2>1 DEF CallOK, Admit, RouteRoles
    <2>4. QED
      BY <2>1, <2>2, <2>3 DEF Admission
  <1>2. CASE BeginRemove(r)
    <2>1. PICK w \in Workspaces, a \in Users, t \in Users, ctx \in Roles :
             /\ ctx \in RouteRoles("remove")
             /\ Admit(r, [op |-> "remove", ws |-> w, actor |-> a, target |-> t,
                          newRole |-> NoRow, role |-> ctx])
      BY <1>2 DEF BeginRemove
    <2> DEFINE c == [op |-> "remove", ws |-> w, actor |-> a, target |-> t,
                     newRole |-> NoRow, role |-> ctx]
    <2>2. c \in Call
      BY DEF Call, Ops
    <2>3. CallOK(c)
      BY <2>1 DEF CallOK, Admit, RouteRoles
    <2>4. QED
      BY <2>1, <2>2, <2>3 DEF Admission
  <1>3. CASE BeginLeave(r)
    <2>1. PICK w \in Workspaces, a \in Users, ctx \in Roles :
             /\ ctx \in RouteRoles("leave")
             /\ Admit(r, [op |-> "leave", ws |-> w, actor |-> a, target |-> a,
                          newRole |-> NoRow, role |-> ctx])
      BY <1>3 DEF BeginLeave
    <2> DEFINE c == [op |-> "leave", ws |-> w, actor |-> a, target |-> a,
                     newRole |-> NoRow, role |-> ctx]
    <2>2. c \in Call
      BY DEF Call, Ops
    <2>3. CallOK(c)
      BY <2>1 DEF CallOK, Admit, RouteRoles
    <2>4. QED
      BY <2>1, <2>2, <2>3 DEF Admission
  <1>4. CASE BeginTransfer(r)
    <2>1. PICK w \in Workspaces, a \in Users, t \in Users, ctx \in Roles :
             /\ a # t
             /\ ctx \in RouteRoles("transfer")
             /\ Admit(r, [op |-> "transfer", ws |-> w, actor |-> a, target |-> t,
                          newRole |-> Owner, role |-> ctx])
      BY <1>4 DEF BeginTransfer
    <2> DEFINE c == [op |-> "transfer", ws |-> w, actor |-> a, target |-> t,
                     newRole |-> Owner, role |-> ctx]
    <2>2. c \in Call
      BY DEF Call, Ops, Roles
    <2>3. CallOK(c)
      BY <2>1 DEF CallOK, Admit, RouteRoles
    <2>4. QED
      BY <2>1, <2>2, <2>3 DEF Admission
  <1>5. QED
    BY <1>1, <1>2, <1>3, <1>4 DEF Begin

LEMMA NextType == TypeOK /\ [Next]_vars => TypeOK'
  <1> SUFFICES ASSUME TypeOK, [Next]_vars PROVE TypeOK'
    OBVIOUS
  <1>1. ASSUME NEW w \in Workspaces, NEW u \in Users,
               createDefaultWorkspaceForNewUser(w, u)
        PROVE  TypeOK'
    BY <1>1 DEF createDefaultWorkspaceForNewUser, TypeOK, Roles
  <1>2. ASSUME NEW w \in Workspaces, NEW u \in Users, Join(w, u)
        PROVE  TypeOK'
    BY <1>2 DEF Join, TypeOK, Roles
  <1>3. ASSUME NEW r \in Requests, Begin(r)
        PROVE  TypeOK'
    <2>1. CASE BeginCreate(r)
      <3>1. PICK w \in Workspaces \ workspaces, a \in Users :
               /\ workspaces' = workspaces \union {w}
               /\ Goto(r, "addOwner")
               /\ call' = [call EXCEPT ![r] = [op |-> "create", ws |-> w, actor |-> a,
                             target |-> a, newRole |-> Owner, role |-> NoRow]]
               /\ overtaken' = overtaken \ {r}
               /\ UNCHANGED <<role, held, founded>>
               /\ pc[r] = "idle"
        BY <2>1 DEF BeginCreate
      <3> DEFINE c == [op |-> "create", ws |-> w, actor |-> a,
                       target |-> a, newRole |-> Owner, role |-> NoRow]
      <3>2. c \in Call /\ c # NoCall
        BY DEF Call, Ops, Roles, NoCall
      <3> HIDE DEF c
      <3>3. call' = [call EXCEPT ![r] = c]
        BY <3>1 DEF c
      <3>4. QED
        BY <3>1, <3>2, <3>3 DEF Goto, TypeOK, Labels
    <2>2. QED
      BY <1>3, <2>1, BeginAdmits, AdmitType DEF Admission
  <1>4. ASSUME NEW r \in Requests, Handle(r)
        PROVE  TypeOK'
    <2> USE DEF NoWrite
    <2>1. CASE AddOwner(r)
      <3>1. call[r].ws \in Workspaces /\ r \notin held
        BY <2>1, CallType DEF AddOwner, Call, TypeOK
      <3>2. QED
        BY <2>1, <3>1, FinishType DEF AddOwner, TypeOK, Roles
    <2>2. CASE FindTarget(r)
      BY <2>2, StepType, FinishType DEF FindTarget, Labels, TypeOK
    <2>3. CASE CountOwners(r)
      BY <2>3, StepType, FinishType DEF CountOwners, Labels, TypeOK
    <2>4. CASE Write(r)
      <3>1. /\ call[r] \in Call
            /\ r \notin held
        BY <2>4, CallType DEF Write, TypeOK
      <3>2. role' \in [Workspaces -> [Users -> Roles \union {NoRow}]]
        <4>1. /\ call[r].ws \in Workspaces
              /\ call[r].target \in Users
              /\ Matched(call[r].ws, call[r].target, call[r].newRole)
                   \in Roles \union {NoRow}
          BY <3>1 DEF Call, Matched
        <4>2. QED
          BY <2>4, <4>1 DEF Write, TypeOK
      <3>3. overtaken' \subseteq Requests
        BY <2>4 DEF Write, Overtake, TypeOK
      <3>4. QED
        BY <2>4, <3>1, <3>2, <3>3, FinishType DEF Write, TypeOK
    <2>5. CASE FindActor(r)
      BY <2>5, StepType, FinishType DEF FindActor, Labels, TypeOK
    <2>6. CASE FindNewOwner(r)
      BY <2>6, StepType, FinishType DEF FindNewOwner, Labels, TypeOK
    <2>7. CASE Promote(r)
      BY <2>7 DEF Promote, TypeOK, Goto, Labels
    <2>8. CASE Demote(r)
      <3>1. call[r] \in Call
        BY <2>8, CallType DEF Demote
      <3>2. role' \in [Workspaces -> [Users -> Roles \union {NoRow}]]
        <4>1. /\ call[r].ws \in Workspaces
              /\ call[r].target \in Users
              /\ call[r].actor \in Users
          BY <3>1 DEF Call
        <4>2. /\ Matched(call[r].ws, call[r].actor, Admin) \in Roles \union {NoRow}
              /\ (IF r \in held THEN Owner ELSE TargetRole(r)) \in Roles \union {NoRow}
          BY <4>1 DEF Matched, TargetRole, TypeOK, Roles
        <4>3. QED
          BY <2>8, <4>1, <4>2 DEF Demote, TypeOK
      <3>3. overtaken' \subseteq Requests
        BY <2>8 DEF Demote, Overtake, TypeOK
      <3>4. QED
        BY <2>8, <3>1, <3>2, <3>3, FinishType DEF Demote, TypeOK
    <2>9. CASE AbortDeadlock(r)
      BY <2>9, FinishType DEF AbortDeadlock, Deadlocked, TypeOK
    <2>10. QED
      BY <1>4, <2>1, <2>2, <2>3, <2>4, <2>5, <2>6, <2>7, <2>8, <2>9 DEF Handle
  <1>5. ASSUME NEW r \in Requests, Crash(r)
        PROVE  TypeOK'
    BY <1>5, FinishType DEF Crash, TypeOK
  <1>6. CASE UNCHANGED vars
    BY <1>6 DEF vars, TypeOK
  <1>7. QED
    BY <1>1, <1>2, <1>3, <1>4, <1>5, <1>6 DEF Next

-----------------------------------------------------------------------------
(* The invariant is inductive                                              *)

LEMMA InitInv == Init => IInv
  BY InitType DEF Init, IInv, CallsOK, ReadsOK, Unfounded, LocksOK, ReadsHold

\* A call keeps standing where its operation puts it.
LEMMA NextCalls == IInv /\ Next => CallsOK'
  <1> SUFFICES ASSUME IInv, Next PROVE CallsOK'
    OBVIOUS
  <1> USE DEF IInv, CallsOK
  <1>1. ASSUME NEW w \in Workspaces, NEW u \in Users,
               createDefaultWorkspaceForNewUser(w, u) \/ Join(w, u)
        PROVE  CallsOK'
    BY <1>1 DEF createDefaultWorkspaceForNewUser, Join, OpAt, GrantsAreOwners
  <1>2. ASSUME NEW r \in Requests, BeginCreate(r)
        PROVE  CallsOK'
    <2>1. PICK w \in Workspaces, a \in Users :
             /\ pc' = [pc EXCEPT ![r] = "addOwner"]
             /\ call' = [call EXCEPT ![r] = [op |-> "create", ws |-> w, actor |-> a,
                           target |-> a, newRole |-> Owner, role |-> NoRow]]
      BY <1>2 DEF BeginCreate, Goto
    <2>2. OpAt(r)' /\ CallOK(call'[r]) /\ GrantsAreOwners(r)'
      BY <2>1 DEF TypeOK, OpAt, CallOK, GrantsAreOwners
    <2>3. \A s \in Requests \ {r} : pc'[s] = pc[s] /\ call'[s] = call[s]
      BY <2>1 DEF TypeOK
    <2>4. QED
      BY <2>2, <2>3 DEF OpAt, GrantsAreOwners
  <1>3. ASSUME NEW r \in Requests, NEW c \in Call, Admission(r, c)
        PROVE  CallsOK'
    <2>1. pc' = [pc EXCEPT ![r] = FirstQuery(c.op, c.role)] /\ call' = [call EXCEPT ![r] = c]
      BY <1>3 DEF Admission, Admit, Goto
    <2>2. OpAt(r)' /\ CallOK(call'[r])
      BY <1>3, <2>1 DEF TypeOK, OpAt, Admission, FirstQuery, Call, Ops
    <2>3. GrantsAreOwners(r)'
      BY <1>3, <2>1 DEF TypeOK, GrantsAreOwners, MayAssign, CallOK, Admission, FirstQuery,
                        Owner, NoRow, Call, Ops
    <2>4. \A s \in Requests \ {r} : pc'[s] = pc[s] /\ call'[s] = call[s]
      BY <2>1 DEF TypeOK
    <2>5. QED
      BY <2>2, <2>3, <2>4 DEF OpAt, GrantsAreOwners
  <1>4. ASSUME NEW r \in Requests, Finish(r)
        PROVE  CallsOK'
    BY <1>4 DEF Finish, Goto, TypeOK, OpAt, GrantsAreOwners
  <1>5. ASSUME NEW r \in Requests, NEW l \in Labels, call' = call, Goto(r, l), pc[r] # "idle",
               OpAt(r)', GrantsAreOwners(r)'
        PROVE  CallsOK'
    <2>1. \A s \in Requests \ {r} : pc'[s] = pc[s] /\ call'[s] = call[s]
      BY <1>5 DEF TypeOK, Goto
    <2>2. QED
      BY <1>5, <2>1 DEF OpAt, GrantsAreOwners
  <1>6. ASSUME NEW r \in Requests, Handle(r) \/ Crash(r), ~Finish(r)
        PROVE  CallsOK'
    <2> USE DEF Goto, TypeOK, OpAt, GrantsAreOwners, Labels
    <2>1. CASE FindTarget(r)
      <3>1. MayAssign(call[r].role, call[r].newRole)
        BY <1>6, <2>1 DEF FindTarget
      <3>2. QED
        BY <1>6, <1>5, <2>1, <3>1 DEF FindTarget
    <2>2. CASE CountOwners(r)
      BY <1>6, <1>5, <2>2 DEF CountOwners
    <2>3. CASE FindActor(r)
      BY <1>6, <1>5, <2>3 DEF FindActor
    <2>4. CASE FindNewOwner(r)
      BY <1>6, <1>5, <2>4 DEF FindNewOwner
    <2>5. CASE Promote(r)
      BY <1>6, <1>5, <2>5 DEF Promote
    <2>6. QED
      BY <1>6, <2>1, <2>2, <2>3, <2>4, <2>5
         DEF Handle, AddOwner, Write, Demote, AbortDeadlock, Crash
  <1>7. QED
    BY <1>1, <1>2, <1>3, <1>4, <1>6, BeginAdmits DEF Next

\* The steps that touch neither the rows nor the set of workspaces.
LEMMA QuietSteps ==
  ASSUME NEW r \in Requests, Handle(r) \/ Crash(r),
         ~AddOwner(r), ~Write(r), ~Demote(r)
  PROVE  UNCHANGED <<workspaces, role, founded, overtaken>>
  BY DEF Handle, FindTarget, CountOwners, FindActor, FindNewOwner, Promote,
         AbortDeadlock, Crash, NoWrite

\* No handler step starts a creation or changes a call under way.
LEMMA HandleCalls ==
  ASSUME TypeOK, NEW r \in Requests, Handle(r) \/ Crash(r), NEW s \in Requests
  PROVE  /\ s # r => pc'[s] = pc[s] /\ call'[s] = call[s]
         /\ pc'[s] # "addOwner" \/ pc'[s] = pc[s]
         /\ pc'[s] # "idle" => call'[s] = call[s]
  BY DEF TypeOK, Handle, FindTarget, CountOwners, FindActor, FindNewOwner, Promote,
         AbortDeadlock, Crash, AddOwner, Write, Demote, Finish, Goto

LEMMA NextUnfounded == IInv /\ Next => Unfounded'
  <1> SUFFICES ASSUME IInv, Next PROVE Unfounded'
    OBVIOUS
  <1> USE DEF IInv, Unfounded
  <1>1. ASSUME NEW w \in Workspaces, NEW u \in Users,
               createDefaultWorkspaceForNewUser(w, u)
        PROVE  Unfounded'
    BY <1>1 DEF createDefaultWorkspaceForNewUser, TypeOK
  <1>2. ASSUME NEW w \in Workspaces, NEW u \in Users, Join(w, u)
        PROVE  Unfounded'
    BY <1>2 DEF Join, TypeOK
  <1>3. ASSUME NEW r \in Requests, BeginCreate(r)
        PROVE  Unfounded'
    BY <1>3 DEF BeginCreate, Goto, TypeOK
  <1>4. ASSUME NEW r \in Requests, NEW c \in Call, Admission(r, c)
        PROVE  Unfounded'
    <2>1. FirstQuery(c.op, c.role) # "addOwner"
      BY <1>4 DEF FirstQuery
    <2>2. QED
      BY <1>4, <2>1 DEF Admission, Admit, Goto, TypeOK
  <1>5. ASSUME NEW r \in Requests, AddOwner(r)
        PROVE  Unfounded'
    <2>1. call[r] \in Call
      BY <1>5, CallType DEF AddOwner
    <2>2. call[r].ws \in Workspaces
      BY <2>1 DEF Call
    <2>3. founded' \subseteq workspaces'
      BY <1>5 DEF AddOwner
    <2>4. \A w \in Workspaces \ founded', u \in Users : role'[w][u] = NoRow
      BY <1>5, <2>2 DEF AddOwner, TypeOK
    <2>5. \A s \in Requests : pc'[s] = "addOwner" => pc[s] = "addOwner" /\ call'[s] = call[s] /\ s # r
      BY <1>5 DEF AddOwner, Finish, Goto, TypeOK
    <2>6. QED
      BY <1>5, <2>3, <2>4, <2>5 DEF AddOwner
  <1>6. ASSUME NEW r \in Requests, Write(r) \/ Demote(r)
        PROVE  Unfounded'
    <2>1. call[r] \in Call
      BY <1>6, CallType DEF Write, Demote
    <2>2. \A w \in Workspaces, u \in Users : role[w][u] = NoRow => role'[w][u] = NoRow
      <3>1. /\ call[r].ws \in Workspaces
            /\ call[r].target \in Users
            /\ call[r].actor \in Users
        BY <2>1 DEF Call
      <3>2. CASE Write(r)
        BY <3>1, <3>2 DEF Write, Matched, TypeOK
      <3>3. CASE Demote(r)
        <4>1. r \in held => TargetRole(r) # NoRow
          BY DEF LocksOK
        <4>2. QED
          BY <3>1, <3>3, <4>1 DEF Demote, Matched, TypeOK, TargetRole
      <3>4. QED
        BY <1>6, <3>2, <3>3
    <2>3. UNCHANGED <<workspaces, founded>>
      BY <1>6 DEF Write, Demote
    <2>4. QED
      BY <1>6, <2>2, <2>3, HandleCalls DEF Handle
  <1>7. ASSUME NEW r \in Requests, Handle(r) \/ Crash(r),
               ~AddOwner(r), ~Write(r), ~Demote(r)
        PROVE  Unfounded'
    BY <1>7, QuietSteps, HandleCalls
  <1>8. QED
    BY <1>1, <1>2, <1>3, <1>4, <1>5, <1>6, <1>7, BeginAdmits DEF Next

LEMMA NextLocks == IInv /\ Next => LocksOK'
  <1> SUFFICES ASSUME IInv, Next, NEW s \in held' PROVE TargetRole(s)' # NoRow
    BY DEF LocksOK
  <1> USE DEF IInv, LocksOK, TargetRole
  <1>1. ASSUME NEW w \in Workspaces, NEW u \in Users,
               createDefaultWorkspaceForNewUser(w, u) \/ Join(w, u)
        PROVE  TargetRole(s)' # NoRow
    BY <1>1, CallType DEF createDefaultWorkspaceForNewUser, Join, TypeOK, Call,
       NoRow, Owner, Admin, Member
  <1>2. ASSUME NEW r \in Requests, BeginCreate(r)
        PROVE  TargetRole(s)' # NoRow
    BY <1>2 DEF BeginCreate, TypeOK
  <1>3. ASSUME NEW r \in Requests, NEW c \in Call, Admission(r, c)
        PROVE  TargetRole(s)' # NoRow
    BY <1>3 DEF Admission, Admit, TypeOK
  <1>4. ASSUME NEW r \in Requests, Promote(r)
        PROVE  TargetRole(s)' # NoRow
    BY <1>4 DEF Promote
  <1>5. ASSUME NEW r \in Requests, Write(r)
        PROVE  TargetRole(s)' # NoRow
    <2>1. /\ s \in held /\ s # r /\ call'[s] = call[s]
          /\ call[s] \in Call /\ call[r] \in Call
      BY <1>5, CallType, HandleCalls DEF Write, TypeOK, Handle
    <2>2. call[s].ws # call[r].ws \/ call[s].target # call[r].target
      BY <1>5, <2>1 DEF Write, LockedByOther
    <2>3. role' = [role EXCEPT ![call[r].ws][call[r].target] =
                     Matched(call[r].ws, call[r].target, call[r].newRole)]
      BY <1>5 DEF Write
    <2>4. role'[call[s].ws][call[s].target] = role[call[s].ws][call[s].target]
      BY <2>1, <2>2, <2>3 DEF TypeOK, Call
    <2>5. QED
      BY <2>1, <2>4
  <1>6. ASSUME NEW r \in Requests, Demote(r)
        PROVE  TargetRole(s)' # NoRow
    <2>1. /\ s \in held /\ s # r /\ call'[s] = call[s]
          /\ call[s] \in Call /\ call[r] \in Call
      BY <1>6, CallType, HandleCalls DEF Demote, TypeOK, Handle
    <2>2. /\ call[s].ws \in Workspaces /\ call[s].target \in Users
          /\ call[r].ws \in Workspaces /\ call[r].target \in Users /\ call[r].actor \in Users
      BY <2>1 DEF Call
    <2>3. \A w \in Workspaces, u \in Users : role[w][u] # NoRow => role'[w][u] # NoRow
      BY <1>6, <2>2 DEF Demote, Matched, TypeOK, Owner, Admin, NoRow
    <2>4. QED
      BY <2>1, <2>2, <2>3
  <1>7. ASSUME NEW r \in Requests, AddOwner(r)
        PROVE  TargetRole(s)' # NoRow
    <2>1. /\ s \in held /\ s # r /\ call'[s] = call[s]
          /\ call[s] \in Call /\ call[r] \in Call
      BY <1>7, CallType, HandleCalls DEF AddOwner, TypeOK, Handle
    <2>2. QED
      BY <1>7, <2>1 DEF AddOwner, TypeOK, Call, Owner, NoRow
  <1>8. ASSUME NEW r \in Requests, Handle(r) \/ Crash(r),
               ~AddOwner(r), ~Write(r), ~Demote(r), ~Promote(r)
        PROVE  TargetRole(s)' # NoRow
    <2>1. role' = role /\ s \in held
      BY <1>8, QuietSteps DEF Handle, FindTarget, CountOwners, FindActor, FindNewOwner,
         AbortDeadlock, Crash, NoWrite
    <2>2. call'[s] = call[s]
      BY <1>8, <2>1 DEF Handle, FindTarget, CountOwners, FindActor, FindNewOwner,
         AbortDeadlock, Crash, Finish, TypeOK, NoWrite
    <2>3. QED
      BY <2>1, <2>2
  <1>9. QED
    BY <1>1, <1>2, <1>3, <1>4, <1>5, <1>6, <1>7, <1>8, BeginAdmits DEF Next, Handle

-----------------------------------------------------------------------------
(* What a request has read still holds, unless it was overtaken            *)

\* As long as nobody touches the rows of its workspace, a waiting request
\* has nothing to worry about.
LEMMA ReadsFrame ==
  ASSUME TypeOK, NEW s \in Requests, ReadsHold(s),
         pc'[s] = pc[s], call'[s] = call[s], s \in held => s \in held',
         pc[s] \in {"idle", "addOwner"} \/ role'[call[s].ws] = role[call[s].ws]
  PROVE  ReadsHold(s)'
  BY DEF ReadsHold, TargetRole, EnoughOwners, Owners

\* A request past its admission, and not creating, works on a founded
\* workspace as long as it is not overtaken: its actor still has a row there.
LEMMA ReadersAreMembers ==
  ASSUME IInv, NEW s \in Requests \ overtaken, pc[s] \notin {"idle", "addOwner"}
  PROVE  call[s] \in Call /\ call[s].ws \in founded /\ call[s].role \in Roles
         /\ role[call[s].ws][call[s].actor] = call[s].role
  <1>1. call[s] \in Call /\ call[s].op # "create"
    BY CallType DEF IInv, CallsOK, OpAt, TypeOK, Labels
  <1>2. call[s].role \in Roles
    BY <1>1 DEF IInv, CallsOK, CallOK
  <1>3. role[call[s].ws][call[s].actor] = call[s].role
    BY DEF IInv, ReadsOK, ReadsHold
  <1>4. QED
    BY <1>1, <1>2, <1>3 DEF IInv, Unfounded, Call, Roles, Owner, Admin, Member, NoRow

\* A query of r that changes no row: the other requests keep what they read.
LEMMA ReadsAfterQuietStep ==
  ASSUME IInv, NEW r \in Requests, ReadsHold(r)' \/ r \in overtaken',
         overtaken \ {r} \subseteq overtaken',
         \A s \in Requests \ {r} : pc'[s] = pc[s] /\ call'[s] = call[s],
         held \ {r} \subseteq held', role' = role
  PROVE  ReadsOK'
  BY ReadsFrame DEF ReadsOK, IInv

LEMMA NextReads == IInv /\ Next => ReadsOK'
  <1> SUFFICES ASSUME IInv, Next PROVE ReadsOK'
    OBVIOUS
  <1> USE DEF IInv
  <1>1. ASSUME NEW w \in Workspaces, NEW u \in Users,
               createDefaultWorkspaceForNewUser(w, u)
        PROVE  ReadsOK'
    <2>1. ASSUME NEW s \in Requests \ overtaken
          PROVE  ReadsHold(s)'
      <3>1. pc[s] \in {"idle", "addOwner"} \/ call[s].ws # w
        BY <1>1, ReadersAreMembers DEF createDefaultWorkspaceForNewUser, Unfounded
      <3>2. pc[s] \in {"idle", "addOwner"} \/ role'[call[s].ws] = role[call[s].ws]
        BY <1>1, <3>1, ReadersAreMembers DEF createDefaultWorkspaceForNewUser, TypeOK, Call
      <3>3. QED
        BY <1>1, <3>2, ReadsFrame DEF createDefaultWorkspaceForNewUser, ReadsOK
    <2>2. QED
      BY <1>1, <2>1 DEF ReadsOK, createDefaultWorkspaceForNewUser
  <1>2. ASSUME NEW w \in Workspaces, NEW u \in Users, Join(w, u)
        PROVE  ReadsOK'
    <2>1. ASSUME NEW s \in Requests \ overtaken, pc[s] \notin {"idle", "addOwner"}
          PROVE  ReadsHold(s)'
      <3>1. /\ call[s] \in Call /\ call[s].ws \in Workspaces
            /\ call[s].actor \in Users /\ call[s].target \in Users
            /\ role[call[s].ws][call[s].actor] = call[s].role
            /\ call[s].role # NoRow
        BY <2>1, ReadersAreMembers DEF Call, Roles, Owner, Admin, Member, NoRow
      <3>2. PICK invited \in {Admin, Member} : role' = [role EXCEPT ![w][u] = invited]
        BY <1>2 DEF Join
      <3>3. \A x \in Workspaces, v \in Users :
              role[x][v] # NoRow => role'[x][v] = role[x][v]
        BY <1>2, <3>2 DEF Join, TypeOK
      <3>4. \A x \in Workspaces : Owners(x)' = Owners(x)
        BY <1>2, <3>2 DEF Join, Owners, TypeOK, Owner, Admin, Member, NoRow
      <3>5. UNCHANGED <<pc, call, held>>
        BY <1>2 DEF Join
      <3>6. ReadsHold(s)
        BY <2>1 DEF ReadsOK
      <3>7. TargetRole(s) # NoRow => TargetRole(s)' = TargetRole(s)
        BY <3>1, <3>3, <3>5 DEF TargetRole
      <3>8. EnoughOwners(call[s].ws)' = EnoughOwners(call[s].ws)
        BY <3>1, <3>4, <3>5 DEF EnoughOwners
      <3>9. QED
        BY <3>1, <3>3, <3>5, <3>6, <3>7, <3>8 DEF ReadsHold
    <2>2. QED
      BY <1>2, <2>1 DEF ReadsOK, ReadsHold, Join
  <1>3. ASSUME NEW r \in Requests, BeginCreate(r)
        PROVE  ReadsOK'
    <2>1. ReadsHold(r)'
      BY <1>3 DEF BeginCreate, Goto, ReadsHold, TypeOK
    <2>2. QED
      BY <1>3, <2>1, ReadsAfterQuietStep DEF BeginCreate, Goto, TypeOK
  <1>4. ASSUME NEW r \in Requests, NEW c \in Call, Admission(r, c)
        PROVE  ReadsOK'
    <2>1. /\ pc' = [pc EXCEPT ![r] = FirstQuery(c.op, c.role)]
          /\ call' = [call EXCEPT ![r] = c]
          /\ UNCHANGED <<role, held>>
          /\ overtaken' = overtaken \ {r}
          /\ role[c.ws][c.actor] = c.role
          /\ c.role \in Roles
      BY <1>4 DEF Admission, Admit, Goto, CallOK
    <2>2. ReadsHold(r)'
      <3>1. pc'[r] = FirstQuery(c.op, c.role) /\ call'[r] = c
        BY <2>1 DEF TypeOK
      <3>2. pc'[r] \in {"countOwners", "write"} => c.op = "leave" /\ c.actor = c.target
        BY <1>4, <3>1 DEF FirstQuery, Admission, CallOK
      <3>3. pc'[r] = "write" => c.role # Owner
        BY <1>4, <3>1 DEF FirstQuery, Admission, Call, Ops
      <3>4. pc'[r] \notin {"promote", "demote"}
        BY <3>1 DEF FirstQuery
      <3>5. TargetRole(r)' = role[c.ws][c.target]
        BY <2>1, <3>1 DEF TargetRole
      <3>6. QED
        BY <2>1, <3>1, <3>2, <3>3, <3>4, <3>5
           DEF ReadsHold, TakesOwner, Roles, Owner, Admin, Member, NoRow
    <2>3. QED
      BY <2>1, <2>2, ReadsAfterQuietStep DEF TypeOK
  <1>5. ASSUME NEW r \in Requests, AddOwner(r)
        PROVE  ReadsOK'
    <2>1. call[r].ws \in workspaces \ founded
      BY <1>5 DEF AddOwner, Unfounded
    <2>2. ASSUME NEW s \in Requests \ overtaken, s # r
          PROVE  ReadsHold(s)'
      <3>1. pc[s] \in {"idle", "addOwner"} \/ role'[call[s].ws] = role[call[s].ws]
        BY <1>5, <2>1, ReadersAreMembers DEF AddOwner, TypeOK, Call
      <3>2. QED
        BY <1>5, <2>2, <3>1, ReadsFrame, HandleCalls DEF Handle, AddOwner, ReadsOK
    <2>3. ReadsHold(r)'
      BY <1>5 DEF AddOwner, Finish, Goto, TypeOK, ReadsHold
    <2>4. QED
      BY <1>5, <2>2, <2>3 DEF ReadsOK, AddOwner
  <1>6. ASSUME NEW r \in Requests, Write(r) \/ Demote(r)
        PROVE  ReadsOK'
    <2>1. ASSUME NEW s \in Requests \ overtaken', s # r
          PROVE  ReadsHold(s)'
      <3>1. s \notin overtaken /\ call[s].ws # call[r].ws
        BY <1>6, <2>1 DEF Write, Demote, Overtake
      <3>2. pc[s] \in {"idle", "addOwner"} \/ role'[call[s].ws] = role[call[s].ws]
        BY <1>6, <3>1, ReadersAreMembers DEF Write, Demote, TypeOK, Call
      <3>3. s \in held => s \in held'
        BY <1>6, <2>1 DEF Write, Demote
      <3>4. QED
        BY <1>6, <2>1, <3>1, <3>2, <3>3, ReadsFrame, HandleCalls DEF Handle, ReadsOK
    <2>2. ReadsHold(r)'
      BY <1>6 DEF Write, Demote, Finish, Goto, TypeOK, ReadsHold
    <2>3. QED
      BY <2>1, <2>2 DEF ReadsOK
  <1>7. ASSUME NEW r \in Requests, Handle(r) \/ Crash(r),
               ~AddOwner(r), ~Write(r), ~Demote(r)
        PROVE  ReadsOK'
    <2>1. ReadsHold(r)' \/ r \in overtaken'
      <3> SUFFICES ASSUME r \notin overtaken PROVE ReadsHold(r)'
        BY <1>7, QuietSteps
      <3> USE DEF ReadsOK, ReadsHold, NoWrite, Goto, Finish, TypeOK, TargetRole
      <3>1. CASE Finish(r)
        BY <3>1
      <3>2. CASE FindTarget(r) /\ ~Finish(r)
        <4>1. /\ pc' = [pc EXCEPT ![r] = IF TakesOwner(TargetRole(r), call[r].newRole)
                                           THEN "countOwners" ELSE "write"]
              /\ call' = call /\ role' = role /\ held' = held
              /\ TargetRole(r) # NoRow
              /\ assertActorCanManageTarget(call[r].role, TargetRole(r))
          BY <3>2 DEF FindTarget
        <4>2. role[call[r].ws][call[r].actor] = call[r].role
          BY <3>2 DEF FindTarget
        <4>3. QED
          BY <4>1, <4>2
      <3>3. CASE CountOwners(r) /\ ~Finish(r)
        <4>1. /\ pc' = [pc EXCEPT ![r] = "write"]
              /\ call' = call /\ role' = role /\ held' = held
              /\ EnoughOwners(call[r].ws)
              /\ pc[r] = "countOwners"
          BY <3>3 DEF CountOwners
        <4>2. EnoughOwners(call[r].ws)'
          BY <4>1 DEF EnoughOwners, Owners
        <4>3. QED
          BY <4>1, <4>2
      <3>4. CASE FindActor(r) /\ ~Finish(r)
        BY <3>4 DEF FindActor
      <3>5. CASE FindNewOwner(r) /\ ~Finish(r)
        BY <3>5 DEF FindNewOwner
      <3>6. CASE Promote(r)
        BY <3>6 DEF Promote
      <3>7. QED
        BY <1>7, <3>1, <3>2, <3>3, <3>4, <3>5, <3>6 DEF Handle, AbortDeadlock, Crash
    <2>2. held \ {r} \subseteq held'
      BY <1>7 DEF Handle, FindTarget, CountOwners, FindActor, FindNewOwner, Promote,
         AbortDeadlock, Crash, NoWrite
    <2>3. QED
      BY <1>7, <2>1, <2>2, QuietSteps, HandleCalls, ReadsAfterQuietStep
  <1>8. QED
    BY <1>1, <1>2, <1>3, <1>4, <1>5, <1>6, <1>7, BeginAdmits DEF Next

-----------------------------------------------------------------------------
(* Theorems                                                                *)

\* Every reachable state is well typed: no handler of workspaces.service.ts
\* leaves a slot, a row or a lock in a shape the others do not expect.
THEOREM TypeCorrect == Spec => []TypeOK
  BY InitType, NextType, PTL DEF Spec

\* The inductive invariant behind the theorems below: what a handler of
\* workspaces.service.ts has checked stays true until it is overtaken.
THEOREM Invariance == Spec => []IInv
  <1>1. IInv /\ Next => IInv'
    BY NextType, NextCalls, NextUnfounded, NextLocks, NextReads DEF IInv
  <1>2. IInv /\ UNCHANGED vars => IInv'
    BY DEF vars, IInv, TypeOK, CallsOK, Unfounded, LocksOK, ReadsOK, OpAt, CallOK,
           GrantsAreOwners, ReadsHold, TargetRole, EnoughOwners, Owners
  <1>3. QED
    BY InitInv, <1>1, <1>2, PTL DEF Spec

\* Two owners at least: whoever loses the role, another owner is left.
LEMMA AnotherOwner ==
  ASSUME NEW w \in Workspaces, NEW t \in Users, EnoughOwners(w)
  PROVE  \E other \in Owners(w) : other # t
  <1> SUFFICES ASSUME Owners(w) \subseteq {t} PROVE FALSE
    OBVIOUS
  <1>1. IsFiniteSet({t}) /\ Cardinality({t}) = 1
    BY FS_Singleton
  <1>2. Cardinality(Owners(w)) <= 1 /\ Cardinality(Owners(w)) \in Nat
    BY <1>1, FS_Subset, FS_CardinalityType
  <1>3. QED
    BY <1>2 DEF EnoughOwners

\* Write, by a request that was not overtaken, is the rule for its call.
LEMMA WriteIsARule ==
  ASSUME IInv, NEW r \in Requests \ overtaken, Write(r)
  PROVE  RuleFor(call[r])
  <1> DEFINE w == call[r].ws
             a == call[r].actor
             t == call[r].target
             new == call[r].newRole
  <1>1. /\ call[r] \in Call /\ w \in Workspaces /\ a \in Users /\ t \in Users
        /\ pc[r] = "write"
    BY CallType DEF Write, IInv, Call
  <1>2. /\ OpAt(r) /\ CallOK(call[r]) /\ GrantsAreOwners(r)
        /\ ReadsHold(r)
    BY <1>1 DEF IInv, CallsOK, ReadsOK
  <1>3. /\ role[w][t] # NoRow
        /\ role[w][a] = call[r].role
        /\ call[r].op # "leave" => assertActorCanManageTarget(call[r].role, role[w][t])
        /\ TakesOwner(role[w][t], new) => EnoughOwners(w)
        /\ MayAssign(call[r].role, new)
    BY <1>1, <1>2 DEF ReadsHold, TargetRole, GrantsAreOwners
  <1>4. role' = [role EXCEPT ![w][t] = new]
    BY <1>3 DEF Write, Matched
  <1>5. new # Owner => Rules!KeepsOwner(w, t)
    BY <1>1, <1>3, AnotherOwner
       DEF TakesOwner, Rules!KeepsOwner, Rules!Owners, Owners, Rules!Owner, Owner
  <1> HIDE DEF w, a, t, new
  <1> USE DEF Owner, Admin, Member, NoRow, Rules!Owner, Rules!Admin, Rules!Member, Rules!NoRow,
              Rules!SetRow
  <1>6. CASE call[r].op = "update"
    <2>1. new \in Roles /\ call[r].role \in Managers
      BY <1>2, <1>6 DEF CallOK, new
    <2>2. Rules!ChangeRole(w, a, t, new)
      BY <1>3, <1>4, <1>5, <1>6, <2>1
         DEF Rules!ChangeRole, Rules!MayManage, assertActorCanManageTarget, MayAssign, Managers
    <2>3. QED
      BY <1>6, <2>2 DEF RuleFor, w, a, t, new
  <1>7. CASE call[r].op = "remove"
    <2>1. new = NoRow /\ call[r].role \in Managers
      BY <1>2, <1>7 DEF CallOK, new
    <2>2. Rules!Remove(w, a, t)
      BY <1>3, <1>4, <1>5, <1>7, <2>1
         DEF Rules!Remove, Rules!MayManage, assertActorCanManageTarget, Managers
    <2>3. QED
      BY <1>7, <2>2 DEF RuleFor, w, a, t
  <1>8. CASE call[r].op = "leave"
    <2>1. new = NoRow /\ a = t
      BY <1>2, <1>8 DEF CallOK, new, a, t
    <2>2. Rules!Leave(w, a)
      BY <1>3, <1>4, <1>5, <2>1 DEF Rules!Leave
    <2>3. QED
      BY <1>8, <2>2 DEF RuleFor, w, a
  <1>9. QED
    BY <1>1, <1>2, <1>6, <1>7, <1>8 DEF OpAt

\* So is Demote, with the Promote before it.
LEMMA DemoteIsARule ==
  ASSUME IInv, NEW r \in Requests \ overtaken, Demote(r)
  PROVE  RuleFor(call[r])
  <1> DEFINE w == call[r].ws
             a == call[r].actor
             t == call[r].target
  <1>1. /\ call[r] \in Call /\ w \in Workspaces /\ a \in Users /\ t \in Users
        /\ pc[r] = "demote"
    BY CallType DEF Demote, IInv, Call
  <1>2. OpAt(r) /\ CallOK(call[r]) /\ ReadsHold(r)
    BY <1>1 DEF IInv, CallsOK, ReadsOK
  <1>3. /\ role[w][a] = Owner /\ role[w][t] # NoRow /\ a # t /\ r \in held
    BY <1>1, <1>2 DEF ReadsHold, OpAt, CallOK, TargetRole
  <1>4. role' = [role EXCEPT ![w] = [role[w] EXCEPT ![t] = Owner, ![a] = Admin]]
    BY <1>3 DEF Demote, Matched, Owner, NoRow
  <1>5. Rules!Transfer(w, a, t)
    BY <1>3, <1>4 DEF Rules!Transfer, Owner, NoRow, Admin, Rules!Owner, Rules!NoRow, Rules!Admin
  <1>6. QED
    BY <1>1, <1>2, <1>5 DEF RuleFor, OpAt

\* A step of a request or of an invite that changes the member rows.
ByTheRules ==
  \/ \E w \in Workspaces, u \in Users :
       Rules!Found(w, u) \/ \E invited \in {Admin, Member} : Rules!Join(w, u, invited)
  \/ \E r \in Requests : CommitsByTheRules(r)

\* Every step keeps to the rules, but for the commits of overtaken requests.
LEMMA StepIsARule == IInv /\ [Next]_vars => [ByTheRules]_role
  <1> SUFFICES ASSUME IInv, Next PROVE [ByTheRules]_role
    BY DEF vars
  <1>1. ASSUME NEW w \in Workspaces, NEW u \in Users,
               createDefaultWorkspaceForNewUser(w, u)
        PROVE  ByTheRules
    <2>1. Rules!Found(w, u)
      BY <1>1 DEF createDefaultWorkspaceForNewUser, Rules!Found, Rules!SetRow, IInv,
                  Unfounded, Owner, NoRow, Rules!Owner, Rules!NoRow
    <2>2. QED
      BY <2>1 DEF ByTheRules
  <1>2. ASSUME NEW w \in Workspaces, NEW u \in Users, Join(w, u)
        PROVE  ByTheRules
    <2>1. PICK invited \in {Admin, Member} : Rules!Join(w, u, invited)
      BY <1>2 DEF Join, Rules!Join, Rules!SetRow, NoRow, Rules!NoRow
    <2>2. QED
      BY <2>1 DEF ByTheRules
  <1>3. ASSUME NEW r \in Requests, Begin(r)
        PROVE  UNCHANGED role
    BY <1>3, BeginAdmits DEF BeginCreate, Admission, Admit
  <1>4. ASSUME NEW r \in Requests, AddOwner(r)
        PROVE  ByTheRules
    <2>1. /\ call[r] \in Call /\ call[r].ws \in Workspaces /\ call[r].actor \in Users
          /\ call[r].ws \notin founded
      BY <1>4, CallType DEF AddOwner, IInv, Unfounded, Call
    <2>2. Rules!Found(call[r].ws, call[r].actor)
      BY <1>4, <2>1 DEF AddOwner, Rules!Found, Rules!SetRow, IInv, Unfounded,
                        Owner, NoRow, Rules!Owner, Rules!NoRow
    <2>3. QED
      BY <2>1, <2>2 DEF ByTheRules
  <1>5. ASSUME NEW r \in Requests, Write(r) \/ Demote(r)
        PROVE  ByTheRules
    <2>1. pc[r] \in {"write", "demote"} /\ pc'[r] = "idle"
      BY <1>5 DEF Write, Demote, Finish, Goto, IInv, TypeOK
    <2>2. r \in overtaken \/ RuleFor(call[r])
      BY <1>5, WriteIsARule, DemoteIsARule
    <2>3. QED
      BY <2>1, <2>2 DEF ByTheRules, CommitsByTheRules
  <1>6. ASSUME NEW r \in Requests, Handle(r) \/ Crash(r),
               ~AddOwner(r), ~Write(r), ~Demote(r)
        PROVE  UNCHANGED role
    BY <1>6, QuietSteps
  <1>7. QED
    BY <1>1, <1>2, <1>3, <1>4, <1>5, <1>6 DEF Next

\* Whatever the interleaving, only a request overtaken by another one's write
\* can break a rule of updateMemberRole, removeMember, leaveWorkspace or
\* transferOwnership.
THEOREM UnovertakenAtomicity == Spec => UnovertakenRequestsAreAtomic
  BY Invariance, StepIsARule, PTL DEF Spec, UnovertakenRequestsAreAtomic, ByTheRules

\* A step that gives somebody the owner role founds the workspace, or belongs
\* to a request admitted as an owner of it.
LEMMA NewOwners ==
  ASSUME IInv, Next, NEW w \in Workspaces, Owners(w) = {}, Owners(w)' # {}
  PROVE  w \notin founded \/ \E r \in Requests : call[r].ws = w /\ call[r].role = Owner
  <1> USE DEF IInv
  <1>1. PICK u \in Users : role'[w][u] = Owner /\ role[w][u] # Owner
    BY DEF Owners
  <1>2. ASSUME NEW x \in Workspaces, NEW v \in Users,
               createDefaultWorkspaceForNewUser(x, v)
        PROVE  w \notin founded
    BY <1>1, <1>2 DEF createDefaultWorkspaceForNewUser, TypeOK, Unfounded
  <1>3. ASSUME NEW x \in Workspaces, NEW v \in Users, Join(x, v)
        PROVE  FALSE
    BY <1>1, <1>3 DEF Join, TypeOK, Owner, Admin, Member
  <1>4. ASSUME NEW r \in Requests, AddOwner(r)
        PROVE  w \notin founded
    <2>1. call[r] \in Call /\ call[r].ws \notin founded
      BY <1>4, CallType DEF AddOwner, Unfounded
    <2>2. call[r].ws = w
      BY <1>1, <1>4, <2>1 DEF AddOwner, TypeOK, Call
    <2>3. QED
      BY <2>1, <2>2
  <1>5. ASSUME NEW r \in Requests, Write(r)
        PROVE  call[r].ws = w /\ call[r].role = Owner
    <2>1. call[r] \in Call /\ pc[r] = "write"
      BY <1>5, CallType DEF Write
    <2>2. call[r].ws = w /\ Matched(w, u, call[r].newRole) = Owner /\ u = call[r].target
      BY <1>1, <1>5, <2>1 DEF Write, TypeOK, Call
    <2>3. call[r].newRole = Owner
      BY <2>2 DEF Matched, Owner, NoRow
    <2>4. QED
      BY <2>1, <2>2, <2>3 DEF CallsOK, GrantsAreOwners, MayAssign
  <1>6. ASSUME NEW r \in Requests, Demote(r)
        PROVE  call[r].ws = w /\ call[r].role = Owner
    <2>1. call[r] \in Call /\ pc[r] = "demote"
      BY <1>6, CallType DEF Demote
    <2>2. call[r].ws = w
      BY <1>1, <1>6, <2>1 DEF Demote, TypeOK, Call
    <2>3. QED
      BY <2>1, <2>2 DEF CallsOK, OpAt, CallOK
  <1>7. ASSUME NEW r \in Requests,
               Begin(r) \/ ((Handle(r) \/ Crash(r)) /\ ~AddOwner(r) /\ ~Write(r) /\ ~Demote(r))
        PROVE  FALSE
    BY <1>1, <1>7, QuietSteps, BeginAdmits DEF BeginCreate, Admission, Admit
  <1>8. QED
    BY <1>2, <1>3, <1>4, <1>5, <1>6, <1>7 DEF Next

\* A workspace left without an owner stays without one for ever, unless an
\* owner's request was already on its way: no route of the controller can
\* repair what an interleaving of removals has broken.
THEOREM StrandedWorkspaces == Spec => StrandedForever
  <1>1. ASSUME IInv, [Next]_vars, NEW w \in Workspaces, Stranded(w)
        PROVE  Stranded(w)'
    <2>1. CASE UNCHANGED vars
      BY <1>1, <2>1 DEF vars, Stranded, Owners
    <2>2. CASE Next
      <3>1. Owners(w)' = {}
        BY <1>1, <2>2, NewOwners DEF Stranded
      <3>2. w \in founded'
        BY <1>1, <2>2, BeginAdmits, QuietSteps
           DEF Next, createDefaultWorkspaceForNewUser, Join, Begin, BeginCreate, Admission,
               Admit, AddOwner, Write, Demote, Stranded
      <3>3. ASSUME NEW r \in Requests, call'[r] # call[r], call'[r].ws = w
            PROVE  call'[r].role # Owner
        <4>1. CASE \E q \in Requests : Handle(q) \/ Crash(q)
          <5>1. call'[r] = NoCall
            BY <1>1, <3>3, <4>1, HandleCalls, NextType DEF IInv, TypeOK
          <5>2. QED
            BY <5>1 DEF NoCall, Owner
        <4>2. CASE \E q \in Requests : BeginCreate(q)
          <5>1. PICK q \in Requests : BeginCreate(q)
            BY <4>2
          <5>2. r = q
            BY <1>1, <3>3, <5>1 DEF BeginCreate, IInv, TypeOK
          <5>3. QED
            BY <1>1, <5>1, <5>2 DEF BeginCreate, IInv, TypeOK, Owner, NoRow
        <4>3. CASE \E q \in Requests, c \in Call : Admission(q, c)
          <5>1. PICK q \in Requests, c \in Call : Admission(q, c)
            BY <4>3
          <5>2. call'[r] = c
            BY <1>1, <3>3, <5>1 DEF Admission, Admit, IInv, TypeOK
          <5>3. role[w][c.actor] = c.role /\ c.actor \in Users
            BY <3>3, <5>1, <5>2 DEF Admission, Admit, Call
          <5>4. QED
            BY <1>1, <5>2, <5>3 DEF Stranded, Owners
        <4>4. QED
          BY <2>2, <3>3, <4>1, <4>2, <4>3, BeginAdmits
             DEF Next, createDefaultWorkspaceForNewUser, Join
      <3>4. QED
        BY <1>1, <3>1, <3>2, <3>3 DEF Stranded
    <2>3. QED
      BY <1>1, <2>1, <2>2
  <1>2. IInv /\ [Next]_vars => [\A w \in Workspaces : Stranded(w) => Stranded(w)']_vars
    BY <1>1
  <1>3. QED
    BY Invariance, <1>2, PTL DEF Spec, StrandedForever

-----------------------------------------------------------------------------
(* One request at a time                                                   *)

\* The rules never take a workspace's last owner away.
LEMMA RulesKeepAnOwner ==
  ASSUME role \in [Workspaces -> [Users -> Roles \union {NoRow}]], Rules!Next,
         NEW w \in Workspaces, NEW u \in Users, role[w][u] = Owner
  PROVE  \E v \in Users : role'[w][v] = Owner
  <1> USE DEF Rules!SetRow, Rules!Owners, Rules!Owner, Rules!Admin, Rules!Member, Rules!NoRow,
              Rules!Roles, Roles, Owner, Admin, Member, NoRow
  <1>1. PICK x \in Workspaces, a \in Users, t \in Users :
          \/ Rules!Found(x, a)
          \/ \E r \in Roles \ {Owner} : Rules!Join(x, a, r)
          \/ \E r \in Roles : Rules!ChangeRole(x, a, t, r)
          \/ Rules!Remove(x, a, t)
          \/ Rules!Leave(x, a)
          \/ Rules!Transfer(x, a, t)
    BY DEF Rules!Next
  <1>2. CASE Rules!Found(x, a)
    BY <1>2 DEF Rules!Found
  <1>3. CASE \E r \in Roles \ {Owner} : Rules!Join(x, a, r)
    BY <1>3 DEF Rules!Join
  <1>4. CASE \E r \in Roles : Rules!ChangeRole(x, a, t, r)
    BY <1>4 DEF Rules!ChangeRole, Rules!KeepsOwner
  <1>5. CASE Rules!Remove(x, a, t)
    BY <1>5 DEF Rules!Remove, Rules!KeepsOwner
  <1>6. CASE Rules!Leave(x, a)
    BY <1>6 DEF Rules!Leave, Rules!KeepsOwner
  <1>7. CASE Rules!Transfer(x, a, t)
    BY <1>7 DEF Rules!Transfer
  <1>8. QED
    BY <1>1, <1>2, <1>3, <1>4, <1>5, <1>6, <1>7

NobodyOvertaken == overtaken = {}

\* With one request at a time nobody is ever overtaken.
LEMMA SerialNotOvertaken ==
  ASSUME \A r, s \in Requests : r = s
  PROVE  Spec => []NobodyOvertaken
  <1>1. Init => NobodyOvertaken
    BY DEF Init, NobodyOvertaken
  <1>2. NobodyOvertaken /\ [Next]_vars => NobodyOvertaken'
    <2> SUFFICES ASSUME overtaken = {}, [Next]_vars PROVE overtaken' = {}
      BY DEF NobodyOvertaken
    <2>1. ASSUME NEW r \in Requests, Overtake(r)
          PROVE  overtaken' = {}
      BY <2>1 DEF Overtake
    <2>2. QED
      BY <2>1, QuietSteps, BeginAdmits
         DEF Next, vars, createDefaultWorkspaceForNewUser, Join, Begin, BeginCreate, Admission,
             Admit, AddOwner, Write, Demote
  <1>3. QED
    BY <1>1, <1>2, PTL DEF Spec

\* What an unovertaken request may do, and what invites and foundings do, is
\* a step of the rules.
LEMMA RulesAreNext ==
  ASSUME IInv, NobodyOvertaken, ByTheRules
  PROVE  Rules!Next
  <1> USE DEF Rules!Roles, Roles, Rules!Owner, Rules!Admin, Rules!Member, Owner, Admin, Member
  <1>1. CASE \E w \in Workspaces, u \in Users :
               Rules!Found(w, u) \/ \E invited \in {Admin, Member} : Rules!Join(w, u, invited)
    BY <1>1 DEF Rules!Next
  <1>2. CASE \E r \in Requests : CommitsByTheRules(r)
    <2>1. PICK r \in Requests : CommitsByTheRules(r)
      BY <1>2
    <2>2. /\ call[r] \in Call /\ CallOK(call[r]) /\ RuleFor(call[r])
          /\ call[r].ws \in Workspaces /\ call[r].actor \in Users /\ call[r].target \in Users
      BY <2>1, CallType DEF CommitsByTheRules, NobodyOvertaken, IInv, CallsOK, Call
    <2>3. call[r].op = "update" => call[r].newRole \in Roles
      BY <2>2 DEF CallOK
    <2>4. QED
      BY <2>2, <2>3 DEF RuleFor, Rules!Next
  <1>3. QED
    BY <1>1, <1>2 DEF ByTheRules

\* If requests are served one at a time, crashes included, the handlers
\* implement the documented rules as atomic steps.
THEOREM SerialRefinement ==
  ASSUME \A r, s \in Requests : r = s
  PROVE  Spec => ImplementsRules
  <1>1. Init => Rules!Init
    BY DEF Init, Rules!Init, NoRow, Rules!NoRow
  <1>2. IInv /\ NobodyOvertaken /\ [Next]_vars => [Rules!Next]_role
    BY StepIsARule, RulesAreNext DEF ByTheRules, NobodyOvertaken
  <1>3. QED
    BY <1>1, <1>2, Invariance, SerialNotOvertaken, PTL DEF Spec, ImplementsRules, Rules!Spec

\* If requests are served one at a time, a workspace that has an owner keeps
\* one: the LAST_OWNER checks fail only under concurrency.
THEOREM SerialKeepsAnOwner ==
  ASSUME \A r, s \in Requests : r = s
  PROVE  Spec => KeepsAnOwner
  <1>1. IInv /\ [Rules!Next]_role =>
          [\A w \in Workspaces : Owners(w) # {} => Owners(w)' # {}]_role
    BY RulesKeepAnOwner DEF IInv, TypeOK, Owners
  <1>2. QED
    BY <1>1, SerialRefinement, Invariance, PTL DEF KeepsAnOwner, ImplementsRules, Rules!Spec

=============================================================================
