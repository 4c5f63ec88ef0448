-------------------------- MODULE WorkspaceInvites --------------------------
(***************************************************************************)
(* The invite half of WorkspacesService, for one workspace: createInvite,  *)
(* revokeInvite and acceptInvite.  Create and revoke read and write with   *)
(* nothing held in between; accept is one READ COMMITTED transaction whose *)
(* statements each see the latest commits.                                 *)
(*                                                                         *)
(* A person stands for an email address and, once registered, for the      *)
(* account with that address (both are compared in lower case).  An invite *)
(* id stands for the row, its token and the mail that carries it.          *)
(***************************************************************************)
EXTENDS Naturals

CONSTANTS
  Users,      \* people: an address each, an account once registered
  Founder,    \* the owner the workspace starts with
  Invited,    \* roles invites are made out to, of those the DTO accepts
  Invites,    \* ids of invites
  Requests    \* slots for HTTP requests in flight at the same time

ASSUME FounderIsUser == Founder \in Users
ASSUME InvitedRoles == Invited \subseteq {"admin", "member"}

Owner  == "owner"
Admin  == "admin"
Member == "member"
NoRow  == "none"

Roles    == {Owner, Admin, Member}
Managers == {Owner, Admin}

VARIABLES
  accounts,   \* registered users
  role,       \* member rows of the workspace: role[u], NoRow if no row
  invites,    \* table workspace_invites, with the ids not created yet
  pc,         \* the next query of each request
  call,       \* what each request asked for
  admits,     \* ghost: how often an invite has inserted a member row
  joined,     \* ghost: people who have had a member row
  revoked,    \* ghost: invites a caller was told are revoked
  raced,      \* ghost: invites a revocation and an acceptance were at together
  overtaken   \* ghost: creates overtaken by another invite to the address

vars == <<accounts, role, invites, pc, call, admits, joined, revoked, raced, overtaken>>

Rows == [state : {"unused", "pending", "accepted", "deleted"},
         email : Users, role : Invited \union {NoRow}, expired : BOOLEAN]

NoInvite == "none"

Call == [op : {"create", "revoke", "accept"}, actor : Users, email : Users,
         role : Invited \union {NoRow}, id : Invites \union {NoInvite}]

NoCall == [op |-> "none", actor |-> "none", email |-> "none", role |-> "none",
           id |-> "none"]

Labels == {"idle", "findUser", "findMember", "findPending", "insertInvite",
           "findById", "deleteById", "readInvite", "readMember", "insertMember",
           "markJoined", "markOnly"}

TypeOK ==
  /\ accounts \subseteq Users
  /\ role \in [Users -> Roles \union {NoRow}]
  /\ invites \in [Invites -> Rows]
  /\ pc \in [Requests -> Labels]
  /\ call \in [Requests -> Call \union {NoCall}]
  /\ \A r \in Requests : pc[r] = "idle" <=> call[r] = NoCall
  /\ admits \in [Invites -> Nat]
  /\ joined \subseteq accounts
  /\ \A u \in Users : role[u] # NoRow => u \in joined
  /\ revoked \subseteq Invites
  /\ raced \subseteq Invites
  /\ overtaken \subseteq Requests

Init ==
  /\ accounts = {Founder}
  /\ role = [u \in Users |-> IF u = Founder THEN Owner ELSE NoRow]
  /\ invites = [i \in Invites |-> [state |-> "unused", email |-> Founder,
                                   role |-> NoRow, expired |-> FALSE]]
  /\ pc = [r \in Requests |-> "idle"]
  /\ call = [r \in Requests |-> NoCall]
  /\ admits = [i \in Invites |-> 0]
  /\ joined = {Founder}
  /\ revoked = {}
  /\ raced = {}
  /\ overtaken = {}

-----------------------------------------------------------------------------
(* Helpers                                                                 *)

Goto(r, label) == pc' = [pc EXCEPT ![r] = label]

Finish(r) ==
  /\ Goto(r, "idle")
  /\ call' = [call EXCEPT ![r] = NoCall]
  /\ overtaken' = overtaken \ {r}

\* Go on to `label` if the query found what the handler wants, else reply.
Continue(r, ok, label) ==
  IF ok THEN Goto(r, label) /\ UNCHANGED <<call, overtaken>> ELSE Finish(r)

\* acceptInvite has read the invite and is still open.
Accepting(r, i) ==
  pc[r] \in {"readMember", "insertMember", "markJoined"} /\ call[r].id = i

NoWrite == UNCHANGED <<accounts, role, invites, admits, joined, revoked, raced>>

Pending(i)    == invites[i].state = "pending"
PendingFor(e) == {i \in Invites : Pending(i) /\ invites[i].email = e}

Admit(r, c, label) ==
  /\ pc[r] = "idle"
  /\ Goto(r, label)
  /\ call' = [call EXCEPT ![r] = c]
  /\ UNCHANGED overtaken
  /\ NoWrite

-----------------------------------------------------------------------------
(* createInvite                                                            *)

\* WorkspaceGuard and WorkspaceRolesGuard: owners and admins only.
BeginCreate(r) ==
  \E a, e \in Users, invited \in Invited :
    /\ role[a] \in Managers
    /\ Admit(r, [op |-> "create", actor |-> a, email |-> e, role |-> invited,
                 id |-> NoInvite], "findUser")

FindUser(r) ==
  /\ pc[r] = "findUser"
  /\ Goto(r, IF call[r].email \in accounts THEN "findMember" ELSE "findPending")
  /\ UNCHANGED <<call, overtaken>>
  /\ NoWrite

\* ALREADY_MEMBER
FindMember(r) ==
  /\ pc[r] = "findMember"
  /\ Continue(r, role[call[r].email] = NoRow, "findPending")
  /\ NoWrite

\* A slip: pending invites are not looked for.
SkipFindPending(r) ==
  /\ pc[r] = "findPending"
  /\ Continue(r, TRUE, "insertInvite")
  /\ NoWrite

\* INVITE_PENDING, whether or not the pending invite has expired
FindPending(r) ==
  /\ pc[r] = "findPending"
  /\ Continue(r, PendingFor(call[r].email) = {}, "insertInvite")
  /\ NoWrite

InsertInvite(r) ==
  /\ pc[r] = "insertInvite"
  /\ \E i \in Invites :
       /\ invites[i].state = "unused"
       /\ invites' = [invites EXCEPT ![i] = [state |-> "pending", email |-> call[r].email,
                                             role |-> call[r].role, expired |-> FALSE]]
  /\ Goto(r, "idle")
  /\ call' = [call EXCEPT ![r] = NoCall]
  /\ overtaken' = (overtaken \ {r}) \union
       {s \in Requests \ {r} : pc[s] = "insertInvite" /\ call[s].email = call[r].email}
  /\ UNCHANGED <<accounts, role, admits, joined, revoked, raced>>

-----------------------------------------------------------------------------
(* revokeInvite                                                            *)

BeginRevoke(r) ==
  \E a \in Users, i \in Invites :
    /\ role[a] \in Managers
    /\ invites[i].state # "unused"
    /\ Admit(r, [op |-> "revoke", actor |-> a, email |-> a, role |-> NoRow,
                 id |-> i], "findById")

\* A slip: an invite that was accepted is found as well.
FindByIdUsed(r) ==
  /\ pc[r] = "findById"
  /\ Continue(r, invites[call[r].id].state \in {"pending", "accepted"}, "deleteById")
  /\ NoWrite

\* INVITE_NOT_FOUND unless the invite is there and not accepted
FindById(r) ==
  /\ pc[r] = "findById"
  /\ Continue(r, Pending(call[r].id), "deleteById")
  /\ NoWrite

\* DELETE by id alone: whatever became of the invite, the reply is revoked.
DeleteById(r) ==
  /\ pc[r] = "deleteById"
  /\ invites' = [invites EXCEPT ![call[r].id].state = "deleted"]
  /\ revoked' = revoked \union {call[r].id}
  /\ raced' = raced \union {i \in {call[r].id} : \E s \in Requests : Accepting(s, i)}
  /\ Finish(r)
  /\ UNCHANGED <<accounts, role, admits, joined>>

-----------------------------------------------------------------------------
(* acceptInvite                                                            *)

\* A slip: the route is public.
AcceptWithoutAccount(r) ==
  \E a \in Users, i \in Invites :
    /\ invites[i].state # "unused"
    /\ Admit(r, [op |-> "accept", actor |-> a, email |-> a, role |-> NoRow,
                 id |-> i], "readInvite")

\* Any account may present a token.
BeginAccept(r) ==
  \E a \in accounts, i \in Invites :
    /\ invites[i].state # "unused"
    /\ Admit(r, [op |-> "accept", actor |-> a, email |-> a, role |-> NoRow,
                 id |-> i], "readInvite")

\* Slips: anybody's invite will do; an expired one will do.
AcceptableForAll(i, email) == Pending(i) /\ ~invites[i].expired
AcceptableForever(i, email) == Pending(i) /\ invites[i].email = email

\* INVALID_INVITE, INVITE_EMAIL_MISMATCH
Acceptable(i, email) ==
  /\ Pending(i)
  /\ ~invites[i].expired
  /\ invites[i].email = email

ReadInvite(r) ==
  /\ pc[r] = "readInvite"
  /\ Continue(r, Acceptable(call[r].id, call[r].email), "readMember")
  /\ NoWrite

ReadMember(r) ==
  /\ pc[r] = "readMember"
  /\ Goto(r, IF role[call[r].actor] = NoRow THEN "insertMember" ELSE "markOnly")
  /\ UNCHANGED <<call, overtaken>>
  /\ NoWrite

\* The INSERT waits for another open transaction that has inserted the same
\* row; UNIQUE (workspace_id, user_id) aborts it if the row is there.
InsertMember(r) ==
  /\ pc[r] = "insertMember"
  /\ ~\E s \in Requests : pc[s] = "markJoined" /\ call[s].actor = call[r].actor
  /\ Continue(r, role[call[r].actor] = NoRow, "markJoined")
  /\ NoWrite

\* UPDATE ... SET accepted_at WHERE id: no row if the invite was deleted.
MarkAccepted(i) ==
  invites' = [invites EXCEPT ![i].state = IF @ = "deleted" THEN @ ELSE "accepted"]

\* The last UPDATE and COMMIT: the new member row becomes visible.
CommitJoined(r) ==
  LET i == call[r].id
      u == call[r].actor
  IN  /\ pc[r] = "markJoined"
      /\ MarkAccepted(i)
      /\ role' = [role EXCEPT ![u] = invites[i].role]
      /\ joined' = joined \union {u}
      /\ admits' = [admits EXCEPT ![i] = @ + 1]
      /\ raced' = raced \union
           {j \in {i} : \E s \in Requests : pc[s] = "deleteById" /\ call[s].id = j}
      /\ Finish(r)
      /\ UNCHANGED <<accounts, revoked>>

\* alreadyMember: the invite is used up, the row stays as it is.
CommitAlreadyMember(r) ==
  /\ pc[r] = "markOnly"
  /\ MarkAccepted(call[r].id)
  /\ Finish(r)
  /\ UNCHANGED <<accounts, role, admits, joined, revoked, raced>>

-----------------------------------------------------------------------------
(* Environment                                                             *)

\* expires_at passes.
Expire(i) ==
  /\ Pending(i)
  /\ ~invites[i].expired
  /\ invites' = [invites EXCEPT ![i].expired = TRUE]
  /\ UNCHANGED <<accounts, role, pc, call, admits, joined, revoked, raced, overtaken>>

Register(u) ==
  /\ u \notin accounts
  /\ accounts' = accounts \union {u}
  /\ UNCHANGED <<role, invites, pc, call, admits, joined, revoked, raced, overtaken>>

\* Whatever WorkspaceMembers does to an existing row, transfers included.
MemberRowChanges(u) ==
  /\ role[u] # NoRow
  /\ \E new \in Roles \union {NoRow} : new # role[u] /\ role' = [role EXCEPT ![u] = new]
  /\ UNCHANGED <<accounts, invites, pc, call, admits, joined, revoked, raced, overtaken>>

\* The process or its connection dies: an open transaction rolls back.
Crash(r) ==
  /\ pc[r] # "idle"
  /\ Finish(r)
  /\ NoWrite

-----------------------------------------------------------------------------

Handle(r) ==
  \/ FindUser(r)   \/ FindMember(r)  \/ FindPending(r)  \/ InsertInvite(r)
  \/ FindById(r)   \/ DeleteById(r)
  \/ ReadInvite(r) \/ ReadMember(r)  \/ InsertMember(r)
  \/ CommitJoined(r) \/ CommitAlreadyMember(r)

Next ==
  \/ \E r \in Requests : BeginCreate(r) \/ BeginRevoke(r) \/ BeginAccept(r)
                         \/ Handle(r) \/ Crash(r)
  \/ \E i \in Invites : Expire(i)
  \/ \E u \in Users : Register(u) \/ MemberRowChanges(u)

Spec == Init /\ [][Next]_vars

-----------------------------------------------------------------------------
(* Properties                                                              *)

\* An invite is marked accepted only in the transaction that made its
\* addressee a member, or found them one: whatever crashes or aborts between
\* the statements of acceptInvite, no used invite goes without a member.
AcceptedMeansJoined ==
  \A i \in Invites : invites[i].state = "accepted" => invites[i].email \in joined

\* An invite is spent once it is used, deleted or expired and no transaction
\* that has read it before is still open.
Spent(i) ==
  /\ invites[i].state \in {"accepted", "deleted"} \/ invites[i].expired
  /\ \A r \in Requests : ~Accepting(r, i)

\* A spent invite stays spent and admits nobody again, in any interleaving of
\* acceptInvite with itself, revokeInvite and expiry.
SpentInvitesStaySpent ==
  [][\A i \in Invites : Spent(i) => Spent(i)' /\ admits'[i] = admits[i]]_vars

\* createInvite adds a second pending invite to an address only if another
\* createInvite inserted its own between this one's check and its insert.
DuplicateInvitesNeedOverlap ==
  [][\A r \in Requests :
       pc[r] = "insertInvite" /\ invites' # invites /\ pc'[r] = "idle"
         => PendingFor(call[r].email) = {} \/ r \in overtaken]_vars

\* "Unknown or already-used id -> 404" (request.md:105) holds but for one race:
\* an invite whose revocation was confirmed has admitted somebody, or still
\* does, only if its acceptance came between the two queries of the revocation
\* or had read the invite before its delete.
RevokedInvitesAdmitNobody == \A i \in revoked \ raced : admits[i] = 0

=============================================================================
