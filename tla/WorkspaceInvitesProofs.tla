----------------------- MODULE WorkspaceInvitesProofs -----------------------
(***************************************************************************)
(* Theorems about WorkspaceInvites, for any number of people, invites and  *)
(* concurrent requests.                                                    *)
(***************************************************************************)
EXTENDS WorkspaceInvites, TLAPS

-----------------------------------------------------------------------------
(* The inductive invariant                                                 *)

Issued == {i \in Invites : invites[i].state # "unused"}

\* An invite that is still to be used has admitted nobody; one whose revocation
\* was confirmed is gone.
RowsOK ==
  /\ \A i \in Invites \ Issued : ~invites[i].expired
  /\ \A i \in Invites : invites[i].state \in {"unused", "pending"} => admits[i] = 0
  /\ \A i \in revoked : invites[i].state = "deleted"

\* The transaction of an acceptance, once it has read the invite.
InTransaction(r) == pc[r] \in {"readMember", "insertMember", "markJoined", "markOnly"}

\* What a request that names an invite knows of it.
CallOK(r) ==
  /\ pc[r] \in {"findById", "deleteById", "readInvite"} \/ InTransaction(r)
       => call[r].id \in Issued
  /\ pc[r] = "readInvite" \/ InTransaction(r)
       => call[r].actor \in accounts /\ call[r].actor = call[r].email
  /\ InTransaction(r) => invites[call[r].id].email = call[r].email
  /\ pc[r] = "markOnly" => call[r].actor \in joined
  /\ pc[r] = "deleteById" /\ call[r].id \notin raced => admits[call[r].id] = 0
  /\ \A i \in revoked : Accepting(r, i) => i \in raced

\* A create that has looked for a pending invite is right unless overtaken.
ChecksHold ==
  \A r \in Requests \ overtaken :
    pc[r] = "insertInvite" => PendingFor(call[r].email) = {}

IInv ==
  /\ TypeOK
  /\ RowsOK
  /\ \A r \in Requests : CallOK(r)
  /\ ChecksHold
  /\ AcceptedMeansJoined
  /\ RevokedInvitesAdmitNobody

-----------------------------------------------------------------------------
(* Calls                                                                   *)

LEMMA InitInv == Init => IInv
  <1> SUFFICES ASSUME Init PROVE IInv
    OBVIOUS
  <1>1. TypeOK
    BY FounderIsUser DEF Init, TypeOK, Rows, Roles, Owner, NoRow, Labels, NoCall
  <1>2. RowsOK
    BY DEF Init, RowsOK, Issued
  <1>3. ChecksHold /\ \A r \in Requests : CallOK(r)
    BY DEF Init, ChecksHold, CallOK, InTransaction, Accepting
  <1>4. AcceptedMeansJoined /\ RevokedInvitesAdmitNobody
    BY DEF Init, AcceptedMeansJoined, RevokedInvitesAdmitNobody
  <1>5. QED
    BY <1>1, <1>2, <1>3, <1>4 DEF IInv

LEMMA CallType ==
  ASSUME TypeOK, NEW r \in Requests, pc[r] # "idle"
  PROVE  call[r] \in Call /\ call[r].email \in Users /\ call[r].actor \in Users
         /\ call[r].role \in Invited \union {NoRow}
  <1>1. call[r] \in Call
    BY DEF TypeOK
  <1>2. QED
    BY <1>1 DEF Call

LEMMA CallIsNoNoCall == NoCall \notin Call
  BY DEF NoCall, Call

\* A step touches no request but r's.
OnlyRequest(r) == \A s \in Requests \ {r} : pc'[s] = pc[s] /\ call'[s] = call[s]

\* The next query of r, or its end.
LEMMA RequestTypes ==
  ASSUME TypeOK, NEW r \in Requests, pc[r] # "idle",
         \/ Finish(r)
         \/ \E l \in Labels \ {"idle"} : Goto(r, l) /\ UNCHANGED <<call, overtaken>>
  PROVE  /\ OnlyRequest(r)
         /\ pc' \in [Requests -> Labels]
         /\ call' \in [Requests -> Call \union {NoCall}]
         /\ \A s \in Requests : pc'[s] = "idle" <=> call'[s] = NoCall
         /\ overtaken' \subseteq Requests /\ overtaken \ {r} \subseteq overtaken'
  <1>1. CASE Finish(r)
    BY <1>1 DEF TypeOK, Finish, Goto, Labels, OnlyRequest
  <1>2. ASSUME NEW l \in Labels \ {"idle"}, Goto(r, l), UNCHANGED <<call, overtaken>>
        PROVE  /\ OnlyRequest(r)
               /\ pc' \in [Requests -> Labels]
               /\ call' \in [Requests -> Call \union {NoCall}]
               /\ \A s \in Requests : pc'[s] = "idle" <=> call'[s] = NoCall
               /\ overtaken' \subseteq Requests /\ overtaken \ {r} \subseteq overtaken'
    BY <1>2 DEF TypeOK, Goto, OnlyRequest
  <1>3. QED
    BY <1>1, <1>2

LEMMA FinishedCall ==
  ASSUME TypeOK, NEW r \in Requests, pc'[r] = "idle"
  PROVE  CallOK(r)'
  BY DEF CallOK, InTransaction, Accepting

\* Nothing a request knows is ever taken back, except by the two writes that
\* race each other, which leave a trace in raced.
LEMMA OthersKnow ==
  ASSUME TypeOK, NEW r \in Requests, CallOK(r), pc'[r] = pc[r], call'[r] = call[r],
         accounts \subseteq accounts', joined \subseteq joined', raced \subseteq raced',
         Issued \subseteq Issued',
         \A i \in Issued : invites'[i].email = invites[i].email,
         pc[r] = "deleteById" =>
           call[r].id \in raced' \/ admits'[call[r].id] = admits[call[r].id],
         \A i \in revoked' : Accepting(r, i) => i \in revoked \/ i \in raced'
  PROVE  CallOK(r)'
  <1>1. /\ InTransaction(r)' <=> InTransaction(r)
        /\ \A i \in Invites : Accepting(r, i)' <=> Accepting(r, i)
    BY DEF InTransaction, Accepting
  <1>2. \A i : Accepting(r, i)' <=> Accepting(r, i)
    BY DEF Accepting
  <1>3. \A i \in revoked' : Accepting(r, i)' => i \in raced'
    BY <1>2 DEF CallOK
  <1>4. QED
    BY <1>1, <1>3 DEF CallOK

\* A query that writes nothing.
LEMMA ReadInv ==
  ASSUME IInv, NEW r \in Requests, OnlyRequest(r), NoWrite,
         pc' \in [Requests -> Labels],
         call' \in [Requests -> Call \union {NoCall}],
         \A s \in Requests : pc'[s] = "idle" <=> call'[s] = NoCall,
         overtaken' \subseteq Requests, overtaken \ {r} \subseteq overtaken',
         CallOK(r)',
         pc'[r] = "insertInvite" => PendingFor(call'[r].email) = {}
  PROVE  IInv'
  <1> USE DEF IInv
  <1>1. TypeOK'
    BY DEF TypeOK, NoWrite
  <1>2. RowsOK'
    BY DEF RowsOK, Issued, NoWrite
  <1>3. \A s \in Requests \ {r} : CallOK(s)'
    BY OthersKnow DEF NoWrite, OnlyRequest, Issued
  <1>4. ChecksHold'
    <2>1. \A e : PendingFor(e)' = PendingFor(e)
      BY DEF NoWrite, PendingFor, Pending
    <2>2. ASSUME NEW s \in Requests \ overtaken', pc'[s] = "insertInvite"
          PROVE  PendingFor(call'[s].email) = {}
      <3>1. CASE s = r
        BY <2>2, <3>1
      <3>2. CASE s # r
        BY <2>2, <3>2 DEF ChecksHold, OnlyRequest
      <3>3. QED
        BY <3>1, <3>2
    <2>3. QED
      BY <2>1, <2>2 DEF ChecksHold
  <1>5. AcceptedMeansJoined' /\ RevokedInvitesAdmitNobody'
    BY DEF NoWrite, AcceptedMeansJoined, RevokedInvitesAdmitNobody
  <1>6. QED
    BY <1>1, <1>2, <1>3, <1>4, <1>5

\* A read that goes on to the next query, or ends the request.
LEMMA NextQuery ==
  ASSUME IInv, NEW r \in Requests, pc[r] # "idle", NoWrite,
         NEW l \in Labels \ {"idle", "insertInvite"},
         Finish(r) \/ (Goto(r, l) /\ UNCHANGED <<call, overtaken>>),
         pc'[r] = l /\ call'[r] = call[r] => CallOK(r)'
  PROVE  IInv'
  <1>1. /\ OnlyRequest(r)
        /\ pc' \in [Requests -> Labels]
        /\ call' \in [Requests -> Call \union {NoCall}]
        /\ \A s \in Requests : pc'[s] = "idle" <=> call'[s] = NoCall
        /\ overtaken' \subseteq Requests /\ overtaken \ {r} \subseteq overtaken'
    BY RequestTypes DEF IInv
  <1>2. pc'[r] = "idle" \/ (pc'[r] = l /\ call'[r] = call[r])
    BY DEF Finish, Goto, IInv, TypeOK
  <1>3. CallOK(r)'
    BY <1>2, FinishedCall DEF IInv
  <1>4. pc'[r] # "insertInvite"
    BY <1>2
  <1>5. QED
    BY <1>1, <1>3, <1>4, ReadInv

LEMMA EndInv ==
  ASSUME IInv, NEW r \in Requests, pc[r] # "idle", NoWrite, Finish(r)
  PROVE  IInv'
  <1>1. "findUser" \in Labels \ {"idle", "insertInvite"}
    BY DEF Labels
  <1>2. pc'[r] = "idle"
    BY DEF Finish, Goto, IInv, TypeOK
  <1>3. QED
    BY <1>1, <1>2, NextQuery

\* A call put into a free slot.
LEMMA AdmittedInv ==
  ASSUME IInv, NEW r \in Requests, NEW c \in Call,
         NEW l \in {"findUser", "findById", "readInvite"}, Admit(r, c, l),
         l # "findUser" => c.id \in Issued,
         l = "readInvite" => c.actor \in accounts /\ c.actor = c.email
  PROVE  IInv'
  <1>1. pc'[r] = l /\ call'[r] = c /\ OnlyRequest(r)
    BY DEF IInv, TypeOK, Admit, Goto, OnlyRequest
  <1>2. CallOK(r)'
    BY <1>1 DEF CallOK, InTransaction, Accepting, Admit, NoWrite, Issued
  <1>3. /\ pc' \in [Requests -> Labels]
        /\ call' \in [Requests -> Call \union {NoCall}]
        /\ \A s \in Requests : pc'[s] = "idle" <=> call'[s] = NoCall
        /\ overtaken' \subseteq Requests /\ overtaken \ {r} \subseteq overtaken'
    BY CallIsNoNoCall DEF IInv, TypeOK, Admit, Goto, Labels
  <1>4. QED
    BY <1>1, <1>2, <1>3, ReadInv DEF Admit

-----------------------------------------------------------------------------
(* The queries that write                                                  *)

\* What a step may do to the invites: issue some, and move on the others.
InvitesMoveOn ==
  /\ invites' \in [Invites -> Rows]
  /\ Issued \subseteq Issued'
  /\ \A i \in Issued : invites'[i].email = invites[i].email
  /\ \A i \in Issued : invites'[i].state \in {"pending", "unused"} => invites[i].state = "pending"

\* One invite moves on.
LEMMA MovedInvite ==
  ASSUME TypeOK, NEW i \in Issued, NEW s \in {"accepted", "deleted", "pending"},
         invites' = [invites EXCEPT ![i].state = s],
         s = "pending" => invites[i].state = "pending"
  PROVE  /\ InvitesMoveOn /\ Issued' = Issued
         /\ invites'[i].state = s
         /\ \A j \in Invites : invites'[j].expired = invites[j].expired
         /\ \A j \in Invites \ {i} : invites'[j] = invites[j]
  <1>1. i \in Invites /\ invites[i] \in Rows
    BY DEF TypeOK, Issued
  <1>2. [invites[i] EXCEPT !.state = s] \in Rows
    BY <1>1 DEF Rows
  <1>3. /\ [invites[i] EXCEPT !.state = s].state = s
        /\ [invites[i] EXCEPT !.state = s].email = invites[i].email
        /\ [invites[i] EXCEPT !.state = s].expired = invites[i].expired
    BY <1>1 DEF Rows
  <1>4. /\ invites' \in [Invites -> Rows]
        /\ invites'[i] = [invites[i] EXCEPT !.state = s]
        /\ \A j \in Invites \ {i} : invites'[j] = invites[j]
    BY <1>1, <1>2 DEF TypeOK
  <1>5. Issued' = Issued
    BY <1>1, <1>3, <1>4 DEF Issued
  <1>6. QED
    BY <1>1, <1>3, <1>4, <1>5 DEF InvitesMoveOn, Issued

\* No new pending invite: every check still holds.
LEMMA ChecksKept ==
  ASSUME TypeOK, ChecksHold, NEW r \in Requests, OnlyRequest(r),
         pc'[r] # "insertInvite", overtaken \ {r} \subseteq overtaken',
         InvitesMoveOn, Issued' = Issued
  PROVE  ChecksHold'
  <1>1. \A i \in Invites : Pending(i)' => Pending(i) /\ invites'[i].email = invites[i].email
    BY DEF Pending, InvitesMoveOn, Issued
  <1>2. ASSUME NEW s \in Requests \ overtaken', pc'[s] = "insertInvite"
        PROVE  PendingFor(call[s].email)' = {}
    <2>1. s \notin overtaken /\ pc[s] = "insertInvite" /\ call'[s] = call[s]
      BY <1>2 DEF OnlyRequest
    <2>2. PendingFor(call[s].email) = {}
      BY <2>1 DEF ChecksHold
    <2>3. QED
      BY <1>1, <2>1, <2>2 DEF PendingFor
  <1>3. QED
    BY <1>2 DEF ChecksHold

LEMMA InsertInviteInv ==
  ASSUME IInv, NEW r \in Requests, InsertInvite(r)
  PROVE  IInv'
  <1> USE DEF IInv
  <1> DEFINE e == call[r].email
  <1>1. pc[r] = "insertInvite" /\ UNCHANGED <<accounts, role, admits, joined, revoked, raced>>
    BY DEF InsertInvite
  <1>2. e \in Users /\ call[r].role \in Invited \union {NoRow}
    BY <1>1, CallType
  <1> DEFINE row == [state |-> "pending", email |-> e, role |-> call[r].role,
                     expired |-> FALSE]
  <1>3. PICK n \in Invites : invites[n].state = "unused" /\ invites' = [invites EXCEPT ![n] = row]
    BY DEF InsertInvite
  <1>4. row \in Rows
    BY <1>2 DEF Rows
  <1>5. /\ invites' \in [Invites -> Rows]
        /\ invites'[n] = row
        /\ \A i \in Invites \ {n} : invites'[i] = invites[i]
    BY <1>3, <1>4 DEF TypeOK
  <1>6. Issued \subseteq Issued' /\ \A i \in Issued : i # n
    BY <1>3, <1>5 DEF Issued
  <1>7. /\ OnlyRequest(r) /\ pc'[r] = "idle"
        /\ pc' \in [Requests -> Labels]
        /\ call' \in [Requests -> Call \union {NoCall}]
        /\ \A s \in Requests : pc'[s] = "idle" <=> call'[s] = NoCall
    BY DEF InsertInvite, Goto, TypeOK, OnlyRequest, Labels
  <1>8. overtaken' = (overtaken \ {r}) \union
          {s \in Requests \ {r} : pc[s] = "insertInvite" /\ call[s].email = e}
    BY DEF InsertInvite
  <1>9. TypeOK'
    BY <1>1, <1>5, <1>7, <1>8 DEF TypeOK
  <1>10. RowsOK'
    <2>1. \A i \in Invites \ Issued' : ~invites'[i].expired
      BY <1>5, <1>6 DEF RowsOK
    <2>2. \A i \in Invites : invites'[i].state \in {"unused", "pending"} => admits'[i] = 0
      BY <1>1, <1>3, <1>5 DEF RowsOK
    <2>3. \A i \in revoked' : invites'[i].state = "deleted"
      BY <1>1, <1>3, <1>5 DEF RowsOK, TypeOK
    <2>4. QED
      BY <2>1, <2>2, <2>3 DEF RowsOK
  <1>11. \A s \in Requests \ {r} : CallOK(s)'
    BY <1>1, <1>5, <1>6, <1>7, OthersKnow DEF OnlyRequest, Issued
  <1>12. CallOK(r)'
    BY <1>7, FinishedCall
  <1>13. ChecksHold'
    <2> SUFFICES ASSUME NEW s \in Requests \ overtaken', pc'[s] = "insertInvite"
                 PROVE  PendingFor(call[s].email)' = {}
      BY DEF ChecksHold
    <2>1. s # r /\ pc[s] = "insertInvite" /\ call'[s] = call[s]
      BY <1>7 DEF OnlyRequest
    <2>2. s \notin overtaken /\ call[s].email # e
      BY <1>8, <2>1
    <2>3. PendingFor(call[s].email) = {}
      BY <2>1, <2>2 DEF ChecksHold
    <2>4. QED
      BY <1>5, <2>1, <2>2, <2>3 DEF PendingFor, Pending
  <1>14. AcceptedMeansJoined'
    BY <1>1, <1>5 DEF AcceptedMeansJoined
  <1>15. RevokedInvitesAdmitNobody'
    BY <1>1 DEF RevokedInvitesAdmitNobody
  <1>16. QED
    BY <1>9, <1>10, <1>11, <1>12, <1>13, <1>14, <1>15

LEMMA DeleteByIdInv ==
  ASSUME IInv, NEW r \in Requests, DeleteById(r)
  PROVE  IInv'
  <1> USE DEF IInv
  <1> DEFINE i == call[r].id
  <1>1. pc[r] = "deleteById" /\ Finish(r) /\ UNCHANGED <<accounts, role, admits, joined>>
    BY DEF DeleteById
  <1>2. i \in Issued
    BY <1>1 DEF CallOK
  <1>3. invites' = [invites EXCEPT ![i].state = "deleted"]
    BY DEF DeleteById
  <1>4. /\ InvitesMoveOn /\ Issued' = Issued /\ invites'[i].state = "deleted"
        /\ \A j \in Invites : invites'[j].expired = invites[j].expired
        /\ \A j \in Invites \ {i} : invites'[j] = invites[j]
    BY <1>2, <1>3, MovedInvite
  <1>5. /\ OnlyRequest(r)
        /\ pc' \in [Requests -> Labels]
        /\ call' \in [Requests -> Call \union {NoCall}]
        /\ \A s \in Requests : pc'[s] = "idle" <=> call'[s] = NoCall
        /\ overtaken' \subseteq Requests /\ overtaken \ {r} \subseteq overtaken'
    BY <1>1, RequestTypes
  <1>6. pc'[r] = "idle"
    BY <1>1 DEF Finish, Goto, TypeOK
  <1>7. /\ revoked' = revoked \union {i}
        /\ raced' = raced \union {j \in {i} : \E s \in Requests : Accepting(s, j)}
    BY DEF DeleteById
  <1>8. i \in Invites
    BY <1>2 DEF Issued
  <1>9. TypeOK'
    BY <1>1, <1>4, <1>5, <1>7, <1>8 DEF TypeOK, InvitesMoveOn
  <1>10. RowsOK'
    <2>1. \A j \in Invites : invites'[j].state \in {"unused", "pending"} => admits'[j] = 0
      BY <1>1, <1>4 DEF RowsOK
    <2>2. \A j \in revoked' : invites'[j].state = "deleted"
      BY <1>4, <1>7 DEF RowsOK, TypeOK
    <2>3. QED
      BY <1>4, <2>1, <2>2 DEF RowsOK
  <1>11. \A s \in Requests \ {r} : CallOK(s)'
    <2> TAKE s \in Requests \ {r}
    <2>1. \A j \in revoked' : Accepting(s, j) => j \in revoked \/ j \in raced'
      BY <1>7
    <2>2. QED
      BY <1>1, <1>4, <1>5, <1>7, <2>1, OthersKnow DEF OnlyRequest, InvitesMoveOn
  <1>12. CallOK(r)'
    BY <1>6, FinishedCall
  <1>13. ChecksHold'
    BY <1>4, <1>5, <1>6, ChecksKept
  <1>14. AcceptedMeansJoined'
    BY <1>1, <1>4 DEF AcceptedMeansJoined
  <1>15. RevokedInvitesAdmitNobody'
    <2>1. i \notin raced => admits[i] = 0
      BY <1>1 DEF CallOK
    <2>2. QED
      BY <1>1, <1>7, <2>1 DEF RevokedInvitesAdmitNobody
  <1>16. QED
    BY <1>9, <1>10, <1>11, <1>12, <1>13, <1>14, <1>15

\* The UPDATE that marks the invite accepted.
LEMMA MarkedInvite ==
  ASSUME TypeOK, NEW i \in Issued, MarkAccepted(i)
  PROVE  /\ InvitesMoveOn /\ Issued' = Issued
         /\ invites'[i].state \in {"accepted", "deleted"}
         /\ invites[i].state = "deleted" => invites'[i].state = "deleted"
         /\ \A j \in Invites : invites'[j].expired = invites[j].expired
         /\ \A j \in Invites \ {i} : invites'[j] = invites[j]
  <1>1. CASE invites[i].state = "deleted"
    <2>1. invites' = [invites EXCEPT ![i].state = "deleted"]
      BY <1>1 DEF MarkAccepted
    <2>2. QED
      BY <2>1, MovedInvite
  <1>2. CASE invites[i].state # "deleted"
    <2>1. invites' = [invites EXCEPT ![i].state = "accepted"]
      BY <1>2 DEF MarkAccepted
    <2>2. QED
      BY <1>2, <2>1, MovedInvite
  <1>3. QED
    BY <1>1, <1>2

LEMMA CommitJoinedInv ==
  ASSUME IInv, NEW r \in Requests, CommitJoined(r)
  PROVE  IInv'
  <1> USE DEF IInv
  <1> DEFINE i == call[r].id
             u == call[r].actor
  <1>1. pc[r] = "markJoined" /\ MarkAccepted(i) /\ Finish(r) /\ UNCHANGED <<accounts, revoked>>
    BY DEF CommitJoined
  <1>2. /\ i \in Issued /\ i \in Invites /\ u \in accounts /\ u \in Users
        /\ u = call[r].email /\ invites[i].email = u
    BY <1>1, CallType DEF CallOK, InTransaction, Issued
  <1>3. /\ InvitesMoveOn /\ Issued' = Issued
        /\ invites'[i].state \in {"accepted", "deleted"}
        /\ invites[i].state = "deleted" => invites'[i].state = "deleted"
        /\ \A j \in Invites : invites'[j].expired = invites[j].expired
        /\ \A j \in Invites \ {i} : invites'[j] = invites[j]
    BY <1>1, <1>2, MarkedInvite
  <1>4. /\ OnlyRequest(r)
        /\ pc' \in [Requests -> Labels]
        /\ call' \in [Requests -> Call \union {NoCall}]
        /\ \A s \in Requests : pc'[s] = "idle" <=> call'[s] = NoCall
        /\ overtaken' \subseteq Requests /\ overtaken \ {r} \subseteq overtaken'
    BY <1>1, RequestTypes
  <1>5. pc'[r] = "idle"
    BY <1>1 DEF Finish, Goto, TypeOK
  <1>6. /\ role' = [role EXCEPT ![u] = invites[i].role]
        /\ joined' = joined \union {u}
        /\ admits' = [admits EXCEPT ![i] = @ + 1]
        /\ raced' = raced \union
             {j \in {i} : \E s \in Requests : pc[s] = "deleteById" /\ call[s].id = j}
    BY DEF CommitJoined
  <1>7. invites[i].role \in Roles \union {NoRow}
    BY <1>2, InvitedRoles DEF TypeOK, Rows, Roles, Admin, Member
  <1>8. TypeOK'
    <2>1. role' \in [Users -> Roles \union {NoRow}]
      BY <1>2, <1>6, <1>7 DEF TypeOK
    <2>2. admits' \in [Invites -> Nat]
      BY <1>2, <1>6 DEF TypeOK
    <2>3. \A v \in Users : role'[v] # NoRow => v \in joined'
      BY <1>2, <1>6 DEF TypeOK
    <2>4. QED
      BY <1>1, <1>2, <1>3, <1>4, <1>6, <2>1, <2>2, <2>3 DEF TypeOK, InvitesMoveOn
  <1>9. \A j \in Invites \ {i} : admits'[j] = admits[j]
    BY <1>6 DEF TypeOK
  <1>10. RowsOK'
    <2>1. \A j \in Invites : invites'[j].state \in {"unused", "pending"} => admits'[j] = 0
      BY <1>3, <1>9 DEF RowsOK
    <2>2. \A j \in revoked' : invites'[j].state = "deleted"
      BY <1>1, <1>3 DEF RowsOK, TypeOK
    <2>3. QED
      BY <1>3, <2>1, <2>2 DEF RowsOK
  <1>11. \A s \in Requests \ {r} : CallOK(s)'
    <2> TAKE s \in Requests \ {r}
    <2>1. pc[s] = "deleteById" =>
            call[s].id \in raced' \/ admits'[call[s].id] = admits[call[s].id]
      BY <1>6, <1>9 DEF CallOK, Issued
    <2>2. QED
      BY <1>1, <1>3, <1>4, <1>6, <2>1, OthersKnow DEF OnlyRequest, InvitesMoveOn
  <1>12. CallOK(r)'
    BY <1>5, FinishedCall
  <1>13. ChecksHold'
    BY <1>3, <1>4, <1>5, ChecksKept
  <1>14. AcceptedMeansJoined'
    <2>1. invites'[i].email \in joined'
      BY <1>2, <1>3, <1>6 DEF InvitesMoveOn
    <2>2. QED
      BY <1>3, <1>6, <2>1 DEF AcceptedMeansJoined
  <1>15. RevokedInvitesAdmitNobody'
    <2>1. i \in revoked => i \in raced
      BY <1>1 DEF CallOK, Accepting
    <2>2. QED
      BY <1>1, <1>6, <1>9, <2>1 DEF RevokedInvitesAdmitNobody, TypeOK
  <1>16. QED
    BY <1>8, <1>10, <1>11, <1>12, <1>13, <1>14, <1>15

LEMMA CommitAlreadyMemberInv ==
  ASSUME IInv, NEW r \in Requests, CommitAlreadyMember(r)
  PROVE  IInv'
  <1> USE DEF IInv
  <1> DEFINE i == call[r].id
  <1>1. /\ pc[r] = "markOnly" /\ MarkAccepted(i) /\ Finish(r)
        /\ UNCHANGED <<accounts, role, admits, joined, revoked, raced>>
    BY DEF CommitAlreadyMember
  <1>2. i \in Issued /\ i \in Invites /\ invites[i].email \in joined
    BY <1>1 DEF CallOK, InTransaction, Issued
  <1>3. /\ InvitesMoveOn /\ Issued' = Issued
        /\ invites'[i].state \in {"accepted", "deleted"}
        /\ invites[i].state = "deleted" => invites'[i].state = "deleted"
        /\ \A j \in Invites : invites'[j].expired = invites[j].expired
        /\ \A j \in Invites \ {i} : invites'[j] = invites[j]
    BY <1>1, <1>2, MarkedInvite
  <1>4. /\ OnlyRequest(r)
        /\ pc' \in [Requests -> Labels]
        /\ call' \in [Requests -> Call \union {NoCall}]
        /\ \A s \in Requests : pc'[s] = "idle" <=> call'[s] = NoCall
        /\ overtaken' \subseteq Requests /\ overtaken \ {r} \subseteq overtaken'
    BY <1>1, RequestTypes
  <1>5. pc'[r] = "idle"
    BY <1>1 DEF Finish, Goto, TypeOK
  <1>6. TypeOK'
    BY <1>1, <1>3, <1>4 DEF TypeOK, InvitesMoveOn
  <1>7. RowsOK'
    <2>1. \A j \in Invites : invites'[j].state \in {"unused", "pending"} => admits'[j] = 0
      BY <1>1, <1>3 DEF RowsOK
    <2>2. \A j \in revoked' : invites'[j].state = "deleted"
      BY <1>1, <1>3 DEF RowsOK, TypeOK
    <2>3. QED
      BY <1>3, <2>1, <2>2 DEF RowsOK
  <1>8. \A s \in Requests \ {r} : CallOK(s)'
    BY <1>1, <1>3, <1>4, OthersKnow DEF OnlyRequest, InvitesMoveOn
  <1>9. CallOK(r)'
    BY <1>5, FinishedCall
  <1>10. ChecksHold'
    BY <1>3, <1>4, <1>5, ChecksKept
  <1>11. AcceptedMeansJoined'
    <2>1. invites'[i].email \in joined'
      BY <1>1, <1>2, <1>3 DEF InvitesMoveOn
    <2>2. QED
      BY <1>1, <1>3, <2>1 DEF AcceptedMeansJoined
  <1>12. RevokedInvitesAdmitNobody'
    BY <1>1 DEF RevokedInvitesAdmitNobody
  <1>13. QED
    BY <1>6, <1>7, <1>8, <1>9, <1>10, <1>11, <1>12

LEMMA ExpireInv ==
  ASSUME IInv, NEW i \in Invites, Expire(i)
  PROVE  IInv'
  <1> USE DEF IInv
  <1>1. /\ invites[i].state = "pending"
        /\ invites' = [invites EXCEPT ![i].expired = TRUE]
        /\ UNCHANGED <<accounts, role, pc, call, admits, joined, revoked, raced, overtaken>>
    BY DEF Expire, Pending
  <1>2. [invites[i] EXCEPT !.expired = TRUE] \in Rows
    BY DEF TypeOK, Rows
  <1>3. /\ [invites[i] EXCEPT !.expired = TRUE].state = invites[i].state
        /\ [invites[i] EXCEPT !.expired = TRUE].email = invites[i].email
    BY DEF TypeOK, Rows
  <1>4. /\ invites' \in [Invites -> Rows]
        /\ \A j \in Invites : /\ invites'[j].state = invites[j].state
                              /\ invites'[j].email = invites[j].email
        /\ \A j \in Invites \ {i} : invites'[j] = invites[j]
    BY <1>1, <1>2, <1>3 DEF TypeOK
  <1>5. Issued' = Issued /\ i \in Issued
    BY <1>1, <1>4 DEF Issued
  <1>6. TypeOK'
    BY <1>1, <1>4 DEF TypeOK
  <1>7. RowsOK'
    BY <1>1, <1>4, <1>5 DEF RowsOK, TypeOK
  <1>8. \A r \in Requests : CallOK(r)'
    BY <1>1, <1>4, <1>5, OthersKnow DEF Issued
  <1>9. ChecksHold'
    <2> SUFFICES ASSUME NEW s \in Requests \ overtaken', pc'[s] = "insertInvite"
                 PROVE  PendingFor(call[s].email)' = {}
      BY DEF ChecksHold
    <2>1. PendingFor(call[s].email) = {}
      BY <1>1 DEF ChecksHold
    <2>2. QED
      BY <1>1, <1>4, <2>1 DEF PendingFor, Pending
  <1>10. AcceptedMeansJoined' /\ RevokedInvitesAdmitNobody'
    BY <1>1, <1>4 DEF AcceptedMeansJoined, RevokedInvitesAdmitNobody
  <1>11. QED
    BY <1>6, <1>7, <1>8, <1>9, <1>10

\* Accounts and member rows that change behind the requests.
LEMMA PeopleInv ==
  ASSUME IInv, UNCHANGED <<invites, pc, call, admits, joined, revoked, raced, overtaken>>,
         accounts \subseteq accounts', accounts' \subseteq Users,
         role' \in [Users -> Roles \union {NoRow}],
         \A u \in Users : role'[u] # NoRow => u \in joined'
  PROVE  IInv'
  <1> USE DEF IInv
  <1>1. TypeOK' /\ RowsOK'
    BY DEF TypeOK, RowsOK, Issued
  <1>2. \A r \in Requests : CallOK(r)'
    BY OthersKnow DEF Issued
  <1>3. ChecksHold' /\ AcceptedMeansJoined' /\ RevokedInvitesAdmitNobody'
    BY DEF ChecksHold, PendingFor, Pending, AcceptedMeansJoined, RevokedInvitesAdmitNobody
  <1>4. QED
    BY <1>1, <1>2, <1>3

-----------------------------------------------------------------------------
(* Every step                                                              *)

LEMMA HandleInv ==
  ASSUME IInv, NEW r \in Requests, Handle(r)
  PROVE  IInv'
  <1> USE DEF IInv
  <1>1. CASE FindUser(r)
    <2>1. PICK l \in {"findMember", "findPending"} : Goto(r, l)
      BY <1>1 DEF FindUser
    <2>2. l \in Labels \ {"idle", "insertInvite"}
      BY DEF Labels
    <2>3. pc'[r] = l => CallOK(r)'
      BY DEF CallOK, InTransaction, Accepting
    <2>4. QED
      BY <1>1, <2>1, <2>2, <2>3, NextQuery DEF FindUser
  <1>2. CASE FindMember(r)
    <2>1. "findPending" \in Labels \ {"idle", "insertInvite"}
      BY DEF Labels
    <2>2. pc'[r] = "findPending" => CallOK(r)'
      BY DEF CallOK, InTransaction, Accepting
    <2>3. QED
      BY <1>2, <2>1, <2>2, NextQuery DEF FindMember, Continue
  <1>3. CASE FindPending(r)
    <2>1. CASE PendingFor(call[r].email) = {}
      <3>1. Goto(r, "insertInvite") /\ UNCHANGED <<call, overtaken>> /\ NoWrite
        BY <1>3, <2>1 DEF FindPending, Continue
      <3>2. pc[r] # "idle" /\ "insertInvite" \in Labels \ {"idle"}
        BY <1>3 DEF FindPending, Labels
      <3>3. /\ OnlyRequest(r)
            /\ pc' \in [Requests -> Labels]
            /\ call' \in [Requests -> Call \union {NoCall}]
            /\ \A s \in Requests : pc'[s] = "idle" <=> call'[s] = NoCall
            /\ overtaken' \subseteq Requests /\ overtaken \ {r} \subseteq overtaken'
        BY <3>1, <3>2, RequestTypes
      <3>4. pc'[r] = "insertInvite"
        BY <3>1 DEF Goto, TypeOK
      <3>5. CallOK(r)'
        BY <3>4 DEF CallOK, InTransaction, Accepting
      <3>6. QED
        BY <2>1, <3>1, <3>3, <3>5, ReadInv
    <2>2. CASE PendingFor(call[r].email) # {}
      BY <1>3, <2>2, EndInv DEF FindPending, Continue
    <2>3. QED
      BY <2>1, <2>2
  <1>4. CASE InsertInvite(r)
    BY <1>4, InsertInviteInv
  <1>5. CASE FindById(r)
    <2>1. CASE Pending(call[r].id)
      <3>1. Goto(r, "deleteById") /\ UNCHANGED <<call, overtaken>> /\ NoWrite
        BY <1>5, <2>1 DEF FindById, Continue
      <3>2. "deleteById" \in Labels \ {"idle", "insertInvite"} /\ pc[r] = "findById"
        BY <1>5 DEF Labels, FindById
      <3>3. call[r].id \in Issued /\ call[r].id \in Invites
        BY <3>2 DEF CallOK, Issued
      <3>4. admits[call[r].id] = 0
        BY <2>1, <3>3 DEF Pending, RowsOK
      <3>5. pc'[r] = "deleteById" /\ call'[r] = call[r] => CallOK(r)'
        BY <3>1, <3>3, <3>4 DEF CallOK, InTransaction, Accepting, NoWrite, Issued
      <3>6. QED
        BY <3>1, <3>2, <3>5, NextQuery
    <2>2. CASE ~Pending(call[r].id)
      BY <1>5, <2>2, EndInv DEF FindById, Continue
    <2>3. QED
      BY <2>1, <2>2
  <1>6. CASE DeleteById(r)
    BY <1>6, DeleteByIdInv
  <1>7. CASE ReadInvite(r)
    <2>1. CASE Acceptable(call[r].id, call[r].email)
      <3>1. Goto(r, "readMember") /\ UNCHANGED <<call, overtaken>> /\ NoWrite
        BY <1>7, <2>1 DEF ReadInvite, Continue
      <3>2. "readMember" \in Labels \ {"idle", "insertInvite"} /\ pc[r] = "readInvite"
        BY <1>7 DEF Labels, ReadInvite
      <3>3. /\ call[r].id \in Issued
            /\ call[r].actor \in accounts /\ call[r].actor = call[r].email
        BY <3>2 DEF CallOK
      <3>4. invites[call[r].id].email = call[r].email /\ call[r].id \notin revoked
        BY <2>1 DEF Acceptable, Pending, RowsOK
      <3>5. pc'[r] = "readMember" /\ call'[r] = call[r] => CallOK(r)'
        BY <3>1, <3>3, <3>4 DEF CallOK, InTransaction, Accepting, NoWrite, Issued
      <3>6. QED
        BY <3>1, <3>2, <3>5, NextQuery
    <2>2. CASE ~Acceptable(call[r].id, call[r].email)
      BY <1>7, <2>2, EndInv DEF ReadInvite, Continue
    <2>3. QED
      BY <2>1, <2>2
  <1>8. CASE ReadMember(r)
    <2>1. /\ pc[r] = "readMember" /\ UNCHANGED <<call, overtaken>> /\ NoWrite
          /\ Goto(r, IF role[call[r].actor] = NoRow THEN "insertMember" ELSE "markOnly")
      BY <1>8 DEF ReadMember
    <2>2. InTransaction(r) /\ call[r].actor \in Users
      BY <2>1, CallType DEF InTransaction
    <2>3. CASE role[call[r].actor] = NoRow
      <3>1. Goto(r, "insertMember") /\ "insertMember" \in Labels \ {"idle", "insertInvite"}
        BY <2>1, <2>3 DEF Labels
      <3>2. pc'[r] = "insertMember" /\ call'[r] = call[r] => CallOK(r)'
        BY <2>1, <2>2 DEF CallOK, InTransaction, Accepting, NoWrite, Issued
      <3>3. QED
        BY <2>1, <3>1, <3>2, NextQuery
    <2>4. CASE role[call[r].actor] # NoRow
      <3>1. Goto(r, "markOnly") /\ "markOnly" \in Labels \ {"idle", "insertInvite"}
        BY <2>1, <2>4 DEF Labels
      <3>2. call[r].actor \in joined
        BY <2>2, <2>4 DEF TypeOK
      <3>3. pc'[r] = "markOnly" /\ call'[r] = call[r] => CallOK(r)'
        BY <2>1, <2>2, <3>2 DEF CallOK, InTransaction, Accepting, NoWrite, Issued
      <3>4. QED
        BY <2>1, <3>1, <3>3, NextQuery
    <2>5. QED
      BY <2>3, <2>4
  <1>9. CASE InsertMember(r)
    <2>1. /\ pc[r] = "insertMember" /\ NoWrite
          /\ Finish(r) \/ (Goto(r, "markJoined") /\ UNCHANGED <<call, overtaken>>)
      BY <1>9 DEF InsertMember, Continue
    <2>2. "markJoined" \in Labels \ {"idle", "insertInvite"} /\ InTransaction(r)
      BY <2>1 DEF Labels, InTransaction
    <2>3. pc'[r] = "markJoined" /\ call'[r] = call[r] => CallOK(r)'
      BY <2>1, <2>2 DEF CallOK, InTransaction, Accepting, NoWrite, Issued
    <2>4. QED
      BY <2>1, <2>2, <2>3, NextQuery
  <1>10. CASE CommitJoined(r)
    BY <1>10, CommitJoinedInv
  <1>11. CASE CommitAlreadyMember(r)
    BY <1>11, CommitAlreadyMemberInv
  <1>12. QED
    BY <1>1, <1>2, <1>3, <1>4, <1>5, <1>6, <1>7, <1>8, <1>9, <1>10, <1>11 DEF Handle

LEMMA NextInv == IInv /\ [Next]_vars => IInv'
  <1> SUFFICES ASSUME IInv, [Next]_vars PROVE IInv'
    OBVIOUS
  <1>1. ASSUME NEW r \in Requests, BeginCreate(r) PROVE IInv'
    <2>1. PICK a \in Users, e \in Users, invited \in Invited :
            Admit(r, [op |-> "create", actor |-> a, email |-> e, role |-> invited,
                      id |-> NoInvite], "findUser")
      BY <1>1 DEF BeginCreate
    <2>2. [op |-> "create", actor |-> a, email |-> e, role |-> invited,
           id |-> NoInvite] \in Call
      BY DEF Call
    <2>3. QED
      BY <2>1, <2>2, AdmittedInv
  <1>2. ASSUME NEW r \in Requests, BeginRevoke(r) PROVE IInv'
    <2>1. PICK a \in Users, i \in Invites :
            /\ invites[i].state # "unused"
            /\ Admit(r, [op |-> "revoke", actor |-> a, email |-> a, role |-> NoRow,
                         id |-> i], "findById")
      BY <1>2 DEF BeginRevoke
    <2>2. [op |-> "revoke", actor |-> a, email |-> a, role |-> NoRow, id |-> i] \in Call
      BY DEF Call
    <2>3. QED
      BY <2>1, <2>2, AdmittedInv DEF Issued
  <1>3. ASSUME NEW r \in Requests, BeginAccept(r) PROVE IInv'
    <2>1. PICK a \in accounts, i \in Invites :
            /\ invites[i].state # "unused"
            /\ Admit(r, [op |-> "accept", actor |-> a, email |-> a, role |-> NoRow,
                         id |-> i], "readInvite")
      BY <1>3 DEF BeginAccept
    <2>2. [op |-> "accept", actor |-> a, email |-> a, role |-> NoRow, id |-> i] \in Call
      BY DEF Call, IInv, TypeOK
    <2>3. QED
      BY <2>1, <2>2, AdmittedInv DEF Issued
  <1>4. ASSUME NEW r \in Requests, Handle(r) PROVE IInv'
    BY <1>4, HandleInv
  <1>5. ASSUME NEW r \in Requests, Crash(r) PROVE IInv'
    BY <1>5, EndInv DEF Crash
  <1>6. ASSUME NEW i \in Invites, Expire(i) PROVE IInv'
    BY <1>6, ExpireInv
  <1>7. ASSUME NEW u \in Users, Register(u) PROVE IInv'
    BY <1>7, PeopleInv DEF Register, IInv, TypeOK
  <1>8. ASSUME NEW u \in Users, MemberRowChanges(u) PROVE IInv'
    <2>1. PICK new \in Roles \union {NoRow} : role' = [role EXCEPT ![u] = new]
      BY <1>8 DEF MemberRowChanges
    <2>2. role' \in [Users -> Roles \union {NoRow}]
      BY <2>1 DEF IInv, TypeOK
    <2>3. \A v \in Users : role'[v] # NoRow => v \in joined
      BY <1>8, <2>1 DEF MemberRowChanges, IInv, TypeOK
    <2>4. QED
      BY <1>8, <2>2, <2>3, PeopleInv DEF MemberRowChanges, IInv, TypeOK
  <1>9. CASE UNCHANGED vars
    BY <1>9, PeopleInv DEF vars, IInv, TypeOK
  <1>10. QED
    BY <1>1, <1>2, <1>3, <1>4, <1>5, <1>6, <1>7, <1>8, <1>9 DEF Next

\* The three parts of it: the state, the open transactions and the admissions.
LEMMA SpentStays ==
  ASSUME IInv, [Next]_vars, NEW i \in Invites, Spent(i)
  PROVE  Spent(i)' /\ admits'[i] = admits[i]
  <1> USE DEF IInv
  <1>1. i \in Issued /\ ~Acceptable(i, i)
    BY DEF Spent, Issued, RowsOK, Acceptable, Pending
  <1>2. \A r \in Requests : ~Accepting(r, i)
    BY DEF Spent
  <1>3. admits'[i] = admits[i]
    <2>1. ASSUME NEW r \in Requests, CommitJoined(r) PROVE admits'[i] = admits[i]
      <3>1. call[r].id # i
        BY <1>2, <2>1 DEF CommitJoined, Accepting
      <3>2. QED
        BY <2>1, <3>1 DEF CommitJoined, TypeOK
    <2>2. ASSUME ~\E r \in Requests : CommitJoined(r) PROVE admits'[i] = admits[i]
      BY <2>2 DEF Next, Handle, BeginCreate, BeginRevoke, BeginAccept, Admit, NoWrite,
           FindUser, FindMember, FindPending, InsertInvite, FindById, DeleteById,
           ReadInvite, ReadMember, InsertMember, CommitAlreadyMember, Crash, Expire,
           Register, MemberRowChanges, vars
    <2>3. QED
      BY <2>1, <2>2
  <1>4. invites'[i].state \in {"accepted", "deleted"} \/ invites'[i].expired
    <2>1. ASSUME NEW j \in Issued, NEW s \in {"accepted", "deleted"},
                 invites' = [invites EXCEPT ![j].state = s]
          PROVE  invites'[i].state \in {"accepted", "deleted"} \/ invites'[i].expired
      <3>1. CASE i = j
        BY <2>1, <3>1, MovedInvite
      <3>2. CASE i # j
        BY <2>1, <3>2, <1>1, MovedInvite DEF Spent, Issued
      <3>3. QED
        BY <3>1, <3>2
    <2>2. ASSUME NEW r \in Requests, InsertInvite(r)
          PROVE  invites'[i] = invites[i]
      BY <1>1, <2>2 DEF InsertInvite, Issued, TypeOK
    <2>3. ASSUME NEW r \in Requests, DeleteById(r)
          PROVE  invites'[i].state \in {"accepted", "deleted"} \/ invites'[i].expired
      <3>1. call[r].id \in Issued
        BY <2>3 DEF DeleteById, CallOK
      <3>2. QED
        BY <2>1, <2>3, <3>1 DEF DeleteById
    <2>4. ASSUME NEW j \in Issued, MarkAccepted(j)
          PROVE  invites'[i].state \in {"accepted", "deleted"} \/ invites'[i].expired
      <3>1. \E s \in {"accepted", "deleted"} : invites' = [invites EXCEPT ![j].state = s]
        BY <2>4 DEF MarkAccepted
      <3>2. QED
        BY <2>1, <3>1
    <2>5. ASSUME NEW r \in Requests, CommitJoined(r) \/ CommitAlreadyMember(r)
          PROVE  invites'[i].state \in {"accepted", "deleted"} \/ invites'[i].expired
      <3>1. call[r].id \in Issued /\ MarkAccepted(call[r].id)
        BY <2>5 DEF CommitJoined, CommitAlreadyMember, CallOK, InTransaction
      <3>2. QED
        BY <2>4, <3>1
    <2>6. ASSUME NEW j \in Invites, Expire(j)
          PROVE  invites'[i].state \in {"accepted", "deleted"} \/ invites'[i].expired
      <3>1. invites' = [invites EXCEPT ![j].expired = TRUE] /\ invites[i] \in Rows
        BY <1>1, <2>6 DEF Expire, TypeOK, Issued
      <3>2. QED
        BY <1>1, <3>1 DEF Spent, TypeOK, Rows, Issued
    <2>7. ASSUME UNCHANGED invites
          PROVE  invites'[i].state \in {"accepted", "deleted"} \/ invites'[i].expired
      BY <2>7 DEF Spent
    <2>8. QED
      BY <2>2, <2>3, <2>5, <2>6, <2>7
         DEF Next, Handle, BeginCreate, BeginRevoke, BeginAccept, Admit, NoWrite,
           FindUser, FindMember, FindPending, FindById, ReadInvite, ReadMember,
           InsertMember, Crash, Register, MemberRowChanges, vars, Spent
  <1>5. ASSUME NEW r \in Requests PROVE ~Accepting(r, i)'
    <2>1. ~Accepting(r, i)
      BY <1>2
    <2>2. CASE UNCHANGED <<pc, call>>
      BY <2>1, <2>2 DEF Accepting
    <2>3. ASSUME NEW s \in Requests, ~Accepting(s, i)', OnlyRequest(s)
          PROVE  ~Accepting(r, i)'
      BY <2>1, <2>3 DEF OnlyRequest, Accepting
    <2>4. ASSUME NEW s \in Requests, NEW c, NEW l \in {"findUser", "findById", "readInvite"},
                 Admit(s, c, l)
          PROVE  ~Accepting(r, i)'
      <3>1. pc'[s] = l /\ OnlyRequest(s)
        BY <2>4 DEF Admit, Goto, TypeOK, OnlyRequest
      <3>2. QED
        BY <2>3, <3>1 DEF Accepting
    <2>5. ASSUME NEW s \in Requests, BeginCreate(s) \/ BeginRevoke(s) \/ BeginAccept(s)
          PROVE  ~Accepting(r, i)'
      BY <2>4, <2>5 DEF BeginCreate, BeginRevoke, BeginAccept
    <2>6. ASSUME NEW s \in Requests, pc[s] # "idle", Finish(s)
          PROVE  ~Accepting(r, i)'
      <3>1. pc'[s] = "idle" /\ OnlyRequest(s)
        BY <2>6, RequestTypes DEF Finish, Goto, TypeOK
      <3>2. QED
        BY <2>3, <3>1 DEF Accepting
    <2>7. ASSUME NEW s \in Requests, NEW l \in Labels \ {"idle"}, pc[s] # "idle",
                 Goto(s, l), UNCHANGED <<call, overtaken>>,
                 l \in {"readMember", "insertMember", "markJoined"} => call[s].id # i
          PROVE  ~Accepting(r, i)'
      <3>1. pc'[s] = l /\ call'[s] = call[s] /\ OnlyRequest(s)
        BY <2>7, RequestTypes DEF Goto, TypeOK
      <3>2. QED
        BY <2>3, <2>7, <3>1 DEF Accepting
    <2>8. ASSUME NEW s \in Requests, Handle(s) \/ Crash(s)
          PROVE  ~Accepting(r, i)'
      <3>1. CASE FindUser(s) \/ FindMember(s) \/ FindPending(s) \/ FindById(s)
        BY <2>6, <2>7, <3>1
           DEF FindUser, FindMember, FindPending, FindById, Continue, Labels
      <3>2. CASE InsertInvite(s)
        <4>1. pc'[s] = "idle" /\ OnlyRequest(s)
          BY <3>2 DEF InsertInvite, Goto, TypeOK, OnlyRequest
        <4>2. QED
          BY <2>3, <4>1 DEF Accepting
      <3>3. CASE ReadInvite(s)
        <4>1. Acceptable(call[s].id, call[s].email) => call[s].id # i
          BY DEF Acceptable, Pending, Spent
        <4>2. QED
          BY <2>6, <2>7, <3>3, <4>1 DEF ReadInvite, Continue, Labels
      <3>4. CASE ReadMember(s)
        <4>1. call[s].id # i
          BY <1>2, <3>4 DEF ReadMember, Accepting
        <4>2. QED
          BY <2>7, <3>4, <4>1 DEF ReadMember, Labels
      <3>5. CASE InsertMember(s)
        <4>1. call[s].id # i
          BY <1>2, <3>5 DEF InsertMember, Accepting
        <4>2. QED
          BY <2>6, <2>7, <3>5, <4>1 DEF InsertMember, Continue, Labels
      <3>6. CASE DeleteById(s) \/ CommitJoined(s) \/ CommitAlreadyMember(s) \/ Crash(s)
        BY <2>6, <3>6 DEF DeleteById, CommitJoined, CommitAlreadyMember, Crash
      <3>7. QED
        BY <2>8, <3>1, <3>2, <3>3, <3>4, <3>5, <3>6 DEF Handle
    <2>9. QED
      BY <2>2, <2>5, <2>8 DEF Next, Expire, Register, MemberRowChanges, vars
  <1>6. QED
    BY <1>3, <1>4, <1>5 DEF Spent

-----------------------------------------------------------------------------
(* The theorems                                                            *)

\* Requests know what they have read, and the safety properties hold.
THEOREM Invariance == Spec => []IInv
  <1>1. Init => IInv
    BY InitInv
  <1>2. IInv /\ [Next]_vars => IInv'
    BY NextInv
  <1>3. QED
    BY <1>1, <1>2, PTL DEF Spec

\* Accounts, member rows, invites and requests keep their types.
THEOREM TypeCorrect == Spec => []TypeOK
  <1>1. IInv => TypeOK
    BY DEF IInv
  <1>2. QED
    BY <1>1, Invariance, PTL

\* A used invite has made its addressee a member, or found them one, whatever
\* crashes or aborts between the statements of acceptInvite.
THEOREM UsedInvitesHaveMembers == Spec => []AcceptedMeansJoined
  <1>1. IInv => AcceptedMeansJoined
    BY DEF IInv
  <1>2. QED
    BY <1>1, Invariance, PTL

\* An invite whose revocation was confirmed has admitted somebody, or still
\* does, only if revokeInvite and acceptInvite were at it together.
THEOREM RevokedInvites == Spec => []RevokedInvitesAdmitNobody
  <1>1. IInv => RevokedInvitesAdmitNobody
    BY DEF IInv
  <1>2. QED
    BY <1>1, Invariance, PTL

\* An invite that is used, deleted or expired, with no acceptance that has read
\* it before still open, stays so and admits nobody again.
THEOREM SpentInvites == Spec => SpentInvitesStaySpent
  <1>1. IInv /\ [Next]_vars
          => [\A i \in Invites : Spent(i) => Spent(i)' /\ admits'[i] = admits[i]]_vars
    BY SpentStays
  <1>2. QED
    BY <1>1, Invariance, PTL DEF Spec, SpentInvitesStaySpent

\* Two pending invites for one address need two createInvites of which each
\* has looked before the other inserted.
THEOREM Duplicates == Spec => DuplicateInvitesNeedOverlap
  <1>1. IInv => \A r \in Requests :
                  pc[r] = "insertInvite" => PendingFor(call[r].email) = {} \/ r \in overtaken
    BY DEF IInv, ChecksHold
  <1>2. IInv /\ [Next]_vars
          => [\A r \in Requests :
                pc[r] = "insertInvite" /\ invites' # invites /\ pc'[r] = "idle"
                  => PendingFor(call[r].email) = {} \/ r \in overtaken]_vars
    BY <1>1
  <1>3. QED
    BY <1>2, Invariance, PTL DEF Spec, DuplicateInvitesNeedOverlap

=============================================================================
