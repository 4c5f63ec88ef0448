------------------------- MODULE AuthSessionsProofs -------------------------
(***************************************************************************)
(* Theorems about AuthSessions, for any number of accounts, tokens and     *)
(* concurrent requests.                                                    *)
(***************************************************************************)
EXTENDS AuthSessions, TLAPS

-----------------------------------------------------------------------------
(* The inductive invariant                                                 *)

Issued == {t \in Tokens : tokens[t].state # "unused"}

\* A token not generated yet has no row; a session is named by one that was.
RowsOK ==
  /\ \A t \in Tokens \ Issued : tokens[t] = NoRow
  /\ \A t \in Issued : tokens[t].session \in Issued
  /\ loggedOut \subseteq Issued

\* A request that presents a token knows its session, and has deleted it
\* before it inserts the next one.
CallOK(r) ==
  /\ pc[r] = "insertUser" => call[r].op = "register"
  /\ pc[r] \in {"findToken", "deleteToken"} => call[r].op \in {"refresh", "logout"}
  /\ pc[r] = "issue" => call[r].op # "logout"
  /\ call[r].op \in {"register", "login"} =>
       call[r].token = NoToken /\ call[r].session = NoToken
  /\ call[r].op \in {"refresh", "logout"} =>
       call[r].token \in Issued /\ call[r].session = tokens[call[r].token].session

CallsOK == \A r \in Requests : CallOK(r)

IInv ==
  /\ TypeOK
  /\ RowsOK
  /\ CallsOK
  /\ UnracedSessionsAreSingle
  /\ LogoutEndsUnracedSessions

-----------------------------------------------------------------------------
(* Type correctness                                                        *)

LEMMA InitType == Init => TypeOK
  BY DEF Init, TypeOK, TableOK, Labels, Rows, NoRow, NoCall, Call, NoToken

LEMMA CallType ==
  ASSUME TypeOK, NEW r \in Requests, pc[r] # "idle"
  PROVE  call[r] \in Call
  BY DEF TypeOK

\* A call put into a free slot.
LEMMA BeginType ==
  ASSUME TypeOK, NEW r \in Requests, NEW c \in Call, NEW l \in Labels \ {"idle"},
         Begin(r, c, l)
  PROVE  TypeOK'
  <1>1. c # NoCall
    BY DEF Call, NoCall
  <1>2. QED
    BY <1>1 DEF TypeOK, Begin, Goto

\* Ending a request keeps the types, whatever its last query did.
LEMMA FinishType ==
  ASSUME TypeOK, NEW r \in Requests, Finish(r),
         accounts' \subseteq Users, TableOK(tokens'),
         parent' \in [Tokens -> Tokens \union {NoToken}],
         raced' \subseteq Tokens, loggedOut' \subseteq Tokens
  PROVE  TypeOK'
  BY DEF TypeOK, Finish, Goto, Labels

LEMMA StepType ==
  ASSUME TypeOK, NEW r \in Requests, NEW l \in Labels \ {"idle"}, pc[r] # "idle",
         Goto(r, l), call' = call,
         accounts' \subseteq Users, TableOK(tokens'), parent' = parent,
         raced' \subseteq Tokens, loggedOut' \subseteq Tokens
  PROVE  TypeOK'
  BY DEF TypeOK, Goto

\* A delete keeps the rows in their type and touches one of them.
LEMMA DeletedRows ==
  ASSUME TableOK(tokens), NEW t \in Issued
  PROVE  /\ TableOK(Deleted(t))
         /\ Deleted(t)[t].state = "deleted"
         /\ Deleted(t)[t].session = tokens[t].session
         /\ Deleted(t)[t].expired = tokens[t].expired
         /\ \A u \in Tokens \ {t} : Deleted(t)[u] = tokens[u]
  BY DEF Deleted, Rows, TableOK, Issued

\* The same of the passing of expires_at.
LEMMA ExpiredRows ==
  ASSUME TypeOK, NEW t \in Tokens, Expire(t)
  PROVE  /\ TableOK(tokens')
         /\ tokens'[t].state = "live"
         /\ tokens'[t].session = tokens[t].session
         /\ \A u \in Tokens \ {t} : tokens'[u] = tokens[u]
  BY DEF TypeOK, TableOK, Expire, Rows

\* The row of a new token, and the session it continues or begins.
LEMMA SavedRows ==
  ASSUME TypeOK, CallsOK, NEW r \in Requests, pc[r] = "issue",
         NEW t \in Tokens, SaveForUser(r, t)
  PROVE  /\ TableOK(tokens')
         /\ parent' \in [Tokens -> Tokens \union {NoToken}]
         /\ tokens'[t].state = "live"
         /\ tokens'[t].session = SessionOf(call[r], t)
         /\ \A u \in Tokens \ {t} : tokens'[u] = tokens[u] /\ parent'[u] = parent[u]
         /\ parent'[t] = call[r].token
  <1>1. call[r] \in Call
    BY CallType
  <1>2. SessionOf(call[r], t) \in Tokens \union {NoToken}
    BY <1>1 DEF SessionOf, Call
  <1>3. [state |-> "live", user |-> call[r].user, expired |-> FALSE,
         session |-> SessionOf(call[r], t)] \in Rows
    BY <1>1, <1>2 DEF Rows, Call
  <1>4. call[r].token \in Tokens \union {NoToken} /\ call[r].user \in Users
    BY <1>1 DEF Call
  <1>5. QED
    BY <1>3, <1>4 DEF TypeOK, TableOK, SaveForUser

LEMMA NextType == TypeOK /\ RowsOK /\ CallsOK /\ [Next]_vars => TypeOK'
  <1> SUFFICES ASSUME TypeOK, RowsOK, CallsOK, [Next]_vars PROVE TypeOK'
    OBVIOUS
  <1>1. ASSUME NEW r \in Requests, BeginRegister(r) PROVE TypeOK'
    <2>1. PICK u \in Users :
             Begin(r, [op |-> "register", user |-> u, token |-> NoToken,
                       session |-> NoToken], "insertUser")
      BY <1>1 DEF BeginRegister
    <2>2. [op |-> "register", user |-> u, token |-> NoToken, session |-> NoToken] \in Call
      BY DEF Call
    <2>3. QED
      BY <2>1, <2>2, BeginType DEF Labels
  <1>2. ASSUME NEW r \in Requests, BeginLogin(r) PROVE TypeOK'
    <2>1. PICK u \in accounts :
             Begin(r, [op |-> "login", user |-> u, token |-> NoToken,
                       session |-> NoToken], "issue")
      BY <1>2 DEF BeginLogin
    <2>2. [op |-> "login", user |-> u, token |-> NoToken, session |-> NoToken] \in Call
      BY DEF Call, TypeOK
    <2>3. QED
      BY <2>1, <2>2, BeginType DEF Labels
  <1>3. ASSUME NEW r \in Requests, BeginRefresh(r) \/ BeginLogout(r) PROVE TypeOK'
    <2>1. PICK op \in {"refresh", "logout"}, u \in Users, t \in Tokens :
             BeginWithToken(r, op, u, t)
      BY <1>3 DEF BeginRefresh, BeginLogout, BeginWithToken, TypeOK, TableOK
    <2>2. [op |-> op, user |-> u, token |-> t, session |-> tokens[t].session] \in Call
      BY DEF Call, TypeOK, TableOK, Rows
    <2>3. QED
      BY <2>1, <2>2, BeginType DEF Labels, BeginWithToken
  <1>4. ASSUME NEW r \in Requests, InsertUser(r) PROVE TypeOK'
    <2>1. call[r].user \in Users
      BY <1>4, CallType DEF InsertUser, Call
    <2>2. QED
      BY <1>4, <2>1, FinishType, StepType DEF InsertUser, Labels, TypeOK
  <1>5. ASSUME NEW r \in Requests, IssueTokenPair(r) PROVE TypeOK'
    <2>1. PICK t \in Tokens : SaveForUser(r, t)
      BY <1>5 DEF IssueTokenPair
    <2>2. QED
      BY <1>5, <2>1, SavedRows, FinishType DEF IssueTokenPair, TypeOK
  <1>6. ASSUME NEW r \in Requests, FindByHashWithUser(r) PROVE TypeOK'
    BY <1>6, FinishType, StepType DEF FindByHashWithUser, Labels, TypeOK
  <1>7. ASSUME NEW r \in Requests, DeleteById(r) PROVE TypeOK'
    <2>1. call[r].token \in Issued /\ call[r] \in Call
      BY <1>7, CallType DEF DeleteById, CallsOK, CallOK
    <2>2. tokens' = Deleted(call[r].token) /\ TableOK(tokens')
      BY <1>7, <2>1, DeletedRows DEF DeleteById, TypeOK
    <2>3. raced' \subseteq Tokens /\ call[r].session \in Tokens
      BY <1>7, <2>1 DEF DeleteById, CallsOK, CallOK, RowsOK, TypeOK, Issued
    <2>4. QED
      BY <1>7, <2>2, <2>3, FinishType, StepType DEF DeleteById, TypeOK, Labels
  <1>8. ASSUME NEW r \in Requests, Crash(r) PROVE TypeOK'
    BY <1>8, FinishType DEF Crash, TypeOK
  <1>9. ASSUME NEW t \in Tokens, Expire(t) PROVE TypeOK'
    BY <1>9, ExpiredRows DEF Expire, TypeOK
  <1>10. CASE UNCHANGED vars
    BY <1>10 DEF vars, TypeOK
  <1>11. QED
    BY <1>1, <1>2, <1>3, <1>4, <1>5, <1>6, <1>7, <1>8, <1>9, <1>10 DEF Next

-----------------------------------------------------------------------------
(* Rows and calls                                                          *)

LEMMA InitInv == Init => IInv
  <1> SUFFICES ASSUME Init PROVE IInv
    OBVIOUS
  <1>1. TypeOK
    BY InitType
  <1>2. RowsOK /\ CallsOK
    BY DEF Init, RowsOK, CallsOK, CallOK, Issued, NoRow, NoCall
  <1>3. UnracedSessionsAreSingle /\ LogoutEndsUnracedSessions
    BY DEF Init, UnracedSessionsAreSingle, LogoutEndsUnracedSessions, Live, Issuing, NoRow
  <1>4. QED
    BY <1>1, <1>2, <1>3 DEF IInv

\* The steps that leave the table alone.
Quiet(r) ==
  \/ BeginRegister(r) \/ InsertUser(r) \/ BeginLogin(r) \/ BeginRefresh(r)
  \/ BeginLogout(r) \/ FindByHashWithUser(r) \/ Crash(r)

LEMMA QuietRows ==
  ASSUME NEW r \in Requests, Quiet(r)
  PROVE  tokens' = tokens /\ parent' = parent /\ raced' = raced /\ loggedOut' = loggedOut
  BY DEF Quiet, BeginRegister, InsertUser, BeginLogin, BeginRefresh, BeginLogout,
         BeginWithToken, Begin, FindByHashWithUser, Crash

\* A token that was issued stays issued, and its session is fixed; a saved one
\* was not issued before; a revoked session is one that was begun.
LEMMA NextIssued ==
  ASSUME TypeOK, RowsOK, CallsOK, [Next]_vars
  PROVE  /\ Issued \subseteq Issued'
         /\ \A t \in Issued : tokens'[t].session = tokens[t].session
         /\ RowsOK'
  <1> DEFINE Goal == /\ Issued \subseteq Issued'
                     /\ \A t \in Issued : tokens'[t].session = tokens[t].session
                     /\ RowsOK'
  <1>1. ASSUME NEW r \in Requests, Quiet(r) PROVE Goal
    BY <1>1, QuietRows DEF RowsOK, Issued
  <1>2. ASSUME NEW r \in Requests, IssueTokenPair(r) PROVE Goal
    <2>1. PICK t \in Tokens : SaveForUser(r, t)
      BY <1>2 DEF IssueTokenPair
    <2>2. t \notin Issued
      BY <2>1 DEF SaveForUser, Issued
    <2>3. /\ tokens'[t].state = "live"
          /\ tokens'[t].session = SessionOf(call[r], t)
          /\ \A u \in Tokens \ {t} : tokens'[u] = tokens[u]
      BY <1>2, <2>1, SavedRows DEF IssueTokenPair
    <2>4. Issued' = Issued \union {t}
      BY <2>2, <2>3 DEF Issued
    <2>5. SessionOf(call[r], t) \in Issued \union {t}
      BY <1>2 DEF SessionOf, IssueTokenPair, CallsOK, CallOK, RowsOK
    <2>6. QED
      BY <1>2, <2>2, <2>3, <2>4, <2>5 DEF RowsOK, IssueTokenPair, Issued
  <1>3. ASSUME NEW r \in Requests, DeleteById(r) PROVE Goal
    <2>1. call[r].token \in Issued /\ call[r].session \in Issued
      BY <1>3 DEF DeleteById, CallsOK, CallOK, RowsOK
    <2>2. /\ tokens'[call[r].token].state = "deleted"
          /\ tokens'[call[r].token].session = tokens[call[r].token].session
          /\ \A u \in Tokens \ {call[r].token} : tokens'[u] = tokens[u]
      BY <1>3, <2>1, DeletedRows DEF DeleteById, TypeOK
    <2>3. Issued' = Issued
      BY <2>1, <2>2 DEF Issued
    <2>4. loggedOut' \subseteq Issued
      BY <1>3, <2>1 DEF DeleteById, RowsOK
    <2>5. QED
      BY <2>1, <2>2, <2>3, <2>4 DEF RowsOK, Issued
  <1>4. ASSUME NEW t \in Tokens, Expire(t) PROVE Goal
    <2>1. /\ tokens'[t].state = "live"
          /\ tokens'[t].session = tokens[t].session
          /\ \A u \in Tokens \ {t} : tokens'[u] = tokens[u]
      BY <1>4, ExpiredRows
    <2>2. Issued' = Issued /\ t \in Issued
      BY <1>4, <2>1 DEF Issued, Expire
    <2>3. QED
      BY <1>4, <2>1, <2>2 DEF RowsOK, Expire, Issued
  <1>5. CASE UNCHANGED vars
    BY <1>5 DEF vars, RowsOK, Issued
  <1>6. QED
    BY <1>1, <1>2, <1>3, <1>4, <1>5 DEF Next, Quiet

\* A request not touched by the step keeps its call.
LEMMA OtherCalls ==
  ASSUME TypeOK, RowsOK, CallsOK, [Next]_vars,
         NEW s \in Requests, pc'[s] = pc[s], call'[s] = call[s]
  PROVE  CallOK(s)'
  BY NextIssued DEF CallsOK, CallOK, Issued

\* A request that has ended asks for nothing.
LEMMA EndedCall ==
  ASSUME TypeOK, NEW r \in Requests, Finish(r)
  PROVE  /\ CallOK(r)'
         /\ \A s \in Requests \ {r} : pc'[s] = pc[s] /\ call'[s] = call[s]
  BY DEF Finish, Goto, TypeOK, CallOK, NoCall

\* A request that has gone on asks for what it did.
LEMMA MovedCall ==
  ASSUME TypeOK, NEW r \in Requests, NEW l \in Labels, Goto(r, l), call' = call
  PROVE  /\ pc'[r] = l /\ call'[r] = call[r]
         /\ \A s \in Requests \ {r} : pc'[s] = pc[s] /\ call'[s] = call[s]
  BY DEF Goto, TypeOK

LEMMA BegunCall ==
  ASSUME TypeOK, NEW r \in Requests, NEW c, NEW l \in Labels, Begin(r, c, l)
  PROVE  /\ pc'[r] = l /\ call'[r] = c
         /\ \A s \in Requests \ {r} : pc'[s] = pc[s] /\ call'[s] = call[s]
         /\ tokens' = tokens
  BY DEF Begin, Goto, TypeOK

LEMMA NextCalls == TypeOK /\ RowsOK /\ CallsOK /\ [Next]_vars => CallsOK'
  <1> SUFFICES ASSUME TypeOK, RowsOK, CallsOK, [Next]_vars PROVE CallsOK'
    OBVIOUS
  <1>1. ASSUME NEW r \in Requests, CallOK(r)',
               \A s \in Requests \ {r} : pc'[s] = pc[s] /\ call'[s] = call[s]
        PROVE  CallsOK'
    BY <1>1, OtherCalls DEF CallsOK
  <1>2. ASSUME NEW r \in Requests, Finish(r) PROVE CallsOK'
    BY <1>1, <1>2, EndedCall
  <1>3. ASSUME NEW r \in Requests, BeginRegister(r) PROVE CallsOK'
    <2>1. PICK u \in Users :
             Begin(r, [op |-> "register", user |-> u, token |-> NoToken,
                       session |-> NoToken], "insertUser")
      BY <1>3 DEF BeginRegister
    <2>2. QED
      BY <1>1, <2>1, BegunCall DEF Labels, CallOK
  <1>4. ASSUME NEW r \in Requests, BeginLogin(r) PROVE CallsOK'
    <2>1. PICK u \in accounts :
             Begin(r, [op |-> "login", user |-> u, token |-> NoToken,
                       session |-> NoToken], "issue")
      BY <1>4 DEF BeginLogin
    <2>2. QED
      BY <1>1, <2>1, BegunCall DEF Labels, CallOK
  <1>5. ASSUME NEW r \in Requests, BeginRefresh(r) \/ BeginLogout(r) PROVE CallsOK'
    <2>1. PICK op \in {"refresh", "logout"}, u \in Users, t \in Tokens :
             BeginWithToken(r, op, u, t)
      BY <1>5 DEF BeginRefresh, BeginLogout, BeginWithToken, TypeOK, TableOK
    <2>2. Begin(r, [op |-> op, user |-> u, token |-> t, session |-> tokens[t].session],
                "findToken")
          /\ t \in Issued
      BY <2>1 DEF BeginWithToken, Issued
    <2>3. QED
      BY <1>1, <2>2, BegunCall DEF Labels, CallOK, Issued
  <1>6. ASSUME NEW r \in Requests, InsertUser(r) PROVE CallsOK'
    <2>1. CASE Finish(r)
      BY <2>1, <1>2
    <2>2. CASE Goto(r, "issue") /\ call' = call
      BY <1>1, <1>6, <2>2, MovedCall DEF InsertUser, CallsOK, CallOK, Labels
    <2>3. QED
      BY <1>6, <2>1, <2>2 DEF InsertUser
  <1>7. ASSUME NEW r \in Requests, FindByHashWithUser(r) PROVE CallsOK'
    <2>1. CASE Finish(r)
      BY <2>1, <1>2
    <2>2. CASE Goto(r, "deleteToken") /\ call' = call
      BY <1>1, <1>7, <2>2, MovedCall DEF FindByHashWithUser, CallsOK, CallOK, Labels, Issued
    <2>3. QED
      BY <1>7, <2>1, <2>2 DEF FindByHashWithUser
  <1>8. ASSUME NEW r \in Requests, DeleteById(r) PROVE CallsOK'
    <2>1. CASE Finish(r)
      BY <2>1, <1>2
    <2>2. CASE Goto(r, "issue") /\ call' = call /\ call[r].op = "refresh"
      <3>1. CallOK(r) /\ pc[r] = "deleteToken"
        BY <1>8 DEF CallsOK, DeleteById
      <3>2. QED
        BY <1>1, <2>2, <3>1, MovedCall, NextIssued DEF CallOK, Labels
    <2>3. QED
      BY <1>8, <2>1, <2>2 DEF DeleteById
  <1>9. ASSUME NEW r \in Requests, IssueTokenPair(r) \/ Crash(r) PROVE CallsOK'
    BY <1>2, <1>9 DEF IssueTokenPair, Crash
  <1>10. ASSUME NEW t \in Tokens, Expire(t) PROVE CallsOK'
    BY <1>10, OtherCalls DEF Expire, CallsOK
  <1>11. CASE UNCHANGED vars
    BY <1>11, OtherCalls DEF vars, CallsOK
  <1>12. QED
    BY <1>3, <1>4, <1>5, <1>6, <1>7, <1>8, <1>9, <1>10, <1>11 DEF Next

-----------------------------------------------------------------------------
(* Sessions                                                                *)

\* What the two session invariants say of one session.
SessionOK(s) ==
  /\ s \notin raced =>
       /\ \A t, u \in Live(s) : t = u
       /\ \A q, r \in Issuing(s) : q = r
       /\ Live(s) = {} \/ Issuing(s) = {}
  /\ s \in loggedOut \ raced => Live(s) = {} /\ Issuing(s) = {}

LEMMA SessionsOK ==
  ASSUME loggedOut \subseteq Tokens
  PROVE  (\A s \in Tokens : SessionOK(s))
           <=> UnracedSessionsAreSingle /\ LogoutEndsUnracedSessions
  BY DEF SessionOK, UnracedSessionsAreSingle, LogoutEndsUnracedSessions

\* Fewer tokens and fewer inserts under way do a session no harm.
LEMMA SessionShrinks ==
  ASSUME NEW s, SessionOK(s), raced' = raced, loggedOut' = loggedOut,
         Live(s)' \subseteq Live(s), Issuing(s)' \subseteq Issuing(s)
  PROVE  SessionOK(s)'
  BY DEF SessionOK

\* A step that starts no insert for a session and gives it no token.
LEMMA QuietSession ==
  ASSUME IInv, NEW r \in Requests, Quiet(r), NEW s \in Tokens
  PROVE  Live(s)' \subseteq Live(s) /\ Issuing(s)' \subseteq Issuing(s)
  <1>1. Live(s)' = Live(s)
    BY QuietRows DEF Live
  <1>2. ASSUME NEW q \in Requests, pc'[q] = "issue", call'[q].session = s
        PROVE  pc[q] = "issue" /\ call[q].session = s
    <2>1. CASE Finish(r)
      BY <1>2, <2>1, EndedCall DEF IInv, Finish, Goto, TypeOK
    <2>2. CASE BeginLogin(r) \/ BeginRegister(r)
      <3>1. PICK op \in {"login", "register"}, u \in Users, l \in {"issue", "insertUser"} :
               Begin(r, [op |-> op, user |-> u, token |-> NoToken, session |-> NoToken], l)
        BY <2>2 DEF BeginLogin, BeginRegister, IInv, TypeOK
      <3>2. s # NoToken
        BY NoTokenIsNone
      <3>3. QED
        BY <1>2, <3>1, <3>2, BegunCall DEF IInv, Labels
    <2>3. CASE BeginRefresh(r) \/ BeginLogout(r)
      <3>1. PICK c : Begin(r, c, "findToken")
        BY <2>3 DEF BeginRefresh, BeginLogout, BeginWithToken
      <3>2. QED
        BY <1>2, <3>1, BegunCall DEF IInv, Labels
    <2>4. CASE InsertUser(r) /\ ~Finish(r)
      <3>1. call[r].session = NoToken /\ Goto(r, "issue") /\ call' = call
        BY <2>4, CallType DEF IInv, CallsOK, CallOK, InsertUser
      <3>2. s # NoToken
        BY NoTokenIsNone
      <3>3. QED
        BY <1>2, <3>1, <3>2, MovedCall DEF IInv, Labels
    <2>5. CASE FindByHashWithUser(r) /\ ~Finish(r)
      <3>1. Goto(r, "deleteToken") /\ call' = call
        BY <2>5 DEF FindByHashWithUser
      <3>2. QED
        BY <1>2, <3>1, MovedCall DEF IInv, Labels
    <2>6. QED
      BY <2>1, <2>2, <2>3, <2>4, <2>5 DEF Quiet, Crash
  <1>3. QED
    BY <1>1, <1>2 DEF Issuing

\* The insert: a refresh's session had no token left, a login's is new.
LEMMA IssueSessions ==
  ASSUME IInv, NEW r \in Requests, IssueTokenPair(r), NEW s \in Tokens
  PROVE  SessionOK(s)'
  <1>1. PICK t \in Tokens : SaveForUser(r, t)
    BY DEF IssueTokenPair
  <1>2. /\ tokens'[t].state = "live"
        /\ tokens'[t].session = SessionOf(call[r], t)
        /\ \A u \in Tokens \ {t} : tokens'[u] = tokens[u]
        /\ t \notin Issued
    BY <1>1, SavedRows DEF IssueTokenPair, IInv, SaveForUser, Issued
  <1>3. /\ pc'[r] = "idle"
        /\ \A q \in Requests \ {r} : pc'[q] = pc[q] /\ call'[q] = call[q]
    BY EndedCall DEF IssueTokenPair, IInv, Finish, Goto, TypeOK
  <1>4. SessionOK(s) /\ raced' = raced /\ loggedOut' = loggedOut
    BY SessionsOK DEF IInv, TypeOK, IssueTokenPair
  <1>5. Issuing(s)' = Issuing(s) \ {r}
    BY <1>3 DEF Issuing
  <1>6. CASE s # SessionOf(call[r], t)
    <2>1. Live(s)' \subseteq Live(s)
      BY <1>2, <1>6 DEF Live
    <2>2. QED
      BY <2>1, <1>4, <1>5, SessionShrinks
  <1>7. CASE s = SessionOf(call[r], t)
    <2>1. Live(s)' \subseteq Live(s) \union {t}
      BY <1>2 DEF Live
    <2>2. CASE call[r].op = "refresh"
      <3>1. r \in Issuing(s)
        BY <1>7, <2>2 DEF SessionOf, Issuing, IssueTokenPair
      <3>2. s \notin raced =>
              s \notin loggedOut /\ Live(s) = {} /\ Issuing(s)' = {}
        BY <1>4, <1>5, <3>1 DEF SessionOK
      <3>3. QED
        BY <1>4, <2>1, <3>2 DEF SessionOK
    <2>3. CASE call[r].op # "refresh"
      <3>1. s = t
        BY <1>7, <2>3 DEF SessionOf
      <3>2. s \notin loggedOut /\ Live(s) = {}
        BY <1>2, <3>1 DEF IInv, RowsOK, Live, Issued
      <3>3. Issuing(s) = {}
        BY <1>2, <3>1, NoTokenIsNone, CallType DEF Issuing, IInv, CallsOK, CallOK, RowsOK, Call
      <3>4. QED
        BY <1>4, <1>5, <2>1, <3>2, <3>3 DEF SessionOK
    <2>4. QED
      BY <2>2, <2>3
  <1>8. QED
    BY <1>6, <1>7

\* The delete: either the session is raced from now on, or its one token goes.
LEMMA DeleteSessions ==
  ASSUME IInv, NEW r \in Requests, DeleteById(r), NEW s \in Tokens
  PROVE  SessionOK(s)'
  <1> DEFINE t == call[r].token
             z == call[r].session
  <1>1. t \in Issued /\ z = tokens[t].session
    BY DEF DeleteById, IInv, CallsOK, CallOK
  <1>2. /\ tokens'[t].state = "deleted"
        /\ \A u \in Tokens \ {t} : tokens'[u] = tokens[u]
    BY <1>1, DeletedRows DEF DeleteById, IInv, TypeOK
  <1>3. SessionOK(s)
    BY SessionsOK DEF IInv, TypeOK
  <1>4. Live(s)' = Live(s) \ {t}
    BY <1>1, <1>2 DEF Live, Issued
  <1>5. CASE s # z
    <2>1. s \in raced' <=> s \in raced
      BY <1>5 DEF DeleteById
    <2>2. s \in loggedOut' <=> s \in loggedOut
      BY <1>5 DEF DeleteById
    <2>3. Issuing(s)' \subseteq Issuing(s)
      <3>1. CASE Finish(r)
        BY <3>1, EndedCall DEF Issuing, IInv, Finish, Goto, TypeOK
      <3>2. CASE Goto(r, "issue") /\ call' = call
        BY <1>5, <3>2, MovedCall DEF Issuing, IInv, Labels
      <3>3. QED
        BY <3>1, <3>2 DEF DeleteById
    <2>4. QED
      BY <1>3, <1>4, <2>1, <2>2, <2>3 DEF SessionOK
  <1>6. CASE s = z /\ tokens[t].state = "live"
    <2>1. raced' = raced
      BY <1>6 DEF DeleteById
    <2>2. t \in Live(s)
      BY <1>1, <1>6 DEF Live, Issued
    <2>3. s \notin raced => Live(s)' = {} /\ Issuing(s) = {} /\ s \notin loggedOut
      BY <1>3, <1>4, <2>2 DEF SessionOK
    <2>4. CASE Finish(r)
      <3>1. Issuing(s)' \subseteq Issuing(s)
        BY <2>4, EndedCall DEF Issuing, IInv, Finish, Goto, TypeOK
      <3>2. QED
        BY <2>1, <2>3, <3>1 DEF SessionOK
    <2>5. CASE Goto(r, "issue") /\ call' = call /\ loggedOut' = loggedOut
      <3>1. Issuing(s)' \subseteq Issuing(s) \union {r}
        BY <2>5, MovedCall DEF Issuing, IInv, Labels
      <3>2. QED
        BY <2>1, <2>3, <2>5, <3>1 DEF SessionOK
    <2>6. QED
      BY <2>4, <2>5 DEF DeleteById
  <1>7. CASE s = z /\ tokens[t].state # "live"
    BY <1>7 DEF DeleteById, SessionOK
  <1>8. QED
    BY <1>5, <1>6, <1>7

LEMMA NextInv == IInv /\ [Next]_vars => IInv'
  <1> SUFFICES ASSUME IInv, [Next]_vars PROVE IInv'
    OBVIOUS
  <1>1. TypeOK' /\ RowsOK' /\ CallsOK'
    BY NextType, NextIssued, NextCalls DEF IInv
  <1>2. ASSUME NEW s \in Tokens PROVE SessionOK(s)'
    <2>1. SessionOK(s)
      BY SessionsOK DEF IInv, TypeOK
    <2>2. ASSUME NEW r \in Requests, Quiet(r) PROVE SessionOK(s)'
      BY <2>1, <2>2, QuietSession, QuietRows, SessionShrinks
    <2>3. ASSUME NEW t \in Tokens, Expire(t) PROVE SessionOK(s)'
      <3>1. Live(s)' \subseteq Live(s)
        BY <2>3, ExpiredRows DEF Live, IInv, Expire
      <3>2. Issuing(s)' = Issuing(s)
        BY <2>3 DEF Issuing, Expire
      <3>3. QED
        BY <2>1, <2>3, <3>1, <3>2, SessionShrinks DEF Expire
    <2>4. CASE UNCHANGED vars
      BY <2>1, <2>4 DEF vars, SessionOK, Live, Issuing
    <2>5. QED
      BY <2>2, <2>3, <2>4, IssueSessions, DeleteSessions DEF Next, Quiet
  <1>3. UnracedSessionsAreSingle' /\ LogoutEndsUnracedSessions'
    <2>1. (loggedOut \subseteq Tokens)'
      BY <1>1 DEF TypeOK
    <2>2. (\A s \in Tokens : SessionOK(s))'
      BY <1>2
    <2>3. QED
      BY <2>1, <2>2 DEF SessionOK, UnracedSessionsAreSingle, LogoutEndsUnracedSessions
  <1>4. QED
    BY <1>1, <1>3 DEF IInv

-----------------------------------------------------------------------------
(* The theorems                                                            *)

\* The invariant the theorems rest on holds of every reachable state.
THEOREM Invariance == Spec => []IInv
  BY InitInv, NextInv, PTL DEF Spec

\* Every reachable state is of its type.
THEOREM TypeCorrect == Spec => []TypeOK
  <1>1. IInv => TypeOK
    BY DEF IInv
  <1>2. QED
    BY <1>1, Invariance, PTL

\* A session no delete was raced in never has two tokens that continue it:
\* the order of refresh's three queries is what makes rotation one-for-one.
THEOREM SingleSessions == Spec => []UnracedSessionsAreSingle
  <1>1. IInv => UnracedSessionsAreSingle
    BY DEF IInv
  <1>2. QED
    BY <1>1, Invariance, PTL

\* A confirmed logout leaves nothing to continue a session no delete was raced
\* in: "Revoke one refresh session" (auth.controller.ts) is kept.
THEOREM LogoutEndsSessions == Spec => []LogoutEndsUnracedSessions
  <1>1. IInv => LogoutEndsUnracedSessions
    BY DEF IInv
  <1>2. QED
    BY <1>1, Invariance, PTL

\* Only the request that inserts a token changes who was exchanged for whom.
LEMMA NewParents ==
  ASSUME IInv, Next, NEW t \in Tokens, NEW u \in Tokens, parent'[u] = t, parent[u] # t
  PROVE  \E r \in Requests : pc[r] = "issue" /\ call[r].token = t
  <1>1. ASSUME NEW r \in Requests, IssueTokenPair(r)
        PROVE  pc[r] = "issue" /\ call[r].token = t
    <2>1. PICK v \in Tokens : SaveForUser(r, v)
      BY <1>1 DEF IssueTokenPair
    <2>2. QED
      BY <1>1, <2>1, SavedRows DEF IssueTokenPair, IInv
  <1>2. QED
    BY <1>1, QuietRows DEF Next, Quiet, DeleteById, Expire

\* A request can come to hold a token between its read and its insert only by
\* finding it usable.
LEMMA NewHolders ==
  ASSUME IInv, Next, NEW r \in Requests, NEW t \in Tokens, Dead(t),
         pc'[r] \in {"deleteToken", "issue"}
  PROVE  call'[r].token # t
  <1>1. ASSUME NEW q \in Requests, Finish(q) PROVE call'[r].token # t
    BY <1>1, EndedCall DEF IInv, Dead, Finish, Goto, TypeOK
  <1>2. ASSUME NEW q \in Requests, BeginLogin(q) \/ BeginRegister(q)
        PROVE  call'[r].token # t
    <2>1. PICK op \in {"login", "register"}, u \in Users, l \in {"issue", "insertUser"} :
             Begin(q, [op |-> op, user |-> u, token |-> NoToken, session |-> NoToken], l)
      BY <1>2 DEF BeginLogin, BeginRegister, IInv, TypeOK
    <2>2. QED
      BY <2>1, BegunCall, NoTokenIsNone DEF IInv, Labels, Dead
  <1>3. ASSUME NEW q \in Requests, BeginRefresh(q) \/ BeginLogout(q)
        PROVE  call'[r].token # t
    <2>1. PICK op \in {"refresh", "logout"}, u \in Users, v \in Tokens :
             Begin(q, [op |-> op, user |-> u, token |-> v, session |-> tokens[v].session],
                   "findToken")
      BY <1>3 DEF BeginRefresh, BeginLogout, BeginWithToken, IInv, TypeOK, TableOK
    <2>2. QED
      BY <2>1, BegunCall DEF IInv, Labels, Dead
  <1>4. ASSUME NEW q \in Requests, InsertUser(q) PROVE call'[r].token # t
    <2>1. CASE Goto(q, "issue") /\ call' = call
      BY <1>4, <2>1, MovedCall, NoTokenIsNone DEF IInv, Labels, Dead, InsertUser, CallsOK, CallOK
    <2>2. QED
      BY <1>1, <1>4, <2>1 DEF InsertUser
  <1>5. ASSUME NEW q \in Requests, FindByHashWithUser(q) PROVE call'[r].token # t
    <2>1. CASE Usable(call[q]) /\ Goto(q, "deleteToken") /\ call' = call
      BY <2>1, MovedCall DEF IInv, Labels, Dead, Usable
    <2>2. QED
      BY <1>1, <1>5, <2>1 DEF FindByHashWithUser
  <1>6. ASSUME NEW q \in Requests, DeleteById(q) PROVE call'[r].token # t
    <2>1. CASE Goto(q, "issue") /\ call' = call
      BY <1>6, <2>1, MovedCall DEF IInv, Labels, Dead, DeleteById
    <2>2. QED
      BY <1>1, <1>6, <2>1 DEF DeleteById
  <1>7. QED
    BY <1>1, <1>2, <1>3, <1>4, <1>5, <1>6 DEF Next, Crash, IssueTokenPair, Expire, Dead

\* No row comes back to life and no expiry is taken back.
LEMMA DeadRows ==
  ASSUME IInv, Next, NEW t \in Tokens, tokens[t].state = "deleted" \/ tokens[t].expired
  PROVE  tokens'[t].state = "deleted" \/ tokens'[t].expired
  <1>1. t \in Issued
    BY DEF IInv, RowsOK, NoRow, Issued
  <1>2. ASSUME NEW r \in Requests, IssueTokenPair(r) PROVE tokens'[t] = tokens[t]
    <2>1. PICK v \in Tokens : SaveForUser(r, v)
      BY <1>2 DEF IssueTokenPair
    <2>2. QED
      BY <1>1, <1>2, <2>1, SavedRows DEF IssueTokenPair, IInv, SaveForUser, Issued
  <1>3. ASSUME NEW r \in Requests, DeleteById(r)
        PROVE  tokens'[t] = tokens[t] \/ tokens'[t].state = "deleted"
    <2>1. call[r].token \in Issued
      BY <1>3 DEF DeleteById, IInv, CallsOK, CallOK
    <2>2. QED
      BY <1>3, <2>1, DeletedRows DEF DeleteById, IInv, TypeOK
  <1>4. ASSUME NEW u \in Tokens, Expire(u)
        PROVE  tokens'[t] = tokens[t] \/ tokens'[t].expired
    BY <1>4 DEF Expire, IInv, TypeOK, TableOK, Rows
  <1>5. QED
    BY <1>2, <1>3, <1>4, QuietRows DEF Next, Quiet

\* A token that is deleted or expired, with nobody at work who found it usable
\* before, is never exchanged again.
THEOREM DeadTokens == Spec => DeadTokensStayDead
  <1>1. IInv /\ [Next]_vars =>
          [\A t \in Tokens : Dead(t) =>
             /\ Dead(t)'
             /\ \A u \in Tokens : parent'[u] = t => parent[u] = t]_vars
    <2> SUFFICES ASSUME IInv, Next, NEW t \in Tokens, Dead(t)
                 PROVE  /\ Dead(t)'
                        /\ \A u \in Tokens : parent'[u] = t => parent[u] = t
      BY DEF vars
    <2>1. Dead(t)'
      BY NewHolders, DeadRows DEF Dead
    <2>2. \A u \in Tokens : parent'[u] = t => parent[u] = t
      BY NewParents DEF Dead
    <2>3. QED
      BY <2>1, <2>2
  <1>2. QED
    BY <1>1, Invariance, PTL DEF Spec, DeadTokensStayDead

-----------------------------------------------------------------------------
(* One request at a time                                                   *)

\* An exchanged token is deleted, and the one about to be is not exchanged.
SerialInv ==
  /\ OneTimeUse
  /\ \A u \in Tokens : parent[u] # NoToken =>
       parent[u] \in Tokens /\ tokens[parent[u]].state = "deleted"
  /\ \A r \in Requests :
       /\ pc[r] = "deleteToken" => tokens[call[r].token].state = "live"
       /\ pc[r] = "issue" /\ call[r].op = "refresh" =>
            /\ tokens[call[r].token].state = "deleted"
            /\ \A u \in Tokens : parent[u] # call[r].token

\* If requests are served one at a time, crashes included, a refresh token is
\* exchanged once at most: one-time use is lost only to concurrent requests.
THEOREM SerialOneTimeUse ==
  ASSUME \A r, s \in Requests : r = s
  PROVE  Spec => []OneTimeUse
  <1>1. Init => SerialInv
    BY DEF Init, SerialInv, OneTimeUse
  <1>2. IInv /\ SerialInv /\ [Next]_vars => SerialInv'
    <2> SUFFICES ASSUME IInv, SerialInv, [Next]_vars PROVE SerialInv'
      OBVIOUS
    <2>1. ASSUME NEW r \in Requests, Finish(r), parent' = parent,
                 \A t \in Tokens : tokens[t].state = "deleted" => tokens'[t].state = "deleted"
          PROVE  SerialInv'
      BY <2>1, EndedCall DEF SerialInv, OneTimeUse, IInv, Finish, Goto, TypeOK
    <2>2. ASSUME NEW r \in Requests, BeginLogin(r) \/ BeginRegister(r) PROVE SerialInv'
      <3>1. PICK op \in {"login", "register"}, u \in Users, l \in {"issue", "insertUser"} :
               Begin(r, [op |-> op, user |-> u, token |-> NoToken, session |-> NoToken], l)
        BY <2>2 DEF BeginLogin, BeginRegister, IInv, TypeOK
      <3>2. tokens' = tokens /\ parent' = parent
        BY <3>1 DEF Begin
      <3>3. /\ pc'[r] \in {"issue", "insertUser"}
            /\ call'[r].op \in {"login", "register"}
        BY <3>1, BegunCall DEF IInv, Labels
      <3>4. ASSUME NEW q \in Requests
            PROVE  pc'[q] # "deleteToken" /\ ~ (pc'[q] = "issue" /\ call'[q].op = "refresh")
        BY <3>3, <3>4
      <3>5. QED
        BY <3>2, <3>4 DEF SerialInv, OneTimeUse
    <2>3. ASSUME NEW r \in Requests, BeginRefresh(r) \/ BeginLogout(r) PROVE SerialInv'
      <3>1. PICK c : Begin(r, c, "findToken")
        BY <2>3 DEF BeginRefresh, BeginLogout, BeginWithToken
      <3>2. tokens' = tokens /\ parent' = parent
        BY <3>1 DEF Begin
      <3>3. pc'[r] = "findToken"
        BY <3>1, BegunCall DEF IInv, Labels
      <3>4. ASSUME NEW q \in Requests
            PROVE  pc'[q] # "deleteToken" /\ ~ (pc'[q] = "issue" /\ call'[q].op = "refresh")
        BY <3>3, <3>4
      <3>5. QED
        BY <3>2, <3>4 DEF SerialInv, OneTimeUse
    <2>4. ASSUME NEW r \in Requests, InsertUser(r) PROVE SerialInv'
      <3>1. CASE Goto(r, "issue") /\ call' = call
        BY <2>4, <3>1, MovedCall
           DEF SerialInv, OneTimeUse, IInv, Labels, InsertUser, CallsOK, CallOK
      <3>2. QED
        BY <2>1, <2>4, <3>1 DEF InsertUser
    <2>5. ASSUME NEW r \in Requests, FindByHashWithUser(r) PROVE SerialInv'
      <3>1. CASE Usable(call[r]) /\ Goto(r, "deleteToken") /\ call' = call
        BY <2>5, <3>1, MovedCall
           DEF SerialInv, OneTimeUse, IInv, Labels, FindByHashWithUser, Usable
      <3>2. QED
        BY <2>1, <2>5, <3>1 DEF FindByHashWithUser
    <2>6. ASSUME NEW r \in Requests, DeleteById(r) PROVE SerialInv'
      <3>1. call[r].token \in Issued
        BY <2>6 DEF DeleteById, IInv, CallsOK, CallOK
      <3>2. /\ tokens'[call[r].token].state = "deleted"
            /\ \A u \in Tokens \ {call[r].token} : tokens'[u] = tokens[u]
        BY <2>6, <3>1, DeletedRows DEF DeleteById, IInv, TypeOK
      <3>3. parent' = parent /\ tokens[call[r].token].state = "live"
        BY <2>6 DEF DeleteById, SerialInv
      <3>4. \A u \in Tokens : parent[u] # call[r].token
        BY <3>1, <3>3, NoTokenIsNone DEF SerialInv, Issued
      <3>5. CASE Goto(r, "issue") /\ call' = call
        BY <3>1, <3>2, <3>3, <3>4, <3>5, MovedCall DEF SerialInv, OneTimeUse, IInv, Labels
      <3>6. CASE Finish(r)
        BY <2>1, <3>2, <3>3, <3>6
      <3>7. QED
        BY <2>6, <3>5, <3>6 DEF DeleteById
    <2>7. ASSUME NEW r \in Requests, IssueTokenPair(r) PROVE SerialInv'
      <3>1. PICK t \in Tokens : SaveForUser(r, t)
        BY <2>7 DEF IssueTokenPair
      <3>2. /\ \A u \in Tokens \ {t} : tokens'[u] = tokens[u] /\ parent'[u] = parent[u]
            /\ parent'[t] = call[r].token
            /\ tokens[t].state = "unused"
        BY <2>7, <3>1, SavedRows DEF IssueTokenPair, IInv, SaveForUser
      <3>3. \A q \in Requests : pc'[q] = "idle"
        BY <2>7, EndedCall DEF IssueTokenPair, IInv, Finish, Goto, TypeOK
      <3>4. parent'[t] # NoToken =>
              /\ parent'[t] \in Tokens
              /\ tokens'[parent'[t]].state = "deleted"
              /\ \A u \in Tokens \ {t} : parent'[u] # parent'[t]
        BY <2>7, <3>2 DEF IssueTokenPair, IInv, CallsOK, CallOK, SerialInv, Issued, TypeOK, Call
      <3>5. QED
        BY <3>2, <3>3, <3>4 DEF SerialInv, OneTimeUse
    <2>8. ASSUME NEW r \in Requests, Crash(r) PROVE SerialInv'
      BY <2>1, <2>8 DEF Crash
    <2>9. ASSUME NEW t \in Tokens, Expire(t) PROVE SerialInv'
      <3>1. \A u \in Tokens : tokens'[u].state = tokens[u].state
        BY <2>9, ExpiredRows DEF Expire, IInv
      <3>2. QED
        BY <2>9, <3>1 DEF SerialInv, OneTimeUse, Expire, IInv, CallsOK, CallOK, Issued
    <2>10. CASE UNCHANGED vars
      BY <2>10 DEF vars, SerialInv, OneTimeUse
    <2>11. QED
      BY <2>2, <2>3, <2>4, <2>5, <2>6, <2>7, <2>8, <2>9, <2>10 DEF Next
  <1>3. SerialInv => OneTimeUse
    BY DEF SerialInv
  <1>4. QED
    BY <1>1, <1>2, <1>3, Invariance, PTL DEF Spec

=============================================================================
