---------------------------- MODULE AuthSessions ----------------------------
(***************************************************************************)
(* AuthService: register, login, refresh and logout on the tables users    *)
(* and refresh_tokens.  Only registration has a transaction; refresh and   *)
(* logout read a token's row, then delete it by id without looking at how  *)
(* many rows went, and refresh inserts the next token in a third query.    *)
(*                                                                         *)
(* A token stands for the secret, its hash and the row.  The tokens that   *)
(* come out of one register or login by rotation are a session.  Access    *)
(* tokens are stateless: any account may be the caller of logout.  A session *)
(* is named by its first token.                                            *)
(***************************************************************************)
EXTENDS Naturals

CONSTANTS
  Users,      \* people: an address each, an account once registered
  Tokens,     \* refresh tokens that can be generated
  Requests    \* slots for HTTP requests in flight at the same time

NoToken == "none"

ASSUME NoTokenIsNone == NoToken \notin Tokens

VARIABLES
  accounts,   \* table users
  tokens,     \* table refresh_tokens, with the tokens not generated yet
  pc,         \* the next query of each request
  call,       \* what each request asked for
  parent,     \* ghost: the token a token was exchanged for
  raced,      \* ghost: sessions in which a delete found the row gone
  loggedOut   \* ghost: sessions a caller was told are revoked

vars == <<accounts, tokens, pc, call, parent, raced, loggedOut>>

\* The row of a token; `session` is not a column but what the row belongs to.
Rows == [state : {"unused", "live", "deleted"}, user : Users \union {"none"},
         expired : BOOLEAN, session : Tokens \union {NoToken}]

NoRow == [state |-> "unused", user |-> "none", expired |-> FALSE,
          session |-> NoToken]

Call == [op : {"register", "login", "refresh", "logout"}, user : Users,
         token : Tokens \union {NoToken}, session : Tokens \union {NoToken}]

NoCall == [op |-> "none", user |-> "none", token |-> NoToken, session |-> NoToken]

Labels == {"idle", "insertUser", "findToken", "deleteToken", "issue"}

\* Every token that was issued belongs to somebody.
TableOK(rows) ==
  /\ rows \in [Tokens -> Rows]
  /\ \A t \in Tokens : rows[t].state # "unused" => rows[t].user \in Users

TypeOK ==
  /\ accounts \subseteq Users
  /\ TableOK(tokens)
  /\ pc \in [Requests -> Labels]
  /\ call \in [Requests -> Call \union {NoCall}]
  /\ \A r \in Requests : pc[r] = "idle" <=> call[r] = NoCall
  /\ parent \in [Tokens -> Tokens \union {NoToken}]
  /\ raced \subseteq Tokens
  /\ loggedOut \subseteq Tokens

Init ==
  /\ accounts = {}
  /\ tokens = [t \in Tokens |-> NoRow]
  /\ pc = [r \in Requests |-> "idle"]
  /\ call = [r \in Requests |-> NoCall]
  /\ parent = [t \in Tokens |-> NoToken]
  /\ raced = {}
  /\ loggedOut = {}

-----------------------------------------------------------------------------
(* Helpers                                                                 *)

Goto(r, label) == pc' = [pc EXCEPT ![r] = label]

Finish(r) ==
  /\ Goto(r, "idle")
  /\ call' = [call EXCEPT ![r] = NoCall]

Begin(r, c, label) ==
  /\ pc[r] = "idle"
  /\ Goto(r, label)
  /\ call' = [call EXCEPT ![r] = c]
  /\ UNCHANGED <<accounts, tokens, parent, raced, loggedOut>>

-----------------------------------------------------------------------------
(* register and login                                                      *)

\* register finds no account with the address, else EMAIL_TAKEN.
BeginRegister(r) ==
  \E u \in Users \ accounts :
    Begin(r, [op |-> "register", user |-> u, token |-> NoToken, session |-> NoToken],
          "insertUser")

\* User and default workspace in one transaction; UNIQUE (email) aborts it if
\* another registration of the address committed since the check.
InsertUser(r) ==
  /\ pc[r] = "insertUser"
  /\ IF call[r].user \in accounts
       THEN Finish(r) /\ UNCHANGED accounts
       ELSE /\ accounts' = accounts \union {call[r].user}
            /\ Goto(r, "issue")
            /\ UNCHANGED call
  /\ UNCHANGED <<tokens, parent, raced, loggedOut>>

\* login has found the account and the password matches its hash.
BeginLogin(r) ==
  \E u \in accounts :
    Begin(r, [op |-> "login", user |-> u, token |-> NoToken, session |-> NoToken],
          "issue")

\* A refresh continues its token's session, the others begin one.
SessionOf(c, t) == IF c.op = "refresh" THEN c.session ELSE t

\* saveForUser: the row of a token nobody has had before.
SaveForUser(r, t) ==
  /\ tokens[t].state = "unused"
  /\ tokens' = [tokens EXCEPT ![t] =
                  [state |-> "live", user |-> call[r].user, expired |-> FALSE,
                   session |-> SessionOf(call[r], t)]]
  /\ parent' = [parent EXCEPT ![t] = call[r].token]

\* issueTokenPair, and the reply
IssueTokenPair(r) ==
  /\ pc[r] = "issue"
  /\ \E t \in Tokens : SaveForUser(r, t)
  /\ Finish(r)
  /\ UNCHANGED <<accounts, raced, loggedOut>>

-----------------------------------------------------------------------------
(* refresh and logout                                                      *)

\* The caller presents a token that was once issued; its session is fixed.
BeginWithToken(r, op, u, t) ==
  /\ tokens[t].state # "unused"
  /\ Begin(r, [op |-> op, user |-> u, token |-> t, session |-> tokens[t].session],
           "findToken")

\* refresh acts for the owner of the token, whoever presents it.
BeginRefresh(r) == \E t \in Tokens : BeginWithToken(r, "refresh", tokens[t].user, t)

\* logout has a caller of its own, known from the access token.
BeginLogout(r) == \E u \in accounts, t \in Tokens : BeginWithToken(r, "logout", u, t)

\* A slip: expired tokens are good.
UsableForever(c) ==
  /\ tokens[c.token].state = "live"
  /\ c.op = "logout" => tokens[c.token].user = c.user

\* Neither INVALID_REFRESH nor INVALID_LOGOUT.
Usable(c) ==
  /\ tokens[c.token].state = "live"
  /\ ~tokens[c.token].expired
  /\ c.op = "logout" => tokens[c.token].user = c.user

\* A slip: the error reply leaves the request behind.
FindByHashLeavesCall(r) ==
  /\ pc[r] = "findToken"
  /\ Goto(r, IF Usable(call[r]) THEN "deleteToken" ELSE "idle")
  /\ UNCHANGED <<accounts, tokens, call, parent, raced, loggedOut>>

\* The query of refresh and of logout.
FindByHashWithUser(r) ==
  /\ pc[r] = "findToken"
  /\ IF Usable(call[r]) THEN Goto(r, "deleteToken") /\ UNCHANGED call
                        ELSE Finish(r)
  /\ UNCHANGED <<accounts, tokens, parent, raced, loggedOut>>

\* A slip: rotation keeps the old token.
NotDeleted(t) == tokens

\* deleteById: the row is gone afterwards, whoever deleted it.
Deleted(t) == [tokens EXCEPT ![t].state = "deleted"]

\* A slip: logout answers without deleting.
DeleteOnRefreshOnly(r) ==
  LET c == call[r]
  IN  /\ pc[r] = "deleteToken"
      /\ tokens' = IF c.op = "refresh" THEN Deleted(c.token) ELSE tokens
      /\ raced' = IF tokens[c.token].state = "live" THEN raced
                                                    ELSE raced \union {c.session}
      /\ IF c.op = "refresh"
           THEN Goto(r, "issue") /\ UNCHANGED <<call, loggedOut>>
           ELSE Finish(r) /\ loggedOut' = loggedOut \union {c.session}
      /\ UNCHANGED <<accounts, parent>>

\* The delete of refresh and of logout; the number of rows it took is not
\* looked at, so a request that finds its row gone goes on all the same.
DeleteById(r) ==
  LET c == call[r]
  IN  /\ pc[r] = "deleteToken"
      /\ tokens' = Deleted(c.token)
      /\ raced' = IF tokens[c.token].state = "live" THEN raced
                                                    ELSE raced \union {c.session}
      /\ IF c.op = "refresh"
           THEN Goto(r, "issue") /\ UNCHANGED <<call, loggedOut>>
           ELSE Finish(r) /\ loggedOut' = loggedOut \union {c.session}
      /\ UNCHANGED <<accounts, parent>>

-----------------------------------------------------------------------------
(* Environment                                                             *)

\* expires_at passes.
Expire(t) ==
  /\ tokens[t].state = "live"
  /\ ~tokens[t].expired
  /\ tokens' = [tokens EXCEPT ![t].expired = TRUE]
  /\ UNCHANGED <<accounts, pc, call, parent, raced, loggedOut>>

\* The process or its connection dies between two queries.
Crash(r) ==
  /\ pc[r] # "idle"
  /\ Finish(r)
  /\ UNCHANGED <<accounts, tokens, parent, raced, loggedOut>>

-----------------------------------------------------------------------------

Next ==
  \/ \E r \in Requests :
       \/ BeginRegister(r) \/ InsertUser(r) \/ BeginLogin(r) \/ IssueTokenPair(r)
       \/ BeginRefresh(r) \/ BeginLogout(r) \/ FindByHashWithUser(r) \/ DeleteById(r)
       \/ Crash(r)
  \/ \E t \in Tokens : Expire(t)

Spec == Init /\ [][Next]_vars

-----------------------------------------------------------------------------
(* Properties                                                              *)

Live(s)    == {t \in Tokens : tokens[t].state = "live" /\ tokens[t].session = s}
Issuing(s) == {r \in Requests : pc[r] = "issue" /\ call[r].session = s}

\* As long as no delete found its row gone, a session has at most one token,
\* or one request about to insert it, however many refreshes and logouts of it
\* are in flight and wherever they crash: rotation forks no session.
UnracedSessionsAreSingle ==
  \A s \in Tokens \ raced :
    /\ \A t, u \in Live(s) : t = u
    /\ \A q, r \in Issuing(s) : q = r
    /\ Live(s) = {} \/ Issuing(s) = {}

\* A confirmed logout ends the session: no token of it is live and no refresh
\* is about to insert one, unless the logout or a refresh was raced.
LogoutEndsUnracedSessions ==
  \A s \in loggedOut \ raced : Live(s) = {} /\ Issuing(s) = {}

\* A token is dead once it is deleted or expired and no request that found it
\* usable is still at work.
Dead(t) ==
  /\ tokens[t].state = "deleted" \/ tokens[t].expired
  /\ \A r \in Requests : pc[r] \in {"deleteToken", "issue"} => call[r].token # t

\* A dead token stays dead, and nobody gets a new token for it.
DeadTokensStayDead ==
  [][\A t \in Tokens : Dead(t) =>
       /\ Dead(t)'
       /\ \A u \in Tokens : parent'[u] = t => parent[u] = t]_vars

\* "One-time use: old refresh row deleted, new pair issued."
\* (auth.service.ts:130): no two tokens were issued for the same one.
OneTimeUse ==
  \A t, u \in Tokens : parent[t] = parent[u] => t = u \/ parent[t] = NoToken

=============================================================================
