-------------------------- MODULE DashboardSession --------------------------
(***************************************************************************)
(* The dashboard in the tabs of one browser, composed with AuthSessions.   *)
(* A tab keeps the token pair in React state; the tabs share localStorage. *)
(* Every handler is a closure over the pair its page was rendered with.    *)
(* Its requests go through withRefresh: on UNAUTHORIZED it exchanges the   *)
(* refresh token of the closure, stores the new pair, and tries once more. *)
(*                                                                         *)
(* A pair is named by its refresh token.  A run is one run of a handler:   *)
(* stages of parallel requests.  A page that was left keeps its runs, but  *)
(* what they set has no effect.  The selected workspace is left out.       *)
(***************************************************************************)
EXTENDS Naturals, Sequences

CONSTANTS
  Users,   \* people with an account, or about to make one
  Tokens,  \* token pairs the server can generate
  Tabs,
  Runs     \* slots for handlers running at the same time

VARIABLES
  accounts, tokens, serving, asked, parent, raced, loggedOut, \* AuthSessions
  stale,     \* pairs whose access token has expired
  stored,    \* the pair in localStorage
  page,      \* each tab
  run,       \* the handlers that run
  fetch,     \* their requests
  reply,     \* answers on their way to the browser
  strayed,   \* ghost: pairs exchanged for one that did not reach every holder
  signedOut  \* ghost: the user has logged out with nothing in flight

server == <<accounts, tokens, serving, asked, parent, raced, loggedOut>>
client == <<stored, page, run, fetch>>
vars   == <<server, stale, client, reply, strayed, signedOut>>

\* The parallel requests of a stage: two stand for the four of handleLoad.
Width == 1..2
Calls == Runs \X Width

Auth == INSTANCE AuthSessions WITH Requests <- Calls, pc <- serving, call <- asked

NoPair == Auth!NoToken
Failed == "failed"
Pairs  == Tokens \union {NoPair}

ASSUME PairsAreNamed == NoPair \notin Tokens /\ Failed \notin Tokens

-----------------------------------------------------------------------------
(* The handlers, as the stages they go through                             *)

\* `refreshes`: through withRefresh.  `fatal`: an error ends the handler.
Stage == [width : Width, refreshes : BOOLEAN, fatal : BOOLEAN]

\* A request of the handler's own; loads, which catch their errors themselves.
Request     == [width |-> 1, refreshes |-> TRUE,  fatal |-> TRUE]
LoadOne     == [width |-> 1, refreshes |-> TRUE,  fatal |-> FALSE]
LoadSeveral == [width |-> 2, refreshes |-> TRUE,  fatal |-> FALSE]
LoadList    == [width |-> 1, refreshes |-> FALSE, fatal |-> FALSE]
Submission  == [width |-> 1, refreshes |-> FALSE, fatal |-> TRUE]

HandleLoadWorkspaces == <<LoadList>>
HandleLoad == <<LoadSeveral>>
HandleLoadApiKeys == <<LoadOne>>
HandleCreateApiKey == <<Request>> \o HandleLoadApiKeys
HandleRevokeApiKey == <<Request>> \o HandleLoadApiKeys
HandleLoadWorkspaceManagement == <<LoadSeveral>>
HandleUpdateMemberRole == <<Request>> \o HandleLoadWorkspaceManagement
HandleRemoveMember == <<Request>> \o HandleLoadWorkspaceManagement
HandleRenameWorkspace ==
  <<Request>> \o HandleLoadWorkspaceManagement \o HandleLoadWorkspaces
HandleLeaveWorkspace == <<Request>> \o HandleLoadWorkspaces
HandleTransferOwnership == <<Request>> \o HandleLoadWorkspaceManagement
HandleCreateInvite == <<Request>> \o HandleLoadWorkspaceManagement
HandleRevokeInvite == <<Request>> \o HandleLoadWorkspaceManagement

\* handleLogin and handleCreate, on the login pages
HandleSubmit == <<Submission>>

\* Buttons are disabled while the page is loading ...
OnButton ==
  {HandleLoadWorkspaces, HandleLoad, HandleLoadApiKeys, HandleCreateApiKey,
   HandleLoadWorkspaceManagement, HandleUpdateMemberRole, HandleRemoveMember,
   HandleRenameWorkspace, HandleLeaveWorkspace, HandleTransferOwnership,
   HandleCreateInvite, HandleRevokeInvite}

\* ... the sidebar, the workspace select and the revocation of a key are not.
Always == {HandleLoadApiKeys, HandleLoadWorkspaceManagement, HandleRevokeApiKey}

Plans == OnButton \union Always \union {HandleSubmit}

-----------------------------------------------------------------------------
(* State                                                                   *)

\* `unsaved`: the effects of the last render are still to run; after a sign-in
\* they also load the workspaces.  `leaving`: on the way to /login.
Page == [route : {"login", "dashboard"}, pair : Pairs, leaving : BOOLEAN,
         loading : BOOLEAN, unsaved : {"no", "pair", "signIn"}]

LoginPage == [route |-> "login", pair |-> NoPair, leaving |-> FALSE,
              loading |-> FALSE, unsaved |-> "no"]

\* `bound`: the page that started the run is still the one in its tab.
Run == [tab : Tabs, pair : Pairs, left : Seq(Stage), bound : BOOLEAN]

NoRun == [left |-> <<>>]

Fetch == [phase : {"send", "wait", "ok", "failed"}, pair : Pairs,
          mayRefresh : BOOLEAN]

NoFetch == [phase |-> "idle"]

TypeOK ==
  /\ Auth!TypeOK
  /\ stale \subseteq Tokens
  /\ stored \in Pairs
  /\ page \in [Tabs -> Page]
  /\ run \in [Runs -> Run \union {NoRun}]
  /\ fetch \in [Calls -> Fetch \union {NoFetch}]
  /\ reply \in [Calls -> Pairs \union {Failed}]
  /\ strayed \subseteq Tokens
  /\ signedOut \in BOOLEAN

Init ==
  /\ Auth!Init
  /\ stale = {}
  /\ stored = NoPair
  /\ page = [p \in Tabs |-> LoginPage]
  /\ run = [k \in Runs |-> NoRun]
  /\ fetch = [c \in Calls |-> NoFetch]
  /\ reply = [c \in Calls |-> NoPair]
  /\ strayed = {}
  /\ signedOut = FALSE

-----------------------------------------------------------------------------
(* Helpers                                                                 *)

Active(k) == run[k].left # <<>>

\* The slot is free: nothing of the last run in it is in flight any more.
Free(k) ==
  /\ ~Active(k)
  /\ \A i \in Width : fetch[<<k, i>>] = NoFetch /\ serving[<<k, i>>] = "idle"

RunsOf(p) == {k \in Runs : run[k] # NoRun /\ run[k].tab = p}

\* The requests of a stage, with the pair of the closure.
Sent(k, stage, pair) ==
  [c \in Calls |->
     IF c[1] = k
       THEN IF c[2] <= stage.width
              THEN [phase |-> "send", pair |-> pair, mayRefresh |-> stage.refreshes]
              ELSE NoFetch
       ELSE fetch[c]]

\* A handler starts on page p, with the pair of its last render.
Start(p, k, plan) ==
  /\ Free(k)
  /\ run' = [run EXCEPT ![k] = [tab |-> p, pair |-> page[p].pair, left |-> plan,
                                bound |-> TRUE]]
  /\ fetch' = Sent(k, Head(plan), page[p].pair)

\* The effects of the last render run before anything else on the page.
Ready(p) == page[p].unsaved = "no"

-----------------------------------------------------------------------------
(* The login pages                                                         *)

\* handleLogin or handleCreate: the button is disabled until the answer.
Submit(p, k) ==
  /\ page[p].route = "login"
  /\ ~page[p].loading
  /\ Free(k)
  /\ run' = [run EXCEPT ![k] = [tab |-> p, pair |-> NoPair, left |-> HandleSubmit,
                                bound |-> TRUE]]
  /\ fetch' = [fetch EXCEPT ![<<k, 1>>] = [phase |-> "wait", pair |-> NoPair,
                                           mayRefresh |-> FALSE]]
  /\ page' = [page EXCEPT ![p].loading = TRUE]
  /\ signedOut' = FALSE
  /\ Auth!BeginRegister(<<k, 1>>) \/ Auth!BeginLogin(<<k, 1>>)
  /\ UNCHANGED <<stale, stored, reply, strayed>>

-----------------------------------------------------------------------------
(* Pages come and go                                                       *)

\* The page the bootstrap effect makes of localStorage; without a pair it
\* leads back to /login.
Bootstrapped ==
  [route |-> "dashboard", pair |-> stored, leaving |-> stored = NoPair,
   loading |-> FALSE, unsaved |-> IF stored = NoPair THEN "no" ELSE "signIn"]

\* What still runs belongs to a page that is gone.
Unbound(p) == [k \in Runs |-> IF k \in RunsOf(p) THEN [run[k] EXCEPT !.bound = FALSE]
                                                 ELSE run[k]]

\* The pair the page finds may have been exchanged by another tab already.
TooLate == {t \in {stored} \ {NoPair} : tokens[t].state = "deleted"}

\* router.push("/dashboard") after a login, or the user goes there.
Mount(p) ==
  /\ page[p].route = "login"
  /\ Ready(p)
  /\ page' = [page EXCEPT ![p] = Bootstrapped]
  /\ run' = Unbound(p)
  /\ strayed' = strayed \union TooLate
  /\ UNCHANGED <<server, stale, stored, fetch, reply, signedOut>>

\* A slip: only a sign-in is stored, not a pair from withRefresh.
EffectsOfSignIn(p) ==
  /\ page[p].unsaved # "no"
  /\ stored' = IF page[p].unsaved = "signIn" THEN page[p].pair ELSE stored
  /\ \/ /\ page[p].unsaved = "signIn"
        /\ \E k \in Runs : Start(p, k, HandleLoadWorkspaces)
        /\ page' = [page EXCEPT ![p].unsaved = "no", ![p].loading = TRUE]
     \/ /\ page[p].unsaved = "pair" \/ \A k \in Runs : ~Free(k)
        /\ page' = [page EXCEPT ![p].unsaved = "no"]
        /\ UNCHANGED <<run, fetch>>
  /\ UNCHANGED <<server, stale, reply, strayed, signedOut>>

\* The effects of a render: the pair is stored, and after a sign-in
\* handleLoadWorkspaces starts (if the bound on handlers leaves it a slot).
Effects(p) ==
  /\ page[p].unsaved # "no"
  /\ stored' = page[p].pair
  /\ \/ /\ page[p].unsaved = "signIn"
        /\ \E k \in Runs : Start(p, k, HandleLoadWorkspaces)
        /\ page' = [page EXCEPT ![p].unsaved = "no", ![p].loading = TRUE]
     \/ /\ page[p].unsaved = "pair" \/ \A k \in Runs : ~Free(k)
        /\ page' = [page EXCEPT ![p].unsaved = "no"]
        /\ UNCHANGED <<run, fetch>>
  /\ UNCHANGED <<server, stale, reply, strayed, signedOut>>

\* A reload ends what the page was doing, but not what the server is doing.
Reload(p) ==
  LET dropped == {c \in Calls : c[1] \in RunsOf(p)}
  IN  /\ page[p].route = "dashboard"
      /\ Ready(p)
      /\ page' = [page EXCEPT ![p] = Bootstrapped]
      /\ run' = [k \in Runs |-> IF k \in RunsOf(p) THEN NoRun ELSE run[k]]
      /\ fetch' = [c \in Calls |-> IF c \in dropped THEN NoFetch ELSE fetch[c]]
      /\ reply' = [c \in Calls |-> IF c \in dropped THEN NoPair ELSE reply[c]]
      /\ strayed' = strayed \union TooLate \union
           ({fetch[c].pair : c \in {d \in dropped : fetch[d].phase = "wait"}} \ {NoPair})
      /\ UNCHANGED <<server, stale, stored, signedOut>>

\* A slip: the pair stays in localStorage.
LogoutInMemory(p) ==
  /\ page[p].route = "dashboard" /\ page[p].pair # NoPair
  /\ Ready(p)
  /\ page' = [page EXCEPT ![p].pair = NoPair, ![p].leaving = TRUE]
  /\ signedOut' = (/\ \A c \in Calls : fetch[c] = NoFetch
                   /\ \A q \in Tabs \ {p} : page[q].pair = NoPair)
  /\ UNCHANGED <<server, stale, stored, run, fetch, reply, strayed>>

\* handleLogout: this page and localStorage; the server is not told.  The
\* redirect to /login has begun.
Logout(p) ==
  /\ page[p].route = "dashboard" /\ page[p].pair # NoPair
  /\ Ready(p)
  /\ stored' = NoPair
  /\ page' = [page EXCEPT ![p].pair = NoPair, ![p].leaving = TRUE]
  /\ signedOut' = (/\ \A c \in Calls : fetch[c] = NoFetch
                   /\ \A q \in Tabs \ {p} : page[q].pair = NoPair)
  /\ UNCHANGED <<server, stale, run, fetch, reply, strayed>>

\* router.replace("/login") arrives, whatever the page has become meanwhile.
Leave(p) ==
  /\ page[p].leaving
  /\ Ready(p)
  /\ page' = [page EXCEPT ![p] = LoginPage]
  /\ run' = Unbound(p)
  /\ UNCHANGED <<server, stale, stored, fetch, reply, strayed, signedOut>>

-----------------------------------------------------------------------------
(* Handlers                                                                *)

\* The user clicks; a handler needs a signed-in page.
Click(p, k) ==
  /\ page[p].route = "dashboard" /\ page[p].pair # NoPair
  /\ Ready(p)
  /\ \E plan \in Always \union (IF page[p].loading THEN {} ELSE OnButton) : Start(p, k, plan)
  /\ page' = [page EXCEPT ![p].loading = TRUE]
  /\ UNCHANGED <<server, stale, stored, reply, strayed, signedOut>>

TabOf(c)  == run[c[1]].tab
OnPage(c) == run[c[1]].bound

\* A request has its result.  Nobody waits for it if the handler has ended,
\* and the slot is cleared with the last of them.
Resolve(c, phase) ==
  LET k == c[1]
  IN  IF Active(k)
        THEN fetch' = [fetch EXCEPT ![c].phase = phase] /\ UNCHANGED run
        ELSE /\ fetch' = [fetch EXCEPT ![c] = NoFetch]
             /\ run' = [run EXCEPT ![k] = IF \A i \in Width : fetch'[<<k, i>>] = NoFetch
                                            THEN NoRun ELSE @]

\* apiFetch, apiGet, apiRequest: JwtAuthGuard answers UNAUTHORIZED to a stale
\* access token, and any request may fail for a reason of its own.
Answer(c) ==
  /\ fetch[c].phase = "send"
  /\ \/ fetch[c].pair \notin stale /\ Resolve(c, "ok")
     \/ Resolve(c, "failed")
  /\ UNCHANGED <<server, stale, stored, page, reply, strayed, signedOut>>

\* UNAUTHORIZED within withRefresh: the refresh token is the closure's.
BeginRefresh(c) ==
  LET t == fetch[c].pair
  IN  /\ fetch[c].phase = "send"
      /\ t \in stale
      /\ fetch[c].mayRefresh
      /\ fetch' = [fetch EXCEPT ![c] = [phase |-> "wait", pair |-> t,
                                        mayRefresh |-> FALSE]]
      /\ Auth!BeginWithToken(c, "refresh", tokens[t].user, t)
      /\ UNCHANGED <<stale, stored, page, run, reply, strayed, signedOut>>

\* A slip: withRefresh keeps the refresh token it has used.
RefreshedWithoutToken(c, n) ==
  /\ UNCHANGED <<page, stored>>
  /\ strayed' = strayed

\* The page and the other holders of the old pair when the new one arrives.
\* What is set on a page that is gone has no effect.
Refreshed(c, n) ==
  LET p   == TabOf(c)
      old == fetch[c].pair
  IN  /\ page' = IF OnPage(c)
                   THEN [page EXCEPT ![p].pair = n,
                           ![p].unsaved = IF page[p].pair = NoPair THEN "signIn" ELSE "pair"]
                   ELSE page
      /\ strayed' = strayed \union {t \in {old} : ~OnPage(c) \/
                                      \E q \in Tabs \ {p} : page[q].pair = old}
      /\ UNCHANGED stored

\* A slip: an error reply is read as a pair.
DeliverUnchecked(c) ==
  /\ fetch[c].phase = "wait"
  /\ reply[c] # NoPair
  /\ OnPage(c) => Ready(TabOf(c))
  /\ reply' = [reply EXCEPT ![c] = NoPair]
  /\ IF fetch[c].pair = NoPair
       THEN /\ stored' = reply[c]
            /\ Resolve(c, "ok")
            /\ UNCHANGED <<page, strayed>>
       ELSE /\ Refreshed(c, reply[c])
            /\ fetch' = [fetch EXCEPT ![c] = [phase |-> "send", pair |-> reply[c],
                                              mayRefresh |-> FALSE]]
            /\ UNCHANGED run
  /\ UNCHANGED <<server, stale, signedOut>>

\* The answer to a refresh or to a submission arrives.  withRefresh tries the
\* request again; the login pages store the pair.
Deliver(c) ==
  /\ fetch[c].phase = "wait"
  /\ reply[c] # NoPair
  /\ OnPage(c) => Ready(TabOf(c))
  /\ reply' = [reply EXCEPT ![c] = NoPair]
  /\ IF reply[c] = Failed
       THEN Resolve(c, "failed") /\ UNCHANGED <<stored, page, strayed>>
       ELSE IF fetch[c].pair = NoPair
         THEN /\ stored' = reply[c]
              /\ Resolve(c, "ok")
              /\ UNCHANGED <<page, strayed>>
         ELSE /\ Refreshed(c, reply[c])
              /\ fetch' = [fetch EXCEPT ![c] = [phase |-> "send", pair |-> reply[c],
                                                mayRefresh |-> FALSE]]
              /\ UNCHANGED run
  /\ UNCHANGED <<server, stale, signedOut>>

\* The answer is lost on its way, for good.
Lose(c) ==
  /\ fetch[c].phase = "wait"
  /\ reply[c] # NoPair
  /\ reply' = [reply EXCEPT ![c] = NoPair]
  /\ strayed' = strayed \union {t \in {fetch[c].pair} \ {NoPair} : reply[c] # Failed}
  /\ Resolve(c, "failed")
  /\ UNCHANGED <<server, stale, stored, page, signedOut>>

\* What the handler makes of its stage: Promise.all is rejected by the first
\* error, while the other requests go on.
StageOver(k) ==
  LET phases == {fetch[<<k, i>>].phase : i \in Width}
  IN  "failed" \in phases \/ phases \subseteq {"ok", "idle"}

StageFailed(k) == \E i \in Width : fetch[<<k, i>>].phase = "failed"

\* A slip: the catch block of the handler returns without setLoading(false).
EndHandlerLoading(k) ==
  /\ page' = [page EXCEPT ![run[k].tab].loading =
                IF run[k].bound /\ ~StageFailed(k) THEN FALSE ELSE @]
  /\ fetch' = [c \in Calls |-> IF c[1] = k /\ fetch[c].phase \in {"ok", "failed"}
                                 THEN NoFetch ELSE fetch[c]]
  /\ run' = [run EXCEPT ![k] = IF \A i \in Width : fetch'[<<k, i>>] = NoFetch
                                 THEN NoRun ELSE [@ EXCEPT !.left = <<>>]]

\* finally { setLoading(false) }
EndHandler(k) ==
  /\ page' = [page EXCEPT ![run[k].tab].loading = @ /\ ~run[k].bound]
  /\ fetch' = [c \in Calls |-> IF c[1] = k /\ fetch[c].phase \in {"ok", "failed"}
                                 THEN NoFetch ELSE fetch[c]]
  /\ run' = [run EXCEPT ![k] = IF \A i \in Width : fetch'[<<k, i>>] = NoFetch
                                 THEN NoRun ELSE [@ EXCEPT !.left = <<>>]]

\* The next stage, unless this was the last or its error is fatal.
Proceed(k) ==
  LET rest == Tail(run[k].left)
  IN  /\ Active(k)
      /\ StageOver(k)
      /\ run[k].bound => Ready(run[k].tab)
      /\ IF rest = <<>> \/ (StageFailed(k) /\ Head(run[k].left).fatal)
           THEN EndHandler(k)
           ELSE /\ \A i \in Width : fetch[<<k, i>>].phase \in {"ok", "failed", "idle"}
                /\ fetch' = Sent(k, Head(rest), run[k].pair)
                /\ run' = [run EXCEPT ![k].left = rest]
                /\ UNCHANGED page
      /\ UNCHANGED <<server, stale, stored, reply, strayed, signedOut>>

-----------------------------------------------------------------------------
(* The server                                                              *)

\* The answer of a request the server is done with.
Replied(c, answer) ==
  reply' = IF fetch[c].phase = "wait" THEN [reply EXCEPT ![c] = answer] ELSE reply

ServeQuery(c) ==
  /\ Auth!InsertUser(c) \/ Auth!FindByHashWithUser(c) \/ Auth!DeleteById(c)
  /\ IF serving'[c] = "idle" THEN Replied(c, Failed) ELSE UNCHANGED reply
  /\ UNCHANGED <<stale, client, strayed, signedOut>>

\* The pair is saved, and on its way.
ServeTokens(c) ==
  /\ Auth!IssueTokenPair(c)
  /\ \E t \in Tokens : tokens[t].state = "unused" /\ tokens'[t].state = "live"
                       /\ Replied(c, t)
  /\ UNCHANGED <<stale, client, strayed, signedOut>>

\* The request dies on the server; a pair it has deleted is lost.
ServerCrash(c) ==
  /\ Auth!Crash(c)
  /\ Replied(c, Failed)
  /\ strayed' = strayed \union {t \in {asked[c].token} \ {NoPair} : serving[c] = "issue"}
  /\ UNCHANGED <<stale, client, signedOut>>

\* The access token of a pair expires, minutes after it was issued.  It matters
\* to those only who are about to use it.
AccessExpires(t) ==
  /\ t \notin stale
  /\ \/ \E p \in Tabs : page[p].pair = t
     \/ \E c \in Calls : fetch[c].phase = "send" /\ fetch[c].pair = t
  /\ stale' = stale \union {t}
  /\ UNCHANGED <<server, client, reply, strayed, signedOut>>

-----------------------------------------------------------------------------

Next ==
  \/ \E p \in Tabs : Mount(p) \/ Effects(p) \/ Reload(p) \/ Logout(p) \/ Leave(p)
  \/ \E p \in Tabs, k \in Runs : Submit(p, k) \/ Click(p, k)
  \/ \E k \in Runs : Proceed(k)
  \/ \E c \in Calls : \/ Answer(c) \/ BeginRefresh(c) \/ Deliver(c) \/ Lose(c)
                      \/ ServeQuery(c) \/ ServeTokens(c) \/ ServerCrash(c)
  \/ \E t \in Tokens : AccessExpires(t)

Spec == Init /\ [][Next]_vars

-----------------------------------------------------------------------------
(* Properties                                                              *)

\* A request is exchanging the pair, or its answer is on its way.
InExchange(t) == \E c \in Calls : fetch[c].phase = "wait" /\ fetch[c].pair = t

\* However many requests refresh the pair of a page at once, and whatever
\* becomes of most of them, the page is left with a refresh token the server
\* still accepts, unless the pair strayed: the answer was lost, the server
\* crashed half-way, the page was left, or another tab held the same pair or
\* found it in localStorage when it was used up.
PageKeepsItsSession ==
  \A p \in Tabs :
    LET t == page[p].pair
    IN  t \in Tokens \ strayed
          => tokens[t].state = "live" \/ InExchange(t)

\* What localStorage holds is good for the next page as well, a reload or a new
\* tab: it is a refresh token the server accepts, or one being exchanged, or a
\* page has yet to store another.  Nothing keeps the copy of a tab and the one
\* in localStorage together but the effect after each render, while other tabs
\* store and clear it too; the pairs that strayed are excepted as above.
ReloadKeepsTheSession ==
  stored \in Tokens \ strayed
    => \/ tokens[stored].state = "live"
       \/ InExchange(stored)
       \/ \E p \in Tabs : page[p].unsaved # "no"

\* A logout with nothing in flight and no other tab signed in is final: no
\* reload, tab or late effect signs the browser in before the next login.
LogoutIsFinal ==
  signedOut => stored = NoPair /\ \A p \in Tabs : page[p].pair = NoPair

\* A page that shows it is loading has a handler at work that will say when it
\* is done: no error and no other page makes it forget to.
LoadingMeansWork ==
  \A p \in Tabs : page[p].loading =>
    \E k \in RunsOf(p) : run[k].bound /\ Active(k)

=============================================================================
