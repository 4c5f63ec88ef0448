----------------------- MODULE DashboardSessionProofs -----------------------
(***************************************************************************)
(* Theorems about DashboardSession, for any number of tabs, handlers,      *)
(* people and token pairs.                                                 *)
(***************************************************************************)
EXTENDS DashboardSession, TLAPS

-----------------------------------------------------------------------------
(* The server                                                              *)

\* Only pairs of the server expire.
LEMMA StalePairs == Spec => [](stale \subseteq Tokens)
  <1>1. Init => stale \subseteq Tokens
    BY DEF Init
  <1>2. stale \subseteq Tokens /\ [Next]_vars => (stale \subseteq Tokens)'
    BY DEF Next, vars, Mount, Effects, Reload, Logout, Leave, Submit, Click, Proceed,
           Answer, BeginRefresh, Deliver, Lose, ServeQuery, ServeTokens, ServerCrash,
           AccessExpires
  <1>3. QED
    BY <1>1, <1>2, PTL DEF Spec

\* What a step of the browser is to the server: a request that begins, a query
\* of one, or nothing.
LEMMA ServerStep ==
  ASSUME stale \subseteq Tokens, [Next]_vars
  PROVE  \/ \E c \in Calls : \/ Auth!BeginRegister(c) \/ Auth!BeginLogin(c)
                             \/ \E t \in stale : Auth!BeginWithToken(c, "refresh", tokens[t].user, t)
                             \/ Auth!InsertUser(c) \/ Auth!FindByHashWithUser(c)
                             \/ Auth!DeleteById(c) \/ Auth!IssueTokenPair(c)
                             \/ Auth!Crash(c)
         \/ UNCHANGED server
  <1>1. ASSUME NEW p \in Tabs, NEW k \in Runs, Submit(p, k)
        PROVE  \E c \in Calls : Auth!BeginRegister(c) \/ Auth!BeginLogin(c)
    <2>1. <<k, 1>> \in Calls
      BY DEF Calls, Width
    <2>2. QED
      BY <1>1, <2>1 DEF Submit
  <1>2. ASSUME NEW c \in Calls, BeginRefresh(c)
        PROVE  \E t \in stale : Auth!BeginWithToken(c, "refresh", tokens[t].user, t)
    BY <1>2 DEF BeginRefresh
  <1>3. ASSUME NEW c \in Calls, ServeQuery(c)
        PROVE  Auth!InsertUser(c) \/ Auth!FindByHashWithUser(c) \/ Auth!DeleteById(c)
    BY <1>3 DEF ServeQuery
  <1>4. ASSUME NEW c \in Calls, ServeTokens(c) PROVE Auth!IssueTokenPair(c)
    BY <1>4 DEF ServeTokens
  <1>5. ASSUME NEW c \in Calls, ServerCrash(c) PROVE Auth!Crash(c)
    BY <1>5 DEF ServerCrash
  <1>6. ASSUME NEW p \in Tabs, Mount(p) \/ Effects(p) \/ Reload(p) \/ Logout(p) \/ Leave(p)
        PROVE  UNCHANGED server
    BY <1>6 DEF Mount, Effects, Reload, Logout, Leave
  <1>7. ASSUME NEW p \in Tabs, NEW k \in Runs, Click(p, k) PROVE UNCHANGED server
    BY <1>7 DEF Click
  <1>8. ASSUME NEW k \in Runs, Proceed(k) PROVE UNCHANGED server
    BY <1>8 DEF Proceed
  <1>9. ASSUME NEW c \in Calls, Answer(c) \/ Deliver(c) \/ Lose(c) PROVE UNCHANGED server
    BY <1>9 DEF Answer, Deliver, Lose
  <1>10. ASSUME NEW t \in Tokens, AccessExpires(t) PROVE UNCHANGED server
    BY <1>10 DEF AccessExpires
  <1>11. CASE UNCHANGED vars
    BY <1>11 DEF vars
  <1>12. QED
    BY <1>1, <1>2, <1>3, <1>4, <1>5, <1>6, <1>7, <1>8, <1>9, <1>10, <1>11 DEF Next

\* Every step for a tab is a step of AuthSessions, by the way the modules are composed,
\* and so what is proved there holds here.
LEMMA ServerRefines == Spec => Auth!Spec
  <1>1. Init => Auth!Init
    BY DEF Init
  <1>2. stale \subseteq Tokens /\ [Next]_vars => [Auth!Next]_(Auth!vars)
    <2> SUFFICES ASSUME stale \subseteq Tokens, [Next]_vars PROVE [Auth!Next]_(Auth!vars)
      OBVIOUS
    <2>1. UNCHANGED server => UNCHANGED Auth!vars
      BY DEF server, Auth!vars
    <2>2. ASSUME NEW c \in Calls, NEW t \in stale,
                 Auth!BeginWithToken(c, "refresh", tokens[t].user, t)
          PROVE  Auth!Next
      BY <2>2 DEF Auth!Next, Auth!BeginRefresh
    <2>3. QED
      BY <2>1, <2>2, ServerStep DEF Auth!Next
  <1>3. QED
    BY <1>1, <1>2, StalePairs, PTL DEF Spec, Auth!Spec

-----------------------------------------------------------------------------
(* What AuthSessionsProofs says of it                                      *)

AuthP == INSTANCE AuthSessionsProofs
           WITH Requests <- Calls, pc <- serving, call <- asked

\* Its names mean what those of AuthSessions do.
LEMMA SameSpec == Auth!Spec => AuthP!Spec
  <1> USE DEF Auth!NoToken, AuthP!NoToken, Auth!NoCall, AuthP!NoCall,
              Auth!NoRow, AuthP!NoRow, Auth!Begin, AuthP!Begin, Auth!Goto, AuthP!Goto,
              Auth!Finish, AuthP!Finish
  <1>1. Auth!Init => AuthP!Init
    BY DEF Auth!Init, AuthP!Init
  <1>2. ASSUME NEW c \in Calls
        PROVE  /\ Auth!BeginRegister(c) => AuthP!BeginRegister(c)
               /\ Auth!BeginLogin(c) => AuthP!BeginLogin(c)
               /\ Auth!InsertUser(c) => AuthP!InsertUser(c)
               /\ Auth!Crash(c) => AuthP!Crash(c)
    BY DEF Auth!BeginRegister, AuthP!BeginRegister, Auth!BeginLogin, AuthP!BeginLogin,
           Auth!InsertUser, AuthP!InsertUser, Auth!Crash, AuthP!Crash
  <1>3. ASSUME NEW c \in Calls
        PROVE  /\ Auth!BeginRefresh(c) => AuthP!BeginRefresh(c)
               /\ Auth!BeginLogout(c) => AuthP!BeginLogout(c)
    BY DEF Auth!BeginRefresh, AuthP!BeginRefresh, Auth!BeginLogout, AuthP!BeginLogout,
           Auth!BeginWithToken, AuthP!BeginWithToken
  <1>4. ASSUME NEW c \in Calls
        PROVE  /\ Auth!FindByHashWithUser(c) => AuthP!FindByHashWithUser(c)
               /\ Auth!DeleteById(c) => AuthP!DeleteById(c)
    BY DEF Auth!FindByHashWithUser, AuthP!FindByHashWithUser, Auth!Usable, AuthP!Usable,
           Auth!DeleteById, AuthP!DeleteById, Auth!Deleted, AuthP!Deleted
  <1>5. ASSUME NEW c \in Calls
        PROVE  Auth!IssueTokenPair(c) => AuthP!IssueTokenPair(c)
    BY DEF Auth!IssueTokenPair, AuthP!IssueTokenPair, Auth!SaveForUser, AuthP!SaveForUser,
           Auth!SessionOf, AuthP!SessionOf
  <1>6. ASSUME NEW t \in Tokens
        PROVE  Auth!Expire(t) => AuthP!Expire(t)
    BY DEF Auth!Expire, AuthP!Expire
  <1>7. [Auth!Next]_(Auth!vars) => [AuthP!Next]_(AuthP!vars)
    BY <1>2, <1>3, <1>4, <1>5, <1>6 DEF Auth!Next, AuthP!Next, Auth!vars, AuthP!vars
  <1>8. QED
    BY <1>1, <1>7, PTL DEF Auth!Spec, AuthP!Spec

\* What a request is about, and that a token somebody presents was issued.
CallHolds(c) ==
  /\ serving[c] \in {"findToken", "deleteToken"} => asked[c].op \in {"refresh", "logout"}
  /\ asked[c].op \in {"refresh", "logout"} =>
       asked[c].token \in Tokens /\ tokens[asked[c].token].state # "unused"
  /\ asked[c].op \in {"register", "login"} => asked[c].token = NoPair

ServerInv == Auth!TypeOK /\ \A c \in Calls : CallHolds(c)

LEMMA ServerInvariant == Spec => []ServerInv
  <1>1. AuthP!NoTokenIsNone
    BY PairsAreNamed DEF NoPair, Auth!NoToken, AuthP!NoTokenIsNone, AuthP!NoToken
  <1>2. AuthP!Spec => []AuthP!IInv
    BY <1>1, AuthP!Invariance
  <1>3. AuthP!IInv => ServerInv
    <2> SUFFICES ASSUME AuthP!IInv PROVE ServerInv
      OBVIOUS
    <2> USE DEF Auth!NoToken, AuthP!NoToken
    <2>1. Auth!TypeOK
      BY DEF AuthP!IInv, Auth!TypeOK, AuthP!TypeOK, Auth!TableOK, AuthP!TableOK, Auth!Rows,
             AuthP!Rows, Auth!Labels, AuthP!Labels, Auth!Call, AuthP!Call,
             Auth!NoCall, AuthP!NoCall
    <2>2. ASSUME NEW c \in Calls PROVE CallHolds(c)
      BY DEF AuthP!IInv, AuthP!CallsOK, AuthP!CallOK, AuthP!Issued, CallHolds, NoPair
    <2>3. QED
      BY <2>1, <2>2 DEF ServerInv
  <1>4. QED
    BY <1>2, <1>3, ServerRefines, SameSpec, PTL

\* Every state in which the server can be for the tabs obeys what is proved of it for
\* any requests: where no delete found its row gone, the parallel refreshes of all
\* tabs leave a session with one live token, or one request about to insert it.
THEOREM RotationForksNoSession == Spec => []Auth!UnracedSessionsAreSingle
  <1>1. AuthP!NoTokenIsNone
    BY PairsAreNamed DEF NoPair, Auth!NoToken, AuthP!NoTokenIsNone, AuthP!NoToken
  <1>2. AuthP!Spec => []AuthP!UnracedSessionsAreSingle
    BY <1>1, AuthP!SingleSessions
  <1>3. AuthP!UnracedSessionsAreSingle => Auth!UnracedSessionsAreSingle
    BY DEF AuthP!UnracedSessionsAreSingle, Auth!UnracedSessionsAreSingle, AuthP!Live,
           Auth!Live, AuthP!Issuing, Auth!Issuing
  <1>4. QED
    BY <1>2, <1>3, ServerRefines, SameSpec, PTL

-----------------------------------------------------------------------------
(* Handlers and their requests                                             *)

LEMMA CallParts ==
  /\ \A c \in Calls : c[1] \in Runs /\ c[2] \in Width /\ c = <<c[1], c[2]>>
  /\ \A k \in Runs, i \in Width : /\ <<k, i>> \in Calls
                                  /\ <<k, i>>[1] = k /\ <<k, i>>[2] = i
  BY DEF Calls, Width

LEMMA FirstCall ==
  ASSUME NEW k \in Runs
  PROVE  <<k, 1>> \in Calls /\ <<k, 1>>[1] = k /\ <<k, 1>>[2] = 1
  BY DEF Calls, Width

LEMMA JoinedStages ==
  ASSUME NEW first \in Seq(Stage), NEW rest \in Seq(Stage), first # <<>>
  PROVE  first \o rest \in Seq(Stage) /\ first \o rest # <<>>
  <1>1. Len(first) > 0 /\ Len(rest) >= 0
    OBVIOUS
  <1>2. Len(first \o rest) = Len(first) + Len(rest)
    OBVIOUS
  <1>3. QED
    BY <1>1, <1>2

LEMMA PlansAreSequences == \A plan \in Plans : plan \in Seq(Stage) /\ plan # <<>>
  <1> DEFINE Fine(plan) == plan \in Seq(Stage) /\ plan # <<>>
  <1>1. {LoadList, LoadSeveral, LoadOne, Submission, Request} \subseteq Stage
    BY DEF LoadList, LoadSeveral, LoadOne, Submission, Request, Stage, Width
  <1>2. /\ Fine(HandleLoadWorkspaces) /\ Fine(HandleLoad) /\ Fine(HandleLoadApiKeys)
        /\ Fine(HandleLoadWorkspaceManagement) /\ Fine(HandleSubmit) /\ Fine(<<Request>>)
    BY <1>1 DEF HandleLoadWorkspaces, HandleLoad, HandleLoadApiKeys,
                HandleLoadWorkspaceManagement, HandleSubmit
  <1>3. /\ Fine(HandleCreateApiKey) /\ Fine(HandleRevokeApiKey)
        /\ Fine(HandleUpdateMemberRole) /\ Fine(HandleRemoveMember)
        /\ Fine(HandleLeaveWorkspace) /\ Fine(HandleTransferOwnership)
        /\ Fine(HandleCreateInvite) /\ Fine(HandleRevokeInvite)
    BY <1>2, JoinedStages
       DEF HandleCreateApiKey, HandleRevokeApiKey, HandleUpdateMemberRole,
           HandleRemoveMember, HandleLeaveWorkspace, HandleTransferOwnership,
           HandleCreateInvite, HandleRevokeInvite
  <1>4. Fine(HandleRenameWorkspace)
    <2>1. Fine(<<Request>> \o HandleLoadWorkspaceManagement)
      BY <1>2, JoinedStages
    <2>2. QED
      BY <1>2, <2>1, JoinedStages DEF HandleRenameWorkspace
  <1> HIDE DEF Fine
  <1>5. \A plan \in Plans : Fine(plan)
    BY <1>2, <1>3, <1>4 DEF Plans, OnButton, Always
  <1>6. QED
    BY <1>5 DEF Fine

\* The types of what the browser holds.
ClientOK ==
  /\ stale \subseteq Tokens
  /\ stored \in Pairs
  /\ page \in [Tabs -> Page]
  /\ run \in [Runs -> Run \union {NoRun}]
  /\ fetch \in [Calls -> Fetch \union {NoFetch}]
  /\ reply \in [Calls -> Pairs \union {Failed}]
  /\ strayed \subseteq Tokens
  /\ signedOut \in BOOLEAN

LEMMA Phases ==
  ASSUME ClientOK, NEW c \in Calls
  PROVE  \/ fetch[c] = NoFetch /\ fetch[c].phase = "idle"
         \/ fetch[c] \in Fetch /\ fetch[c].phase \in {"send", "wait", "ok", "failed"}
  BY DEF ClientOK, Fetch, NoFetch

LEMMA ActiveRuns ==
  ASSUME ClientOK, NEW k \in Runs
  PROVE  \/ run[k] = NoRun /\ ~Active(k)
         \/ run[k] \in Run
  BY DEF ClientOK, NoRun, Active

\* A stage that begins.
LEMMA SentRequests ==
  ASSUME ClientOK, NEW k \in Runs, NEW stage \in Stage, NEW pair \in Pairs,
         NEW c \in Calls
  PROVE  /\ Sent(k, stage, pair) \in [Calls -> Fetch \union {NoFetch}]
         /\ c[1] # k => Sent(k, stage, pair)[c] = fetch[c]
         /\ c[1] = k => \/ Sent(k, stage, pair)[c] = NoFetch
                        \/ /\ Sent(k, stage, pair)[c].phase = "send"
                           /\ Sent(k, stage, pair)[c].pair = pair
         /\ Sent(k, stage, pair)[<<k, 1>>].phase = "send"
  <1> DEFINE new == [phase |-> "send", pair |-> pair, mayRefresh |-> stage.refreshes]
  <1>1. new \in Fetch /\ new.phase = "send" /\ new.pair = pair
    BY DEF Fetch, Stage
  <1>2. \A d \in Calls : Sent(k, stage, pair)[d] =
          IF d[1] = k THEN IF d[2] <= stage.width THEN new ELSE NoFetch ELSE fetch[d]
    BY DEF Sent
  <1>3. Sent(k, stage, pair) \in [Calls -> Fetch \union {NoFetch}]
    BY <1>1 DEF Sent, ClientOK
  <1>4. <<k, 1>> \in Calls /\ <<k, 1>>[1] = k /\ <<k, 1>>[2] = 1
    BY FirstCall
  <1>5. 1 <= stage.width
    BY DEF Stage, Width
  <1>6. Sent(k, stage, pair)[<<k, 1>>] = new
    BY <1>2, <1>4, <1>5
  <1> HIDE DEF new
  <1>7. QED
    BY <1>1, <1>2, <1>3, <1>6

\* A handler that starts: its slot was free.
LEMMA Started ==
  ASSUME ClientOK, NEW p \in Tabs, NEW k \in Runs, NEW plan \in Plans, Start(p, k, plan)
  PROVE  /\ run' \in [Runs -> Run \union {NoRun}]
         /\ fetch' \in [Calls -> Fetch \union {NoFetch}]
         /\ run'[k].tab = p /\ run'[k].pair = page[p].pair /\ run'[k].bound
         /\ run'[k].left # <<>> /\ run'[k] \in Run /\ ~Active(k)
         /\ \A j \in Runs \ {k} : run'[j] = run[j]
         /\ fetch'[<<k, 1>>].phase = "send"
         /\ \A c \in Calls :
              /\ c[1] # k => fetch'[c] = fetch[c]
              /\ c[1] = k => /\ fetch[c] = NoFetch
                             /\ \/ fetch'[c] = NoFetch
                                \/ fetch'[c].phase = "send" /\ fetch'[c].pair = page[p].pair
  <1> DEFINE new == [tab |-> p, pair |-> page[p].pair, left |-> plan, bound |-> TRUE]
  <1>1. plan \in Seq(Stage) /\ plan # <<>> /\ Head(plan) \in Stage /\ page[p].pair \in Pairs
    BY PlansAreSequences DEF ClientOK, Page
  <1>2. new \in Run /\ new.left = plan /\ new.tab = p /\ new.pair = page[p].pair /\ new.bound
    BY <1>1 DEF Run
  <1>3. run' = [run EXCEPT ![k] = new]
    BY DEF Start
  <1> HIDE DEF new
  <1>4. fetch' = Sent(k, Head(plan), page[p].pair)
    BY DEF Start
  <1>5. \A c \in Calls : c[1] = k => fetch[c] = NoFetch
    BY CallParts DEF Start, Free
  <1>6. run' \in [Runs -> Run \union {NoRun}] /\ run'[k] = new
        /\ \A j \in Runs \ {k} : run'[j] = run[j]
    BY <1>2, <1>3 DEF ClientOK
  <1>7. ~Active(k)
    BY DEF Start, Free
  <1>8. /\ fetch' \in [Calls -> Fetch \union {NoFetch}]
        /\ fetch'[<<k, 1>>].phase = "send"
        /\ \A c \in Calls :
             /\ c[1] # k => fetch'[c] = fetch[c]
             /\ c[1] = k => \/ fetch'[c] = NoFetch
                            \/ fetch'[c].phase = "send" /\ fetch'[c].pair = page[p].pair
    <2>1. <<k, 1>> \in Calls
      BY FirstCall
    <2>2. QED
      BY <1>1, <1>4, <2>1, SentRequests
  <1>9. QED
    BY <1>1, <1>2, <1>5, <1>6, <1>7, <1>8

\* A request that has its result.
LEMMA Resolved ==
  ASSUME ClientOK, NEW c \in Calls, fetch[c] \in Fetch, NEW phase \in {"ok", "failed"},
         Resolve(c, phase)
  PROVE  /\ run' \in [Runs -> Run \union {NoRun}]
         /\ fetch' \in [Calls -> Fetch \union {NoFetch}]
         /\ \A d \in Calls \ {c} : fetch'[d] = fetch[d]
         /\ \/ fetch'[c] = NoFetch /\ ~Active(c[1])
            \/ fetch'[c].phase = phase /\ fetch'[c].pair = fetch[c].pair
         /\ \A j \in Runs :
              \/ run'[j] = run[j]
              \/ /\ run'[j] = NoRun /\ ~Active(j)
                 /\ \A i \in Width : fetch'[<<j, i>>] = NoFetch
  <1>1. CASE Active(c[1])
    <2> DEFINE new == [fetch[c] EXCEPT !.phase = phase]
    <2>1. new \in Fetch /\ new.phase = phase /\ new.pair = fetch[c].pair
      BY DEF Fetch
    <2>2. fetch' = [fetch EXCEPT ![c] = new] /\ run' = run
      BY <1>1 DEF Resolve
    <2> HIDE DEF new
    <2>3. QED
      BY <2>1, <2>2 DEF ClientOK
  <1>2. CASE ~Active(c[1])
    BY <1>2, CallParts DEF Resolve, ClientOK
  <1>3. QED
    BY <1>1, <1>2

\* A handler that ends.
LEMMA Ended ==
  ASSUME ClientOK, NEW k \in Runs, Active(k), EndHandler(k)
  PROVE  /\ page' \in [Tabs -> Page]
         /\ run' \in [Runs -> Run \union {NoRun}]
         /\ fetch' \in [Calls -> Fetch \union {NoFetch}]
         /\ \A c \in Calls : \/ fetch'[c] = fetch[c]
                             \/ /\ fetch'[c] = NoFetch /\ c[1] = k
                                /\ fetch[c].phase \in {"ok", "failed"}
         /\ \A j \in Runs \ {k} : run'[j] = run[j]
         /\ \/ run'[k] = NoRun /\ \A i \in Width : fetch'[<<k, i>>] = NoFetch
            \/ /\ run'[k] \in Run
               /\ run'[k].left = <<>> /\ run'[k].tab = run[k].tab
               /\ run'[k].pair = run[k].pair /\ run'[k].bound = run[k].bound
         /\ \A p \in Tabs :
              /\ page'[p].pair = page[p].pair /\ page'[p].unsaved = page[p].unsaved
              /\ page'[p].loading =>
                   page[p].loading /\ (run[k].bound => run[k].tab # p)
  <1> DEFINE ended == [run[k] EXCEPT !.left = <<>>]
             t == run[k].tab
             shown == [page[t] EXCEPT !.loading = @ /\ ~run[k].bound]
  <1>1. run[k] \in Run /\ t \in Tabs
    BY ActiveRuns DEF Run
  <1>2. /\ ended \in Run /\ ended.left = <<>> /\ ended.tab = run[k].tab
        /\ ended.pair = run[k].pair /\ ended.bound = run[k].bound
    <2>1. <<>> \in Seq(Stage)
      OBVIOUS
    <2>2. QED
      BY <1>1, <2>1 DEF Run
  <1>3. /\ shown \in Page /\ shown.pair = page[t].pair /\ shown.unsaved = page[t].unsaved
        /\ shown.loading => page[t].loading /\ ~run[k].bound
    <2>1. page[t] \in Page /\ run[k].bound \in BOOLEAN
      BY <1>1 DEF ClientOK, Run
    <2>2. QED
      BY <2>1 DEF Page
  <1>4. page' = [page EXCEPT ![t] = shown]
    BY DEF EndHandler
  <1>5. /\ \/ run'[k] = NoRun /\ \A i \in Width : fetch'[<<k, i>>] = NoFetch
           \/ run'[k] = ended
        /\ \A j \in Runs \ {k} : run'[j] = run[j]
    BY DEF EndHandler, ClientOK
  <1>6. run' = [run EXCEPT ![k] = run'[k]]
    BY DEF EndHandler, ClientOK
  <1>7. \A c \in Calls : \/ fetch'[c] = fetch[c]
                         \/ /\ fetch'[c] = NoFetch /\ c[1] = k
                            /\ fetch[c].phase \in {"ok", "failed"}
    BY DEF EndHandler
  <1>8. fetch' \in [Calls -> Fetch \union {NoFetch}]
    BY DEF EndHandler, ClientOK
  <1> HIDE DEF ended, shown
  <1>9. page' \in [Tabs -> Page]
    BY <1>3, <1>4 DEF ClientOK
  <1>10. run' \in [Runs -> Run \union {NoRun}]
    BY <1>2, <1>5, <1>6 DEF ClientOK
  <1>11. ASSUME NEW p \in Tabs
         PROVE  /\ page'[p].pair = page[p].pair /\ page'[p].unsaved = page[p].unsaved
                /\ page'[p].loading =>
                     page[p].loading /\ (run[k].bound => run[k].tab # p)
    BY <1>1, <1>3, <1>4 DEF ClientOK
  <1>12. QED
    BY <1>2, <1>5, <1>7, <1>8, <1>9, <1>10, <1>11

\* What still runs when its page is gone.
LEMMA UnboundRuns ==
  ASSUME ClientOK, NEW p \in Tabs
  PROVE  /\ Unbound(p) \in [Runs -> Run \union {NoRun}]
         /\ \A k \in Runs :
              \/ Unbound(p)[k] = run[k] /\ (run[k] = NoRun \/ run[k].tab # p)
              \/ /\ run[k] \in Run /\ run[k].tab = p /\ Unbound(p)[k] \in Run
                 /\ Unbound(p)[k].tab = p /\ Unbound(p)[k].pair = run[k].pair
                 /\ Unbound(p)[k].left = run[k].left /\ ~Unbound(p)[k].bound
  <1>1. ASSUME NEW k \in RunsOf(p)
        PROVE  /\ run[k] \in Run /\ run[k].tab = p
               /\ [run[k] EXCEPT !.bound = FALSE] \in Run
               /\ [run[k] EXCEPT !.bound = FALSE].tab = p
               /\ [run[k] EXCEPT !.bound = FALSE].pair = run[k].pair
               /\ [run[k] EXCEPT !.bound = FALSE].left = run[k].left
               /\ ~[run[k] EXCEPT !.bound = FALSE].bound
    <2>1. run[k] \in Run /\ run[k].tab = p
      BY DEF RunsOf, ClientOK
    <2>2. QED
      BY <2>1 DEF Run
  <1>2. \A k \in Runs : Unbound(p)[k] = IF k \in RunsOf(p) THEN [run[k] EXCEPT !.bound = FALSE]
                                                         ELSE run[k]
    BY DEF Unbound
  <1>3. Unbound(p) \in [Runs -> Run \union {NoRun}]
    BY <1>1 DEF Unbound, ClientOK
  <1>4. \A k \in Runs : k \notin RunsOf(p) => run[k] = NoRun \/ run[k].tab # p
    BY DEF RunsOf
  <1>5. QED
    BY <1>1, <1>2, <1>3, <1>4

LEMMA BootstrappedPage ==
  ASSUME ClientOK, NEW p \in Tabs, page' = [page EXCEPT ![p] = Bootstrapped]
  PROVE  /\ page' \in [Tabs -> Page]
         /\ \A q \in Tabs \ {p} : page'[q] = page[q]
         /\ page'[p].pair = stored /\ ~page'[p].loading
         /\ page'[p].unsaved = IF stored = NoPair THEN "no" ELSE "signIn"
  <1>1. /\ Bootstrapped \in Page /\ Bootstrapped.pair = stored /\ ~Bootstrapped.loading
        /\ Bootstrapped.unsaved = IF stored = NoPair THEN "no" ELSE "signIn"
    BY DEF Bootstrapped, Page, ClientOK
  <1> HIDE DEF Bootstrapped
  <1>2. QED
    BY <1>1 DEF ClientOK

\* A page that loses its pair, and its user.
LEMMA SignedOutPage ==
  ASSUME ClientOK, NEW p \in Tabs,
         page' = [page EXCEPT ![p].pair = NoPair, ![p].leaving = TRUE]
  PROVE  /\ page' \in [Tabs -> Page]
         /\ \A q \in Tabs \ {p} : page'[q] = page[q]
         /\ page'[p].pair = NoPair /\ page'[p].unsaved = page[p].unsaved
         /\ page'[p].loading = page[p].loading
  BY DEF ClientOK, Page, Pairs

LEMMA PageLeft ==
  ASSUME ClientOK, NEW p \in Tabs, page' = [page EXCEPT ![p] = LoginPage]
  PROVE  /\ page' \in [Tabs -> Page]
         /\ \A q \in Tabs \ {p} : page'[q] = page[q]
         /\ page'[p].pair = NoPair /\ page'[p].unsaved = "no" /\ ~page'[p].loading
  <1>1. /\ LoginPage \in Page /\ LoginPage.pair = NoPair /\ LoginPage.unsaved = "no"
        /\ ~LoginPage.loading
    BY DEF LoginPage, Page, Pairs
  <1>2. QED
    BY <1>1 DEF ClientOK

LEMMA LoadingPage ==
  ASSUME ClientOK, NEW p \in Tabs, page' = [page EXCEPT ![p].loading = TRUE]
  PROVE  /\ page' \in [Tabs -> Page]
         /\ \A q \in Tabs \ {p} : page'[q] = page[q]
         /\ page'[p].pair = page[p].pair /\ page'[p].unsaved = page[p].unsaved
  BY DEF ClientOK, Page

\* The effects of a render.
LEMMA SavedPage ==
  ASSUME ClientOK, NEW p \in Tabs, Effects(p)
  PROVE  /\ page' \in [Tabs -> Page]
         /\ \A q \in Tabs \ {p} : page'[q] = page[q]
         /\ page'[p].pair = page[p].pair /\ page'[p].unsaved = "no"
         /\ \/ \E k \in Runs : Start(p, k, HandleLoadWorkspaces)
            \/ page'[p].loading = page[p].loading /\ UNCHANGED <<run, fetch>>
  <1>1. CASE page' = [page EXCEPT ![p].unsaved = "no", ![p].loading = TRUE]
             /\ \E k \in Runs : Start(p, k, HandleLoadWorkspaces)
    BY <1>1 DEF ClientOK, Page
  <1>2. CASE page' = [page EXCEPT ![p].unsaved = "no"] /\ UNCHANGED <<run, fetch>>
    BY <1>2 DEF ClientOK, Page
  <1>3. QED
    BY <1>1, <1>2 DEF Effects

\* A page that gets a new pair, if it is still there.
LEMMA RefreshedPage ==
  ASSUME ClientOK, NEW c \in Calls, NEW n \in Tokens, Refreshed(c, n)
  PROVE  /\ page' \in [Tabs -> Page]
         /\ \A q \in Tabs : /\ page'[q].loading = page[q].loading
                            /\ q # TabOf(c) => page'[q] = page[q]
                            /\ \/ page'[q] = page[q]
                               \/ page'[q].pair = n /\ page'[q].unsaved # "no"
         /\ OnPage(c) /\ TabOf(c) \in Tabs =>
              page'[TabOf(c)].pair = n /\ page'[TabOf(c)].unsaved # "no"
  <1> DEFINE p == TabOf(c)
             new == [page[p] EXCEPT !.pair = n,
                       !.unsaved = IF page[p].pair = NoPair THEN "signIn" ELSE "pair"]
  <1>1. CASE OnPage(c) /\ p \in Tabs
    <2>1. page' = [page EXCEPT ![p] = new]
      BY <1>1 DEF Refreshed
    <2>2. /\ new \in Page /\ new.pair = n /\ new.unsaved # "no"
          /\ new.loading = page[p].loading
      BY <1>1 DEF ClientOK, Page, Pairs
    <2> HIDE DEF new
    <2>3. QED
      BY <1>1, <2>1, <2>2 DEF ClientOK
  <1>2. CASE ~OnPage(c) \/ p \notin Tabs
    <2>1. page' = page
      <3>1. CASE OnPage(c)
        <4>1. page' = [page EXCEPT ![p] = new]
          BY <3>1 DEF Refreshed
        <4> HIDE DEF new
        <4>2. QED
          BY <1>2, <3>1, <4>1 DEF ClientOK
      <3>2. QED
        BY <3>1 DEF Refreshed
    <2>2. QED
      BY <1>2, <2>1 DEF ClientOK
  <1>3. QED
    BY <1>1, <1>2

\* A stage is over: the next one begins, or the handler ends.
LEMMA Proceeded ==
  ASSUME ClientOK, NEW k \in Runs, Proceed(k)
  PROVE  /\ page' \in [Tabs -> Page]
         /\ run' \in [Runs -> Run \union {NoRun}]
         /\ fetch' \in [Calls -> Fetch \union {NoFetch}]
         /\ run[k] \in Run
         /\ \A c \in Calls : \/ fetch'[c] = fetch[c]
                             \/ /\ c[1] = k /\ fetch[c].phase # "wait"
                                /\ \/ fetch'[c] = NoFetch
                                   \/ fetch'[c].phase = "send" /\ fetch'[c].pair = run[k].pair
         /\ \A j \in Runs \ {k} : run'[j] = run[j]
         /\ \/ run'[k] = NoRun
            \/ /\ run'[k].tab = run[k].tab /\ run'[k].pair = run[k].pair
               /\ run'[k].bound = run[k].bound
         /\ run'[k].left # <<>> => fetch'[<<k, 1>>].phase = "send"
         /\ run'[k] = NoRun => \A i \in Width : fetch'[<<k, i>>] = NoFetch
         /\ \A p \in Tabs :
              /\ page'[p].pair = page[p].pair /\ page'[p].unsaved = page[p].unsaved
              /\ page'[p].loading =>
                   /\ page[p].loading
                   /\ run'[k].left # <<>> \/ (run[k].bound => run[k].tab # p)
  <1>1. Active(k) /\ run[k] \in Run
    BY ActiveRuns DEF Proceed
  <1>2. CASE EndHandler(k)
    <2>1. run'[k].left = <<>>
      BY <1>1, <1>2, Ended DEF NoRun
    <2>2. NoRun \notin Run
      BY DEF NoRun, Run
    <2>3. QED
      BY <1>1, <1>2, <2>1, <2>2, Ended
  <1>3. CASE ~EndHandler(k)
    <2> DEFINE rest == Tail(run[k].left)
               new == [run[k] EXCEPT !.left = rest]
    <2>1. /\ rest # <<>> /\ page' = page
          /\ fetch' = Sent(k, Head(rest), run[k].pair)
          /\ run' = [run EXCEPT ![k] = new]
          /\ \A i \in Width : fetch[<<k, i>>].phase \in {"ok", "failed", "idle"}
      BY <1>3 DEF Proceed
    <2>2. run[k].left \in Seq(Stage) /\ run[k].left # <<>>
      BY <1>1 DEF Run, Active
    <2>3. rest \in Seq(Stage)
      BY <2>2
    <2>4. Head(rest) \in Stage
      BY <2>1, <2>3
    <2>5. /\ new \in Run /\ new.left = rest /\ new.tab = run[k].tab
          /\ new.pair = run[k].pair /\ new.bound = run[k].bound /\ new # NoRun
      <3> HIDE DEF rest
      <3>1. QED
        BY <1>1, <2>3 DEF Run, NoRun
    <2>6. run[k].pair \in Pairs
      BY <1>1 DEF Run
    <2> HIDE DEF new, rest
    <2>7. run' \in [Runs -> Run \union {NoRun}] /\ run'[k] = new
          /\ \A j \in Runs \ {k} : run'[j] = run[j]
      BY <2>1, <2>5 DEF ClientOK
    <2>8. \A c \in Calls : c[1] = k => fetch[c].phase # "wait"
      BY <2>1, CallParts
    <2>9. /\ fetch' \in [Calls -> Fetch \union {NoFetch}]
          /\ fetch'[<<k, 1>>].phase = "send"
          /\ \A c \in Calls :
               /\ c[1] # k => fetch'[c] = fetch[c]
               /\ c[1] = k => \/ fetch'[c] = NoFetch
                              \/ fetch'[c].phase = "send" /\ fetch'[c].pair = run[k].pair
      <3>1. <<k, 1>> \in Calls
        BY FirstCall
      <3>2. QED
        BY <2>1, <2>4, <2>6, <3>1, SentRequests
    <2>10. QED
      BY <1>1, <2>1, <2>5, <2>7, <2>8, <2>9 DEF ClientOK
  <1>4. QED
    BY <1>2, <1>3

\* An answer arrives: an error, the pair of a login, or that of a refresh.
LEMMA Delivered ==
  ASSUME ClientOK, NEW c \in Calls, Deliver(c)
  PROVE  /\ fetch[c] \in Fetch /\ fetch[c].phase = "wait" /\ reply[c] # NoPair
         /\ reply' \in [Calls -> Pairs \union {Failed}] /\ reply'[c] = NoPair
         /\ \A d \in Calls \ {c} : reply'[d] = reply[d]
         /\ \/ /\ reply[c] = Failed /\ Resolve(c, "failed")
               /\ UNCHANGED <<stored, page, strayed>>
            \/ /\ reply[c] \in Tokens /\ stored' = reply[c] /\ Resolve(c, "ok")
               /\ fetch[c].pair = NoPair
               /\ UNCHANGED <<page, strayed>>
            \/ /\ reply[c] \in Tokens /\ fetch[c].pair \in Tokens
               /\ Refreshed(c, reply[c]) /\ UNCHANGED run
               /\ fetch' \in [Calls -> Fetch \union {NoFetch}]
               /\ fetch'[c].phase = "send" /\ fetch'[c].pair = reply[c]
               /\ \A d \in Calls \ {c} : fetch'[d] = fetch[d]
  <1>1. fetch[c] \in Fetch /\ fetch[c].phase = "wait" /\ reply[c] # NoPair
    BY Phases DEF Deliver
  <1>2. /\ reply' \in [Calls -> Pairs \union {Failed}] /\ reply'[c] = NoPair
        /\ \A d \in Calls \ {c} : reply'[d] = reply[d]
    BY DEF Deliver, ClientOK, Pairs
  <1>3. reply[c] = Failed \/ reply[c] \in Tokens
    BY <1>1 DEF ClientOK, Pairs
  <1>4. CASE reply[c] = Failed
    BY <1>1, <1>2, <1>4 DEF Deliver
  <1>5. CASE reply[c] # Failed /\ fetch[c].pair = NoPair
    BY <1>1, <1>2, <1>3, <1>5 DEF Deliver
  <1>6. CASE reply[c] # Failed /\ fetch[c].pair # NoPair
    <2> DEFINE new == [phase |-> "send", pair |-> reply[c], mayRefresh |-> FALSE]
    <2>1. fetch' = [fetch EXCEPT ![c] = new] /\ Refreshed(c, reply[c]) /\ UNCHANGED run
      BY <1>6 DEF Deliver
    <2>2. new \in Fetch /\ new.phase = "send" /\ new.pair = reply[c]
      BY <1>3, <1>6 DEF Fetch, Pairs
    <2>3. fetch[c].pair \in Tokens
      BY <1>1, <1>6 DEF Fetch, Pairs
    <2> HIDE DEF new
    <2>4. QED
      BY <1>1, <1>2, <1>3, <1>6, <2>1, <2>2, <2>3 DEF ClientOK
  <1>7. QED
    BY <1>4, <1>5, <1>6

\* A slot takes up a submission; its slot was free.
LEMMA Submitted ==
  ASSUME ClientOK, NEW p \in Tabs, NEW k \in Runs, Submit(p, k)
  PROVE  /\ run' \in [Runs -> Run \union {NoRun}]
         /\ fetch' \in [Calls -> Fetch \union {NoFetch}]
         /\ run'[k].tab = p /\ run'[k].pair = NoPair /\ run'[k].bound
         /\ run'[k].left # <<>> /\ run'[k] \in Run /\ ~Active(k)
         /\ \A j \in Runs \ {k} : run'[j] = run[j]
         /\ \A c \in Calls \ {<<k, 1>>} : fetch'[c] = fetch[c]
         /\ fetch[<<k, 1>>] = NoFetch /\ serving[<<k, 1>>] = "idle"
         /\ fetch'[<<k, 1>>].phase = "wait" /\ fetch'[<<k, 1>>].pair = NoPair
  <1> DEFINE new == [tab |-> p, pair |-> NoPair, left |-> HandleSubmit, bound |-> TRUE]
             sent == [phase |-> "wait", pair |-> NoPair, mayRefresh |-> FALSE]
  <1>1. HandleSubmit \in Seq(Stage) /\ HandleSubmit # <<>>
    BY PlansAreSequences DEF Plans
  <1>2. /\ new \in Run /\ new.left # <<>> /\ new.tab = p /\ new.pair = NoPair /\ new.bound
        /\ sent \in Fetch /\ sent.phase = "wait" /\ sent.pair = NoPair
    BY <1>1 DEF Run, Fetch, Pairs
  <1>3. run' = [run EXCEPT ![k] = new] /\ fetch' = [fetch EXCEPT ![<<k, 1>>] = sent]
    BY DEF Submit
  <1> HIDE DEF new, sent
  <1>4. ~Active(k) /\ fetch[<<k, 1>>] = NoFetch /\ serving[<<k, 1>>] = "idle"
    <2>1. 1 \in Width
      BY DEF Width
    <2>2. QED
      BY <2>1 DEF Submit, Free
  <1>5. <<k, 1>> \in Calls
    BY FirstCall
  <1>6. QED
    BY <1>2, <1>3, <1>4, <1>5 DEF ClientOK

\* A reload forgets the runs of its tab, and their requests.
LEMMA Reloaded ==
  ASSUME ClientOK, NEW p \in Tabs, Reload(p)
  PROVE  /\ run' \in [Runs -> Run \union {NoRun}]
         /\ fetch' \in [Calls -> Fetch \union {NoFetch}]
         /\ reply' \in [Calls -> Pairs \union {Failed}]
         /\ \A k \in Runs : \/ run'[k] = run[k] /\ (run[k] = NoRun \/ run[k].tab # p)
                            \/ run'[k] = NoRun
         /\ \A c \in Calls :
              \/ fetch'[c] = fetch[c] /\ reply'[c] = reply[c] /\ run'[c[1]] = run[c[1]]
              \/ /\ fetch'[c] = NoFetch /\ reply'[c] = NoPair /\ run'[c[1]] = NoRun
                 /\ fetch[c].phase = "wait" => fetch[c].pair \in strayed' \union {NoPair}
         /\ strayed' \subseteq Tokens /\ strayed \subseteq strayed'
         /\ stored \in Tokens /\ tokens[stored].state = "deleted" => stored \in strayed'
  <1> DEFINE dropped == {c \in Calls : c[1] \in RunsOf(p)}
             lost == {fetch[c].pair : c \in {d \in dropped : fetch[d].phase = "wait"}}
                       \ {NoPair}
  <1>1. /\ run' = [k \in Runs |-> IF k \in RunsOf(p) THEN NoRun ELSE run[k]]
        /\ fetch' = [c \in Calls |-> IF c \in dropped THEN NoFetch ELSE fetch[c]]
        /\ reply' = [c \in Calls |-> IF c \in dropped THEN NoPair ELSE reply[c]]
        /\ strayed' = strayed \union TooLate \union lost
    BY DEF Reload
  <1>2. \A c \in Calls : fetch[c].phase = "wait" => fetch[c].pair \in Pairs
    BY Phases DEF Fetch, NoFetch
  <1>3. lost \subseteq Tokens
    BY <1>2 DEF Pairs
  <1>4. TooLate \subseteq Tokens
    BY DEF TooLate, ClientOK, Pairs
  <1>5. ASSUME NEW c \in dropped, fetch[c].phase = "wait"
        PROVE  fetch[c].pair \in lost \union {NoPair}
    BY <1>5
  <1>6. stored \in Tokens /\ tokens[stored].state = "deleted" => stored \in TooLate
    BY PairsAreNamed DEF TooLate
  <1>7. \A k \in Runs : k \notin RunsOf(p) => run[k] = NoRun \/ run[k].tab # p
    BY DEF RunsOf
  <1>8. \A c \in Calls : c[1] \in Runs /\ (c \in dropped <=> c[1] \in RunsOf(p))
    BY CallParts
  <1>9. /\ run' \in [Runs -> Run \union {NoRun}]
        /\ fetch' \in [Calls -> Fetch \union {NoFetch}]
        /\ reply' \in [Calls -> Pairs \union {Failed}]
    <2> HIDE DEF dropped
    <2>1. QED
      BY <1>1 DEF ClientOK, Pairs
  <1>10. \A k \in Runs : \/ run'[k] = run[k] /\ (run[k] = NoRun \/ run[k].tab # p)
                         \/ run'[k] = NoRun
    BY <1>1, <1>7
  <1>11. ASSUME NEW c \in Calls
         PROVE  \/ fetch'[c] = fetch[c] /\ reply'[c] = reply[c] /\ run'[c[1]] = run[c[1]]
                \/ /\ fetch'[c] = NoFetch /\ reply'[c] = NoPair /\ run'[c[1]] = NoRun
                   /\ fetch[c].phase = "wait" => fetch[c].pair \in strayed' \union {NoPair}
    <2>1. CASE c \in dropped
      <3>1. fetch[c].phase = "wait" => fetch[c].pair \in lost \union {NoPair}
        BY <1>5, <2>1
      <3> HIDE DEF dropped, lost
      <3>2. QED
        BY <1>1, <1>8, <2>1, <3>1
    <2>2. CASE c \notin dropped
      <3> HIDE DEF dropped, lost
      <3>1. QED
        BY <1>1, <1>8, <2>2
    <2>3. QED
      BY <2>1, <2>2
  <1> HIDE DEF dropped, lost
  <1>12. QED
    BY <1>1, <1>3, <1>4, <1>6, <1>9, <1>10, <1>11 DEF ClientOK

-----------------------------------------------------------------------------
(* The browser                                                             *)

\* Answers and requests keep their types; so does what the server tells.
LEMMA ServerReplies ==
  ASSUME ClientOK, ServerInv, NEW c \in Calls,
         ServeQuery(c) \/ ServeTokens(c) \/ ServerCrash(c)
  PROVE  /\ UNCHANGED <<stale, client, signedOut>>
         /\ reply' \in [Calls -> Pairs \union {Failed}]
         /\ \A d \in Calls : d # c \/ fetch[c].phase # "wait" => reply'[d] = reply[d]
         /\ strayed' \subseteq Tokens /\ strayed \subseteq strayed'
  <1>1. CASE ServeQuery(c)
    BY <1>1 DEF ServeQuery, Replied, ClientOK
  <1>2. CASE ServeTokens(c)
    BY <1>2 DEF ServeTokens, Replied, ClientOK, Pairs
  <1>3. CASE ServerCrash(c)
    <2>1. serving[c] = "issue" => asked[c].token \in Tokens \union {NoPair}
      BY DEF ServerInv, Auth!TypeOK, Auth!Call, Auth!NoCall, NoPair
    <2>2. QED
      BY <1>3, <2>1 DEF ServerCrash, Replied, ClientOK
  <1>4. QED
    BY <1>1, <1>2, <1>3

LEMMA ClientStep == ClientOK /\ ServerInv /\ [Next]_vars => ClientOK'
  <1> SUFFICES ASSUME ClientOK, ServerInv, [Next]_vars PROVE ClientOK'
    OBVIOUS
  <1>1. ASSUME NEW p \in Tabs, Mount(p) PROVE ClientOK'
    <2>1. TooLate \subseteq Tokens
      BY DEF TooLate, ClientOK, Pairs
    <2>2. QED
      BY <1>1, <2>1, BootstrappedPage, UnboundRuns DEF Mount, ClientOK
  <1>2. ASSUME NEW p \in Tabs, Effects(p) PROVE ClientOK'
    <2>1. /\ run' \in [Runs -> Run \union {NoRun}]
          /\ fetch' \in [Calls -> Fetch \union {NoFetch}]
      <3>1. HandleLoadWorkspaces \in Plans
        BY DEF Plans, OnButton
      <3>2. QED
        BY <1>2, <3>1, SavedPage, Started DEF ClientOK
    <2>2. stored' \in Pairs
      BY <1>2 DEF Effects, ClientOK, Page
    <2>3. QED
      BY <1>2, <2>1, <2>2, SavedPage DEF Effects, ClientOK
  <1>3. ASSUME NEW p \in Tabs, Reload(p) PROVE ClientOK'
    <2>1. page' \in [Tabs -> Page]
      BY <1>3, BootstrappedPage DEF Reload
    <2>2. QED
      BY <1>3, <2>1, Reloaded DEF Reload, ClientOK
  <1>4. ASSUME NEW p \in Tabs, Logout(p) PROVE ClientOK'
    BY <1>4, SignedOutPage DEF Logout, ClientOK, Pairs
  <1>5. ASSUME NEW p \in Tabs, Leave(p) PROVE ClientOK'
    BY <1>5, PageLeft, UnboundRuns DEF Leave, ClientOK
  <1>6. ASSUME NEW p \in Tabs, NEW k \in Runs, Submit(p, k) PROVE ClientOK'
    BY <1>6, Submitted, LoadingPage DEF Submit, ClientOK
  <1>7. ASSUME NEW p \in Tabs, NEW k \in Runs, Click(p, k) PROVE ClientOK'
    <2>1. PICK plan \in Plans : Start(p, k, plan)
      BY <1>7 DEF Click, Plans
    <2>2. QED
      BY <1>7, <2>1, Started, LoadingPage DEF Click, ClientOK
  <1>8. ASSUME NEW k \in Runs, Proceed(k) PROVE ClientOK'
    BY <1>8, Proceeded DEF Proceed, ClientOK
  <1>9. ASSUME NEW c \in Calls, Answer(c) PROVE ClientOK'
    <2>1. fetch[c] \in Fetch
      BY <1>9, Phases DEF Answer
    <2>2. QED
      BY <1>9, <2>1, Resolved DEF Answer, ClientOK
  <1>10. ASSUME NEW c \in Calls, BeginRefresh(c) PROVE ClientOK'
    <2> DEFINE new == [phase |-> "wait", pair |-> fetch[c].pair, mayRefresh |-> FALSE]
    <2>1. fetch' = [fetch EXCEPT ![c] = new] /\ fetch[c].pair \in stale
      BY <1>10 DEF BeginRefresh
    <2>2. new \in Fetch
      BY <2>1 DEF Fetch, Pairs, ClientOK
    <2> HIDE DEF new
    <2>3. QED
      BY <1>10, <2>1, <2>2 DEF BeginRefresh, ClientOK
  <1>11. ASSUME NEW c \in Calls, Deliver(c) PROVE ClientOK'
    <2>1. fetch[c] \in Fetch
      BY <1>11, Delivered
    <2>2. CASE reply[c] = Failed /\ Resolve(c, "failed") /\ UNCHANGED <<stored, page, strayed>>
      BY <1>11, <2>1, <2>2, Delivered, Resolved DEF Deliver, ClientOK
    <2>3. CASE /\ reply[c] \in Tokens /\ stored' = reply[c] /\ Resolve(c, "ok")
               /\ UNCHANGED <<page, strayed>>
      BY <1>11, <2>1, <2>3, Delivered, Resolved DEF Deliver, ClientOK, Pairs
    <2>4. CASE /\ reply[c] \in Tokens /\ fetch[c].pair \in Tokens
               /\ Refreshed(c, reply[c]) /\ UNCHANGED run
               /\ fetch' \in [Calls -> Fetch \union {NoFetch}]
      <3>1. page' \in [Tabs -> Page]
        BY <2>4, RefreshedPage
      <3>2. strayed' \subseteq Tokens /\ stored' = stored
        BY <2>4 DEF Refreshed, ClientOK
      <3>3. QED
        BY <1>11, <2>4, <3>1, <3>2, Delivered DEF Deliver, ClientOK
    <2>5. QED
      BY <1>11, <2>2, <2>3, <2>4, Delivered
  <1>12. ASSUME NEW c \in Calls, Lose(c) PROVE ClientOK'
    <2>1. fetch[c] \in Fetch
      BY <1>12, Phases DEF Lose
    <2>2. strayed' \subseteq Tokens
      BY <1>12, <2>1 DEF Lose, ClientOK, Fetch, Pairs
    <2>3. reply' \in [Calls -> Pairs \union {Failed}]
      BY <1>12 DEF Lose, ClientOK, Pairs
    <2>4. QED
      BY <1>12, <2>1, <2>2, <2>3, Resolved DEF Lose, ClientOK
  <1>13. ASSUME NEW c \in Calls, ServeQuery(c) \/ ServeTokens(c) \/ ServerCrash(c)
         PROVE  ClientOK'
    BY <1>13, ServerReplies DEF ClientOK, client
  <1>14. ASSUME NEW t \in Tokens, AccessExpires(t) PROVE ClientOK'
    BY <1>14 DEF AccessExpires, client, ClientOK
  <1>15. CASE UNCHANGED vars
    BY <1>15 DEF vars, client, ClientOK
  <1>16. QED
    BY <1>1, <1>2, <1>3, <1>4, <1>5, <1>6, <1>7, <1>8, <1>9, <1>10, <1>11, <1>12, <1>13,
       <1>14, <1>15 DEF Next

LEMMA ClientInvariant == Spec => [](ClientOK /\ ServerInv)
  <1>1. Init => ClientOK
    <2>1. LoginPage \in Page /\ NoPair \in Pairs
      BY DEF LoginPage, Page, Pairs
    <2>2. QED
      BY <2>1 DEF Init, ClientOK
  <1>2. QED
    BY <1>1, ClientStep, ServerInvariant, PTL DEF Spec

\* The tabs, their handlers and the server keep their types.
THEOREM TypeCorrect == Spec => []TypeOK
  <1>1. ClientOK /\ ServerInv => TypeOK
    BY DEF ClientOK, ServerInv, TypeOK
  <1>2. QED
    BY <1>1, ClientInvariant, PTL

-----------------------------------------------------------------------------
(* Work in progress, and signing out                                       *)

\* A page with something to save has a pair to save.
UnsavedPairs == \A p \in Tabs : page[p].unsaved # "no" => page[p].pair # NoPair

\* A handler at work has its first request out.
ActiveRunsAsk == \A k \in Runs : Active(k) => fetch[<<k, 1>>] # NoFetch

\* After a final logout nothing is in flight that could bring a pair back.
NothingLeft == signedOut => \A c \in Calls : fetch[c] = NoFetch

BrowserInv == LoadingMeansWork /\ UnsavedPairs /\ ActiveRunsAsk /\ LogoutIsFinal /\ NothingLeft

\* A page keeps showing that it loads for a run that is still bound to it.
Works(p, k) == run[k].tab = p /\ run[k].bound /\ Active(k)

LEMMA LoadingWorks ==
  ASSUME ClientOK
  PROVE  LoadingMeansWork <=> \A p \in Tabs : page[p].loading => \E k \in Runs : Works(p, k)
  BY DEF LoadingMeansWork, RunsOf, Works, Active, NoRun

\* Who worked goes on, and nobody else begins to show that it loads.
LEMMA LoadingStep ==
  ASSUME ClientOK, ClientOK', LoadingMeansWork,
         \A p \in Tabs : page'[p].loading =>
           \/ \E k \in Runs : Works(p, k)'
           \/ page[p].loading /\ \A k \in Runs : Works(p, k) => Works(p, k)'
  PROVE  LoadingMeansWork'
  <1>1. \A p \in Tabs : page[p].loading => \E k \in Runs : Works(p, k)
    BY LoadingWorks
  <1>2. \A p \in Tabs : page'[p].loading => \E k \in Runs : Works(p, k)'
    BY <1>1
  <1>3. (LoadingMeansWork <=>
           \A p \in Tabs : page[p].loading => \E k \in Runs : Works(p, k))'
    BY DEF ClientOK, LoadingMeansWork, RunsOf, Works, Active, NoRun
  <1>4. QED
    BY <1>2, <1>3

LEMMA LoadingNext ==
  ASSUME ClientOK, ClientOK', ServerInv, LoadingMeansWork, [Next]_vars
  PROVE  LoadingMeansWork'
  <1>1. ASSUME NEW p \in Tabs, Mount(p) PROVE LoadingMeansWork'
    <2>1. \A q \in Tabs, k \in Runs : q # p /\ Works(q, k) => Works(q, k)'
      BY <1>1, UnboundRuns DEF Mount, Works, Active
    <2>2. QED
      BY <1>1, <2>1, BootstrappedPage, LoadingStep DEF Mount
  <1>2. ASSUME NEW p \in Tabs, Effects(p) PROVE LoadingMeansWork'
    <2>1. CASE \E k \in Runs : Start(p, k, HandleLoadWorkspaces)
      <3>1. PICK k \in Runs : Start(p, k, HandleLoadWorkspaces)
        BY <2>1
      <3>2. HandleLoadWorkspaces \in Plans
        BY DEF Plans, OnButton
      <3>3. Works(p, k)' /\ \A q \in Tabs, j \in Runs : Works(q, j) => Works(q, j)'
        BY <3>1, <3>2, Started DEF Works, Active
      <3>4. QED
        BY <1>2, <3>3, SavedPage, LoadingStep
    <2>2. CASE page'[p].loading = page[p].loading /\ UNCHANGED <<run, fetch>>
      <3>1. \A q \in Tabs, j \in Runs : Works(q, j) => Works(q, j)'
        BY <2>2 DEF Works, Active
      <3>2. \A q \in Tabs : page'[q].loading = page[q].loading
        BY <1>2, <2>2, SavedPage
      <3>3. QED
        BY <3>1, <3>2, LoadingStep
    <2>3. QED
      BY <1>2, <2>1, <2>2, SavedPage
  <1>3. ASSUME NEW p \in Tabs, Reload(p) PROVE LoadingMeansWork'
    <2>1. \A q \in Tabs, k \in Runs : q # p /\ Works(q, k) => Works(q, k)'
      <3>1. ASSUME NEW q \in Tabs, NEW k \in Runs, q # p, Works(q, k) PROVE Works(q, k)'
        <4>1. run[k] # NoRun /\ run[k].tab # p
          BY <3>1 DEF Works, Active, NoRun
        <4>2. run'[k] = run[k]
          BY <1>3, <4>1 DEF Reload, RunsOf
        <4>3. QED
          BY <3>1, <4>2 DEF Works, Active
      <3>2. QED
        BY <3>1
    <2>2. \A q \in Tabs \ {p} : page'[q] = page[q]
      BY <1>3, BootstrappedPage DEF Reload
    <2>3. ~page'[p].loading
      BY <1>3, BootstrappedPage DEF Reload
    <2>4. QED
      BY <2>1, <2>2, <2>3, LoadingStep
  <1>4. ASSUME NEW p \in Tabs, Logout(p) PROVE LoadingMeansWork'
    <2>1. \A q \in Tabs, j \in Runs : Works(q, j) => Works(q, j)'
      BY <1>4 DEF Logout, Works, Active
    <2>2. QED
      BY <1>4, <2>1, SignedOutPage, LoadingStep DEF Logout
  <1>5. ASSUME NEW p \in Tabs, Leave(p) PROVE LoadingMeansWork'
    <2>1. \A q \in Tabs, k \in Runs : q # p /\ Works(q, k) => Works(q, k)'
      BY <1>5, UnboundRuns DEF Leave, Works, Active
    <2>2. QED
      BY <1>5, <2>1, PageLeft, LoadingStep DEF Leave
  <1>6. ASSUME NEW p \in Tabs, NEW k \in Runs, Submit(p, k) PROVE LoadingMeansWork'
    <2>1. Works(p, k)' /\ \A q \in Tabs, j \in Runs : Works(q, j) => Works(q, j)'
      BY <1>6, Submitted DEF Works, Active
    <2>2. QED
      BY <1>6, <2>1, LoadingPage, LoadingStep DEF Submit
  <1>7. ASSUME NEW p \in Tabs, NEW k \in Runs, Click(p, k) PROVE LoadingMeansWork'
    <2>1. PICK plan \in Plans : Start(p, k, plan)
      BY <1>7 DEF Click, Plans
    <2>2. Works(p, k)' /\ \A q \in Tabs, j \in Runs : Works(q, j) => Works(q, j)'
      BY <2>1, Started DEF Works, Active
    <2>3. QED
      BY <1>7, <2>2, LoadingPage, LoadingStep DEF Click
  <1>8. ASSUME NEW k \in Runs, Proceed(k) PROVE LoadingMeansWork'
    <2>1. ASSUME NEW q \in Tabs, page'[q].loading, NEW j \in Runs, Works(q, j)
          PROVE  Works(q, j)'
      <3>1. CASE j # k
        BY <1>8, <2>1, <3>1, Proceeded DEF Works, Active
      <3>2. CASE j = k
        <4>1. run'[k].left # <<>>
          BY <1>8, <2>1, <3>2, Proceeded DEF Works
        <4>2. run'[k] # NoRun
          BY <4>1 DEF NoRun
        <4>3. QED
          BY <1>8, <2>1, <3>2, <4>1, <4>2, Proceeded DEF Works, Active
      <3>3. QED
        BY <3>1, <3>2
    <2>2. \A q \in Tabs : page'[q].loading => page[q].loading
      BY <1>8, Proceeded
    <2>3. QED
      BY <2>1, <2>2, LoadingStep
  <1>9. ASSUME NEW c \in Calls, Answer(c) \/ Deliver(c) \/ Lose(c)
        PROVE  LoadingMeansWork'
    <2>1. fetch[c] \in Fetch
      BY <1>9, Phases DEF Answer, Deliver, Lose
    <2>2. \A q \in Tabs, j \in Runs : Works(q, j) => Works(q, j)'
      BY <1>9, <2>1, Resolved, Delivered DEF Answer, Lose, Works, Active
    <2>3. \A q \in Tabs : page'[q].loading = page[q].loading
      BY <1>9, Delivered, RefreshedPage DEF Answer, Lose
    <2>4. QED
      BY <2>2, <2>3, LoadingStep
  <1>10. ASSUME UNCHANGED <<page, run>> PROVE LoadingMeansWork'
    BY <1>10 DEF LoadingMeansWork, RunsOf, Active
  <1>11. ASSUME NEW c \in Calls,
                BeginRefresh(c) \/ ServeQuery(c) \/ ServeTokens(c) \/ ServerCrash(c)
         PROVE  LoadingMeansWork'
    BY <1>10, <1>11 DEF BeginRefresh, ServeQuery, ServeTokens, ServerCrash, client
  <1>12. ASSUME NEW t \in Tokens, AccessExpires(t) PROVE LoadingMeansWork'
    BY <1>10, <1>12 DEF AccessExpires, client
  <1>13. CASE UNCHANGED vars
    BY <1>10, <1>13 DEF vars, client
  <1>14. QED
    BY <1>1, <1>2, <1>3, <1>4, <1>5, <1>6, <1>7, <1>8, <1>9, <1>11, <1>12, <1>13 DEF Next

LEMMA UnsavedNext ==
  ASSUME ClientOK, ServerInv, UnsavedPairs, [Next]_vars
  PROVE  UnsavedPairs'
  <1>1. ASSUME NEW p \in Tabs, Mount(p) \/ Reload(p) PROVE UnsavedPairs'
    BY <1>1, BootstrappedPage DEF Mount, Reload, UnsavedPairs
  <1>2. ASSUME NEW p \in Tabs, Effects(p) PROVE UnsavedPairs'
    BY <1>2, SavedPage DEF UnsavedPairs
  <1>3. ASSUME NEW p \in Tabs, Logout(p) PROVE UnsavedPairs'
    BY <1>3, SignedOutPage DEF Logout, Ready, UnsavedPairs
  <1>4. ASSUME NEW p \in Tabs, Leave(p) PROVE UnsavedPairs'
    BY <1>4, PageLeft DEF Leave, UnsavedPairs
  <1>5. ASSUME NEW p \in Tabs, NEW k \in Runs, Submit(p, k) \/ Click(p, k)
        PROVE  UnsavedPairs'
    BY <1>5, LoadingPage DEF Submit, Click, UnsavedPairs
  <1>6. ASSUME NEW k \in Runs, Proceed(k) PROVE UnsavedPairs'
    <2>1. \A p \in Tabs : page'[p].pair = page[p].pair /\ page'[p].unsaved = page[p].unsaved
      BY <1>6, Proceeded
    <2>2. QED
      BY <2>1 DEF UnsavedPairs
  <1>7. ASSUME NEW c \in Calls, Deliver(c) PROVE UnsavedPairs'
    <2>1. CASE page' = page
      BY <2>1 DEF UnsavedPairs
    <2>2. CASE reply[c] \in Tokens /\ Refreshed(c, reply[c])
      BY <2>2, RefreshedPage, PairsAreNamed DEF UnsavedPairs
    <2>3. QED
      BY <1>7, <2>1, <2>2, Delivered
  <1>8. CASE page' = page
    BY <1>8 DEF UnsavedPairs
  <1>9. ASSUME NEW c \in Calls,
               Answer(c) \/ BeginRefresh(c) \/ Lose(c) \/ ServeQuery(c) \/ ServeTokens(c)
                 \/ ServerCrash(c)
        PROVE  UnsavedPairs'
    BY <1>8, <1>9 DEF Answer, BeginRefresh, Lose, ServeQuery, ServeTokens, ServerCrash, client
  <1>10. ASSUME NEW t \in Tokens, AccessExpires(t) PROVE UnsavedPairs'
    BY <1>8, <1>10 DEF AccessExpires, client
  <1>11. CASE UNCHANGED vars
    BY <1>8, <1>11 DEF vars, client
  <1>12. QED
    BY <1>1, <1>2, <1>3, <1>4, <1>5, <1>6, <1>7, <1>9, <1>10, <1>11 DEF Next

\* A run keeps asking as long as it is the same run and its request stays.
LEMMA AskingStep ==
  ASSUME ActiveRunsAsk,
         \A k \in Runs : run'[k].left # <<>> =>
           \/ fetch'[<<k, 1>>] # NoFetch
           \/ run'[k].left = run[k].left /\ fetch'[<<k, 1>>] = fetch[<<k, 1>>]
  PROVE  ActiveRunsAsk'
  BY DEF ActiveRunsAsk, Active

LEMMA AskingNext ==
  ASSUME ClientOK, ServerInv, ActiveRunsAsk, [Next]_vars
  PROVE  ActiveRunsAsk'
  <1> DEFINE Asks(k) == \/ fetch'[<<k, 1>>] # NoFetch
                        \/ run'[k].left = run[k].left /\ fetch'[<<k, 1>>] = fetch[<<k, 1>>]
  <1>1. ASSUME NEW p \in Tabs, Mount(p) \/ Leave(p) PROVE ActiveRunsAsk'
    BY <1>1, UnboundRuns, AskingStep DEF Mount, Leave
  <1>2. ASSUME NEW p \in Tabs, NEW j \in Runs, NEW plan \in Plans, Start(p, j, plan)
        PROVE  ActiveRunsAsk'
    <2>1. ASSUME NEW k \in Runs PROVE Asks(k)
      <3>1. CASE k = j
        <4>1. fetch'[<<j, 1>>].phase = "send"
          BY <1>2, Started
        <4>2. QED
          BY <3>1, <4>1 DEF NoFetch
      <3>2. CASE k # j
        <4>1. <<k, 1>> \in Calls /\ <<k, 1>>[1] # j
          BY <3>2, FirstCall
        <4>2. run'[k] = run[k]
          BY <1>2, <3>2, Started
        <4>3. fetch'[<<k, 1>>] = fetch[<<k, 1>>]
          BY <1>2, <4>1, Started
        <4>4. QED
          BY <4>2, <4>3
      <3>3. QED
        BY <3>1, <3>2
    <2>2. QED
      BY <2>1, AskingStep
  <1>3. ASSUME NEW p \in Tabs, Reload(p) PROVE ActiveRunsAsk'
    <2>1. ASSUME NEW k \in Runs, run'[k].left # <<>> PROVE Asks(k)
      <3>1. run'[k] # NoRun
        BY <2>1 DEF NoRun
      <3>2. <<k, 1>> \in Calls /\ <<k, 1>>[1] = k
        BY FirstCall
      <3>3. QED
        BY <1>3, <3>1, <3>2, Reloaded
    <2>2. QED
      BY <2>1, AskingStep
  <1>4. ASSUME NEW p \in Tabs, NEW j \in Runs, Submit(p, j) PROVE ActiveRunsAsk'
    <2>1. ASSUME NEW k \in Runs PROVE Asks(k)
      <3>1. CASE k = j
        <4>1. fetch'[<<j, 1>>].phase = "wait"
          BY <1>4, Submitted
        <4>2. QED
          BY <3>1, <4>1 DEF NoFetch
      <3>2. CASE k # j
        <4>1. <<k, 1>> \in Calls \ {<<j, 1>>}
          BY <3>2, FirstCall
        <4>2. run'[k] = run[k]
          BY <1>4, <3>2, Submitted
        <4>3. fetch'[<<k, 1>>] = fetch[<<k, 1>>]
          BY <1>4, <4>1, Submitted
        <4>4. QED
          BY <4>2, <4>3
      <3>3. QED
        BY <3>1, <3>2
    <2>2. QED
      BY <2>1, AskingStep
  <1>5. ASSUME NEW j \in Runs, Proceed(j) PROVE ActiveRunsAsk'
    <2>1. ASSUME NEW k \in Runs, run'[k].left # <<>> PROVE Asks(k)
      <3>1. CASE k = j
        <4>1. fetch'[<<j, 1>>].phase = "send"
          BY <1>5, <2>1, <3>1, Proceeded
        <4>2. QED
          BY <3>1, <4>1 DEF NoFetch
      <3>2. CASE k # j
        <4>1. <<k, 1>> \in Calls /\ <<k, 1>>[1] # j
          BY <3>2, FirstCall
        <4>2. run'[k] = run[k]
          BY <1>5, <3>2, Proceeded
        <4>3. fetch'[<<k, 1>>] = fetch[<<k, 1>>]
          BY <1>5, <4>1, Proceeded
        <4>4. QED
          BY <4>2, <4>3
      <3>3. QED
        BY <3>1, <3>2
    <2>2. QED
      BY <2>1, AskingStep
  <1>6. ASSUME NEW c \in Calls, fetch[c] \in Fetch,
               Resolve(c, "ok") \/ Resolve(c, "failed")
        PROVE  ActiveRunsAsk'
    <2>1. ASSUME NEW k \in Runs, run'[k].left # <<>> PROVE Asks(k)
      <3>1. run'[k] = run[k] /\ Active(k)
        BY <1>6, <2>1, Resolved DEF NoRun, Active
      <3>2. CASE <<k, 1>> = c
        <4>1. c[1] = k
          BY <3>2, FirstCall
        <4>2. fetch'[c].phase \in {"ok", "failed"}
          BY <1>6, <3>1, <4>1, Resolved
        <4>3. QED
          BY <3>2, <4>2 DEF NoFetch
      <3>3. CASE <<k, 1>> # c
        BY <1>6, <3>1, <3>3, FirstCall, Resolved
      <3>4. QED
        BY <3>2, <3>3
    <2>2. QED
      BY <2>1, AskingStep
  <1>7. ASSUME NEW c \in Calls, \A d \in Calls \ {c} : fetch'[d] = fetch[d],
               fetch'[c] # NoFetch, run' = run
        PROVE  ActiveRunsAsk'
    BY <1>7, FirstCall, AskingStep
  <1>8. ASSUME UNCHANGED <<run, fetch>> PROVE ActiveRunsAsk'
    BY <1>8, AskingStep
  <1>9. ASSUME NEW p \in Tabs, Effects(p) PROVE ActiveRunsAsk'
    <2>1. HandleLoadWorkspaces \in Plans
      BY DEF Plans, OnButton
    <2>2. QED
      BY <1>2, <1>8, <1>9, <2>1, SavedPage
  <1>10. ASSUME NEW p \in Tabs, NEW k \in Runs, Click(p, k) PROVE ActiveRunsAsk'
    BY <1>2, <1>10 DEF Click, Plans
  <1>11. ASSUME NEW c \in Calls, Answer(c) \/ Lose(c) PROVE ActiveRunsAsk'
    BY <1>6, <1>11, Phases DEF Answer, Lose
  <1>12. ASSUME NEW c \in Calls, BeginRefresh(c) PROVE ActiveRunsAsk'
    <2>1. fetch'[c].phase = "wait" /\ \A d \in Calls \ {c} : fetch'[d] = fetch[d]
      BY <1>12 DEF BeginRefresh, ClientOK
    <2>2. QED
      BY <1>7, <1>12, <2>1 DEF BeginRefresh, NoFetch
  <1>13. ASSUME NEW c \in Calls, Deliver(c) PROVE ActiveRunsAsk'
    <2>1. CASE fetch'[c].phase = "send" /\ UNCHANGED run
               /\ \A d \in Calls \ {c} : fetch'[d] = fetch[d]
      BY <1>7, <2>1 DEF NoFetch
    <2>2. QED
      BY <1>6, <1>13, <2>1, Delivered
  <1>14. ASSUME NEW p \in Tabs, Logout(p) PROVE ActiveRunsAsk'
    BY <1>8, <1>14 DEF Logout
  <1>15. ASSUME NEW c \in Calls, ServeQuery(c) \/ ServeTokens(c) \/ ServerCrash(c)
         PROVE  ActiveRunsAsk'
    BY <1>8, <1>15 DEF ServeQuery, ServeTokens, ServerCrash, client
  <1>16. ASSUME NEW t \in Tokens, AccessExpires(t) PROVE ActiveRunsAsk'
    BY <1>8, <1>16 DEF AccessExpires, client
  <1>17. CASE UNCHANGED vars
    BY <1>8, <1>17 DEF vars, client
  <1>18. QED
    BY <1>1, <1>3, <1>4, <1>5, <1>9, <1>10, <1>11, <1>12, <1>13, <1>14, <1>15, <1>16, <1>17
       DEF Next

\* After a final logout only a submission or another logout does anything to it.
LEMMA SignedOutStep ==
  ASSUME LogoutIsFinal, NothingLeft, signedOut' = signedOut,
         signedOut => /\ stored' = NoPair
                      /\ \A p \in Tabs : page'[p].pair = NoPair
                      /\ \A c \in Calls : fetch'[c] = NoFetch
  PROVE  LogoutIsFinal' /\ NothingLeft'
  BY DEF LogoutIsFinal, NothingLeft

LEMMA SignedOutNext ==
  ASSUME ClientOK, ServerInv, UnsavedPairs, ActiveRunsAsk, LogoutIsFinal, NothingLeft,
         [Next]_vars
  PROVE  LogoutIsFinal' /\ NothingLeft'
  <1> DEFINE Out == /\ stored = NoPair /\ \A p \in Tabs : page[p].pair = NoPair
                    /\ \A c \in Calls : fetch[c] = NoFetch /\ fetch[c].phase = "idle"
  <1>1. signedOut => Out
    BY DEF LogoutIsFinal, NothingLeft, NoFetch
  <1>2. ASSUME NEW p \in Tabs, Mount(p) PROVE LogoutIsFinal' /\ NothingLeft'
    BY <1>1, <1>2, BootstrappedPage, SignedOutStep DEF Mount
  <1>3. ASSUME NEW p \in Tabs, Effects(p) PROVE LogoutIsFinal' /\ NothingLeft'
    <2>1. ~signedOut
      BY <1>1, <1>3 DEF Effects, UnsavedPairs
    <2>2. QED
      BY <1>3, <2>1, SignedOutStep DEF Effects
  <1>4. ASSUME NEW p \in Tabs, Reload(p) PROVE LogoutIsFinal' /\ NothingLeft'
    <2>1. page' = [page EXCEPT ![p] = Bootstrapped] /\ UNCHANGED <<stored, signedOut>>
      BY <1>4 DEF Reload
    <2>2. \A c \in Calls : fetch'[c] \in {fetch[c], NoFetch}
      BY <1>4, Reloaded
    <2>3. QED
      BY <1>1, <2>1, <2>2, BootstrappedPage, SignedOutStep
  <1>5. ASSUME NEW p \in Tabs, Logout(p) PROVE LogoutIsFinal' /\ NothingLeft'
    <2>1. /\ stored' = NoPair /\ fetch' = fetch
          /\ signedOut' = (/\ \A c \in Calls : fetch[c] = NoFetch
                           /\ \A q \in Tabs \ {p} : page[q].pair = NoPair)
      BY <1>5 DEF Logout
    <2>2. page'[p].pair = NoPair /\ \A q \in Tabs \ {p} : page'[q] = page[q]
      BY <1>5, SignedOutPage DEF Logout
    <2>3. QED
      BY <2>1, <2>2 DEF LogoutIsFinal, NothingLeft
  <1>6. ASSUME NEW p \in Tabs, Leave(p) PROVE LogoutIsFinal' /\ NothingLeft'
    BY <1>1, <1>6, PageLeft, SignedOutStep DEF Leave
  <1>7. ASSUME NEW p \in Tabs, NEW k \in Runs, Submit(p, k)
        PROVE  LogoutIsFinal' /\ NothingLeft'
    BY <1>7 DEF Submit, LogoutIsFinal, NothingLeft
  <1>8. ASSUME NEW p \in Tabs, NEW k \in Runs, Click(p, k)
        PROVE  LogoutIsFinal' /\ NothingLeft'
    BY <1>1, <1>8, SignedOutStep DEF Click
  <1>9. ASSUME NEW k \in Runs, Proceed(k) PROVE LogoutIsFinal' /\ NothingLeft'
    <2>1. ~signedOut
      BY <1>1, <1>9, FirstCall DEF Proceed, ActiveRunsAsk
    <2>2. QED
      BY <1>9, <2>1, SignedOutStep DEF Proceed
  <1>10. ASSUME NEW c \in Calls, Answer(c) \/ BeginRefresh(c) \/ Deliver(c) \/ Lose(c)
         PROVE  LogoutIsFinal' /\ NothingLeft'
    <2>1. fetch[c].phase # "idle"
      BY <1>10 DEF Answer, BeginRefresh, Deliver, Lose
    <2>2. ~signedOut
      BY <1>1, <2>1
    <2>3. QED
      BY <1>10, <2>2, SignedOutStep DEF Answer, BeginRefresh, Deliver, Lose
  <1>11. ASSUME UNCHANGED <<stored, page, fetch, signedOut>>
         PROVE  LogoutIsFinal' /\ NothingLeft'
    BY <1>1, <1>11, SignedOutStep
  <1>12. ASSUME NEW c \in Calls, ServeQuery(c) \/ ServeTokens(c) \/ ServerCrash(c)
         PROVE  LogoutIsFinal' /\ NothingLeft'
    BY <1>11, <1>12 DEF ServeQuery, ServeTokens, ServerCrash, client
  <1>13. ASSUME NEW t \in Tokens, AccessExpires(t) PROVE LogoutIsFinal' /\ NothingLeft'
    BY <1>11, <1>13 DEF AccessExpires, client
  <1>14. CASE UNCHANGED vars
    BY <1>11, <1>14 DEF vars, client
  <1>15. QED
    BY <1>2, <1>3, <1>4, <1>5, <1>6, <1>7, <1>8, <1>9, <1>10, <1>12, <1>13, <1>14 DEF Next

LEMMA BrowserInvariant == Spec => []BrowserInv
  <1>1. Init => BrowserInv
    BY DEF Init, BrowserInv, LoadingMeansWork, UnsavedPairs, ActiveRunsAsk, LogoutIsFinal,
           NothingLeft, LoginPage, NoRun, Active
  <1>2. BrowserInv /\ ClientOK /\ ServerInv /\ ClientOK' /\ [Next]_vars => BrowserInv'
    BY LoadingNext, UnsavedNext, AskingNext, SignedOutNext DEF BrowserInv
  <1>3. QED
    BY <1>1, <1>2, ClientInvariant, PTL DEF Spec

\* A page shows that it loads only while a handler that belongs to it is at work,
\* whatever fails, whichever handlers overlap, and wherever the user goes meanwhile:
\* finally { setLoading(false) } is still to come.
THEOREM LoadingEnds == Spec => []LoadingMeansWork
  <1>1. BrowserInv => LoadingMeansWork
    BY DEF BrowserInv
  <1>2. QED
    BY <1>1, BrowserInvariant, PTL

\* Neither a late effect nor a reload undoes a logout that left nothing behind.
THEOREM FinalLogout == Spec => []LogoutIsFinal
  <1>1. BrowserInv => LogoutIsFinal
    BY DEF BrowserInv
  <1>2. QED
    BY <1>1, BrowserInvariant, PTL

-----------------------------------------------------------------------------
(* Requests and their runs                                                 *)

\* A request is a run's, and so is its answer: the run is there to be told.
RequestsHaveRuns == \A c \in Calls : fetch[c] # NoFetch => run[c[1]] # NoRun

LEMMA RequestsNext ==
  ASSUME ClientOK, RequestsHaveRuns, [Next]_vars
  PROVE  RequestsHaveRuns'
  <1> USE DEF RequestsHaveRuns
  <1>0. NoRun \notin Run
    BY DEF NoRun, Run
  <1>1. ASSUME NEW p \in Tabs, run' = Unbound(p), fetch' = fetch PROVE RequestsHaveRuns'
    <2>1. \A k \in Runs : Unbound(p)[k] = run[k] \/ Unbound(p)[k] \in Run
      BY UnboundRuns
    <2>2. QED
      BY <1>0, <1>1, <2>1, CallParts
  <1>2. ASSUME NEW p \in Tabs, NEW k \in Runs, NEW plan \in Plans, Start(p, k, plan)
        PROVE  RequestsHaveRuns'
    <2>1. run'[k] \in Run
      BY <1>2, Started
    <2>2. \A j \in Runs \ {k} : run'[j] = run[j]
      BY <1>2, Started
    <2>3. ASSUME NEW c \in Calls, c[1] # k PROVE fetch'[c] = fetch[c]
      BY <1>2, <2>3, Started
    <2>4. QED
      BY <1>0, <2>1, <2>2, <2>3, CallParts
  <1>3. ASSUME UNCHANGED <<run, fetch>> PROVE RequestsHaveRuns'
    BY <1>3
  <1>4. ASSUME NEW p \in Tabs, Mount(p) \/ Leave(p) PROVE RequestsHaveRuns'
    BY <1>1, <1>4 DEF Mount, Leave
  <1>5. ASSUME NEW p \in Tabs, Effects(p) PROVE RequestsHaveRuns'
    <2>1. HandleLoadWorkspaces \in Plans
      BY DEF Plans, OnButton
    <2>2. QED
      BY <1>2, <1>3, <1>5, <2>1, SavedPage
  <1>6. ASSUME NEW p \in Tabs, Reload(p) PROVE RequestsHaveRuns'
    BY <1>6, Reloaded
  <1>7. ASSUME NEW p \in Tabs, NEW k \in Runs, Click(p, k) PROVE RequestsHaveRuns'
    <2>1. PICK plan \in Plans : Start(p, k, plan)
      BY <1>7 DEF Click, Plans
    <2>2. QED
      BY <1>2, <2>1
  <1>8. ASSUME NEW p \in Tabs, NEW k \in Runs, Submit(p, k) PROVE RequestsHaveRuns'
    <2>1. /\ run'[k] \in Run /\ \A j \in Runs \ {k} : run'[j] = run[j]
          /\ \A c \in Calls \ {<<k, 1>>} : fetch'[c] = fetch[c]
      BY <1>8, Submitted
    <2>2. \A c \in Calls : c[1] # k => c # <<k, 1>>
      OBVIOUS
    <2>3. QED
      BY <1>0, <2>1, <2>2, CallParts
  <1>9. ASSUME NEW k \in Runs, Proceed(k) PROVE RequestsHaveRuns'
    <2>1. /\ run'[k] = NoRun => \A i \in Width : fetch'[<<k, i>>] = NoFetch
          /\ \A c \in Calls : c[1] # k => fetch'[c] = fetch[c]
          /\ \A j \in Runs \ {k} : run'[j] = run[j]
      BY <1>9, Proceeded
    <2>2. ASSUME NEW c \in Calls, c[1] = k, fetch'[c] # NoFetch PROVE run'[k] # NoRun
      BY <2>1, <2>2, CallParts
    <2>3. ASSUME NEW c \in Calls, c[1] # k, fetch'[c] # NoFetch PROVE run'[c[1]] # NoRun
      BY <2>1, <2>3, CallParts
    <2>4. QED
      BY <2>2, <2>3
  <1>10. ASSUME NEW c \in Calls, fetch[c] \in Fetch,
                Resolve(c, "ok") \/ Resolve(c, "failed")
         PROVE  RequestsHaveRuns'
    <2>1. fetch[c] # NoFetch
      BY <1>10 DEF Fetch, NoFetch
    <2>2. \A d \in Calls : fetch'[d] # NoFetch => fetch[d] # NoFetch
      BY <1>10, <2>1, Resolved
    <2>3. \A d \in Calls : run'[d[1]] = NoRun => run[d[1]] = NoRun \/ fetch'[d] = NoFetch
      BY <1>10, Resolved, CallParts
    <2>4. QED
      BY <2>2, <2>3
  <1>11. ASSUME NEW c \in Calls, Answer(c) \/ Lose(c) PROVE RequestsHaveRuns'
    BY <1>10, <1>11, Phases DEF Answer, Lose
  <1>12. ASSUME NEW c \in Calls, BeginRefresh(c) PROVE RequestsHaveRuns'
    <2>1. fetch[c] # NoFetch /\ run' = run
      BY <1>12 DEF BeginRefresh, NoFetch
    <2>2. \A d \in Calls \ {c} : fetch'[d] = fetch[d]
      BY <1>12 DEF BeginRefresh, ClientOK
    <2>3. QED
      BY <2>1, <2>2
  <1>13. ASSUME NEW c \in Calls, Deliver(c) PROVE RequestsHaveRuns'
    <2>1. fetch[c] \in Fetch /\ fetch[c] # NoFetch
      BY <1>13, Delivered DEF Fetch, NoFetch
    <2>2. CASE UNCHANGED run /\ \A d \in Calls \ {c} : fetch'[d] = fetch[d]
      BY <2>1, <2>2
    <2>3. QED
      BY <1>10, <1>13, <2>1, <2>2, Delivered
  <1>14. ASSUME NEW c \in Calls, ServeQuery(c) \/ ServeTokens(c) \/ ServerCrash(c)
         PROVE  RequestsHaveRuns'
    BY <1>3, <1>14 DEF ServeQuery, ServeTokens, ServerCrash, client
  <1>15. ASSUME NEW p \in Tabs, Logout(p) PROVE RequestsHaveRuns'
    BY <1>3, <1>15 DEF Logout
  <1>16. ASSUME NEW t \in Tokens, AccessExpires(t) PROVE RequestsHaveRuns'
    BY <1>3, <1>16 DEF AccessExpires, client
  <1>17. CASE UNCHANGED vars
    BY <1>3, <1>17 DEF vars, client
  <1>18. QED
    BY <1>4, <1>5, <1>6, <1>7, <1>8, <1>9, <1>11, <1>12, <1>13, <1>14, <1>15, <1>16, <1>17
       DEF Next

LEMMA RequestsInvariant == Spec => []RequestsHaveRuns
  <1>1. Init => RequestsHaveRuns
    BY DEF Init, RequestsHaveRuns
  <1>2. RequestsHaveRuns /\ ClientOK /\ [Next]_vars => RequestsHaveRuns'
    BY RequestsNext
  <1>3. QED
    BY <1>1, <1>2, ClientInvariant, PTL DEF Spec

-----------------------------------------------------------------------------
(* The pair of a page: the invariant                                       *)

\* Somebody has the pair, and may still present it.
Holds(t) ==
  \/ stored = t
  \/ \E p \in Tabs : page[p].pair = t
  \/ \E k \in Runs : run[k] # NoRun /\ run[k].pair = t
  \/ \E c \in Calls : fetch[c] # NoFetch /\ fetch[c].pair = t
  \/ \E c \in Calls : asked[c].token = t

\* What the server does for a call is what the call waits for, unless the call
\* was dropped; an answer finds somebody who waits for it.
Matches(c) ==
  /\ serving[c] # "idle" =>
       /\ reply[c] = NoPair
       /\ asked[c].op # "logout"
       /\ fetch[c].phase = "wait" => asked[c].token = fetch[c].pair
       /\ fetch[c].phase # "wait" => asked[c].token \in strayed \union {NoPair}
  /\ reply[c] # NoPair => fetch[c].phase = "wait"

CallsMatch == \A c \in Calls : Matches(c)

\* Only pairs that were issued are held.
HeldPairsIssued == \A t \in Tokens : Holds(t) => tokens[t].state # "unused"

\* A pair on its way is good, and nobody has it yet.
RepliesAreFresh ==
  \A c \in Calls : \A n \in Tokens : reply[c] = n =>
    /\ tokens[n].state = "live"
    /\ ~Holds(n)
    /\ \A d \in Calls : reply[d] = n => d = c

\* The exchange of the pair has gone through the server's delete.
Rescues(c, t) ==
  /\ fetch[c].phase = "wait" /\ fetch[c].pair = t
  /\ reply[c] \in Tokens \/ serving[c] = "issue"

Good(t) == tokens[t].state = "live" \/ \E c \in Calls : Rescues(c, t)

PagesAreRescued ==
  \A p \in Tabs : \A t \in Tokens \ strayed : page[p].pair = t => Good(t)

\* The pair in localStorage is good as well, or is about to be replaced.
StorageIsRescued ==
  \A t \in Tokens \ strayed : stored = t =>
    Good(t) \/ \E p \in Tabs : page[p].unsaved # "no"

SessionInv == /\ CallsMatch /\ HeldPairsIssued /\ RepliesAreFresh
              /\ PagesAreRescued /\ StorageIsRescued

-----------------------------------------------------------------------------
(* The pair of a page: four kinds of steps                                 *)

\* Pages that have something to save still have it.
UnsavedStays == \A p \in Tabs : page[p].unsaved # "no" => page'[p].unsaved # "no"

\* The browser alone.  A request that waits goes on waiting, or is dropped.
BrowserStep ==
  /\ UNCHANGED server
  /\ strayed \subseteq strayed'
  /\ \A c \in Calls :
       \/ /\ reply'[c] = reply[c]
          /\ fetch'[c] = fetch[c] \/ (fetch[c].phase # "wait" /\ fetch'[c].phase # "wait")
       \/ /\ reply'[c] = NoPair /\ fetch'[c].phase # "wait"
          /\ fetch[c].phase = "wait" => fetch[c].pair \in strayed' \union {NoPair}
  /\ \A p \in Tabs :
       \/ page'[p].pair \in {page[p].pair, NoPair}
       \/ /\ page'[p].pair = stored
          /\ stored \in Tokens /\ tokens[stored].state = "deleted" => stored \in strayed'
  /\ \/ stored' \in {stored, NoPair} /\ UnsavedStays
     \/ \E p \in Tabs : stored' = page[p].pair
  /\ \A t \in Tokens : Holds(t)' => Holds(t)

\* A call is put to the server.
AskStep(c) ==
  /\ serving[c] = "idle" /\ serving'[c] # "idle"
  /\ asked'[c].op # "logout" /\ asked'[c].token = fetch'[c].pair
  /\ fetch[c].phase # "wait" /\ fetch'[c].phase = "wait"
  /\ \A d \in Calls \ {c} : /\ serving'[d] = serving[d] /\ asked'[d] = asked[d]
                            /\ fetch'[d] = fetch[d]
  /\ UNCHANGED <<tokens, stored, reply, strayed>>
  /\ \A p \in Tabs : page'[p].pair = page[p].pair
  /\ UnsavedStays
  /\ \A t \in Tokens : Holds(t)' => Holds(t)

\* An answer arrives or is lost; who holds the old pair has a new one or strays.
ReceiveStep(c) ==
  /\ UNCHANGED server
  /\ strayed \subseteq strayed'
  /\ reply[c] # NoPair /\ reply'[c] = NoPair
  /\ fetch'[c].phase # "wait"
  /\ \A d \in Calls \ {c} : reply'[d] = reply[d] /\ fetch'[d] = fetch[d]
  /\ \A p \in Tabs : \/ page'[p].pair = page[p].pair
                     \/ page'[p].pair = reply[c] /\ reply[c] \in Tokens
  /\ reply[c] \in Tokens /\ fetch[c].pair \in Tokens =>
       \A p \in Tabs : page'[p].pair = fetch[c].pair =>
         fetch[c].pair \in strayed' \union {reply[c]}
  /\ stored' = stored \/ (stored' = reply[c] /\ reply[c] \in Tokens)
  /\ UnsavedStays
  /\ reply[c] \in Tokens /\ fetch[c].pair \in Tokens =>
       fetch[c].pair \in strayed' \/ \E p \in Tabs : page'[p].unsaved # "no"
  /\ \A t \in Tokens : Holds(t)' => Holds(t) \/ t = reply[c]

\* The server works on a call: it gives up, goes on, or issues a pair.
GivesUp(c) ==
  /\ serving'[c] = "idle" /\ tokens' = tokens
  /\ reply'[c] = IF fetch[c].phase = "wait" THEN Failed ELSE reply[c]
  /\ serving[c] = "issue" => asked[c].token \in strayed' \union {NoPair}

GoesOn(c) ==
  /\ serving[c] # "issue" /\ serving'[c] # "idle"
  /\ asked'[c] = asked[c] /\ reply'[c] = reply[c]
  /\ \A t \in Tokens :
       \/ tokens'[t] = tokens[t]
       \/ t = asked[c].token /\ serving'[c] = "issue" /\ tokens'[t].state # "unused"

Issues(c) ==
  /\ serving[c] = "issue" /\ serving'[c] = "idle"
  /\ \E n \in Tokens :
       /\ tokens[n].state = "unused" /\ tokens'[n].state = "live"
       /\ \A t \in Tokens \ {n} : tokens'[t] = tokens[t]
       /\ reply'[c] = IF fetch[c].phase = "wait" THEN n ELSE reply[c]

ServeStep(c) ==
  /\ UNCHANGED client
  /\ strayed \subseteq strayed'
  /\ serving[c] # "idle"
  /\ \A d \in Calls \ {c} : /\ serving'[d] = serving[d] /\ asked'[d] = asked[d]
                            /\ reply'[d] = reply[d]
  /\ \A t \in Tokens : Holds(t)' => Holds(t)
  /\ GivesUp(c) \/ GoesOn(c) \/ Issues(c)

\* Who holds a pair after a step held it before.
LEMMA HeldBefore ==
  ASSUME NEW t, Holds(t)',
         stored' = t => Holds(t),
         \A p \in Tabs : page'[p].pair = t => Holds(t),
         \A k \in Runs : run'[k] # NoRun /\ run'[k].pair = t => Holds(t),
         \A c \in Calls : fetch'[c] # NoFetch /\ fetch'[c].pair = t => Holds(t),
         \A c \in Calls : asked'[c].token = t => Holds(t)
  PROVE  Holds(t)
  BY DEF Holds

LEMMA MountSteps == ASSUME ClientOK, NEW p \in Tabs, Mount(p) PROVE BrowserStep
  <1>1. /\ \A q \in Tabs : \/ page'[q].pair = page[q].pair
                           \/ page'[q].pair = stored
        /\ stored \in Tokens /\ tokens[stored].state = "deleted" => stored \in strayed'
    BY BootstrappedPage, PairsAreNamed DEF Mount, TooLate
  <1>2. \A k \in Runs : run'[k] # NoRun => run[k] # NoRun /\ run'[k].pair = run[k].pair
    BY UnboundRuns DEF Mount, NoRun, Run
  <1>3. ASSUME NEW t \in Tokens, Holds(t)' PROVE Holds(t)
    BY <1>1, <1>2, <1>3, HeldBefore DEF Mount, Holds, server
  <1>4. UnsavedStays
    BY BootstrappedPage DEF Mount, Ready, UnsavedStays
  <1>5. QED
    BY <1>1, <1>3, <1>4 DEF Mount, BrowserStep

\* A handler that starts has the pair of its page.
LEMMA StartHolds ==
  ASSUME ClientOK, NEW p \in Tabs, NEW k \in Runs, NEW plan \in Plans, Start(p, k, plan),
         UNCHANGED server, stored' \in {stored, page[p].pair},
         \A q \in Tabs : page'[q].pair = page[q].pair
  PROVE  /\ \A t \in Tokens : Holds(t)' => Holds(t)
         /\ \A c \in Calls : \/ fetch'[c] = fetch[c]
                             \/ fetch[c].phase # "wait" /\ fetch'[c].phase # "wait"
  <1>1. /\ run'[k].pair = page[p].pair
        /\ \A j \in Runs \ {k} : run'[j] = run[j]
        /\ \A c \in Calls :
             /\ c[1] # k => fetch'[c] = fetch[c]
             /\ c[1] = k => /\ fetch[c] = NoFetch
                            /\ \/ fetch'[c] = NoFetch
                               \/ fetch'[c].phase = "send" /\ fetch'[c].pair = page[p].pair
    BY Started
  <1>2. \A j \in Runs : run'[j] = run[j] \/ run'[j].pair = page[p].pair
    BY <1>1
  <1>3. \A c \in Calls : fetch'[c] # NoFetch =>
          fetch'[c] = fetch[c] \/ fetch'[c].pair = page[p].pair
    BY <1>1
  <1>4. ASSUME NEW t \in Tokens, Holds(t)' PROVE Holds(t)
    BY <1>2, <1>3, <1>4, HeldBefore DEF Holds, server
  <1>5. \A c \in Calls : \/ fetch'[c] = fetch[c]
                         \/ fetch[c].phase # "wait" /\ fetch'[c].phase # "wait"
    BY <1>1 DEF NoFetch
  <1>6. QED
    BY <1>4, <1>5

LEMMA EffectsSteps == ASSUME ClientOK, NEW p \in Tabs, Effects(p) PROVE BrowserStep
  <1>1. \A q \in Tabs : page'[q].pair = page[q].pair
    BY SavedPage
  <1>2. UNCHANGED server /\ stored' = page[p].pair
    BY DEF Effects
  <1>3. CASE \E k \in Runs : Start(p, k, HandleLoadWorkspaces)
    <2>1. HandleLoadWorkspaces \in Plans
      BY DEF Plans, OnButton
    <2>2. QED
      BY <1>1, <1>2, <1>3, <2>1, StartHolds DEF Effects, BrowserStep
  <1>4. CASE UNCHANGED <<run, fetch>>
    <2>1. ASSUME NEW t \in Tokens, Holds(t)' PROVE Holds(t)
      BY <1>1, <1>2, <1>4, <2>1, HeldBefore DEF Holds, server
    <2>2. QED
      BY <1>1, <1>4, <2>1 DEF Effects, BrowserStep
  <1>5. QED
    BY <1>3, <1>4, SavedPage

LEMMA ClickSteps ==
  ASSUME ClientOK, NEW p \in Tabs, NEW k \in Runs, Click(p, k)
  PROVE  BrowserStep
  <1>1. PICK plan \in Plans : Start(p, k, plan)
    BY DEF Click, Plans
  <1>2. \A q \in Tabs : page'[q].pair = page[q].pair /\ page'[q].unsaved = page[q].unsaved
    BY LoadingPage DEF Click
  <1>3. QED
    BY <1>1, <1>2, StartHolds DEF Click, BrowserStep, UnsavedStays

LEMMA ReloadSteps == ASSUME ClientOK, NEW p \in Tabs, Reload(p) PROVE BrowserStep
  <1>1. \A q \in Tabs : page'[q].pair \in {page[q].pair, stored}
    BY BootstrappedPage DEF Reload
  <1>2. /\ \A k \in Runs : run'[k] # NoRun => run'[k] = run[k]
        /\ \A c \in Calls : fetch'[c] # NoFetch => fetch'[c] = fetch[c]
    BY Reloaded
  <1>3. ASSUME NEW t \in Tokens, Holds(t)' PROVE Holds(t)
    BY <1>1, <1>2, <1>3, HeldBefore DEF Reload, Holds, server
  <1>4. \A c \in Calls :
          \/ reply'[c] = reply[c] /\ fetch'[c] = fetch[c]
          \/ /\ reply'[c] = NoPair /\ fetch'[c].phase # "wait"
             /\ fetch[c].phase = "wait" => fetch[c].pair \in strayed' \union {NoPair}
    BY Reloaded DEF NoFetch
  <1>5. /\ strayed \subseteq strayed'
        /\ stored \in Tokens /\ tokens[stored].state = "deleted" => stored \in strayed'
    BY Reloaded
  <1>6. UnsavedStays
    BY BootstrappedPage DEF Reload, Ready, UnsavedStays
  <1>7. QED
    BY <1>1, <1>3, <1>4, <1>5, <1>6 DEF Reload, BrowserStep

LEMMA LeavingSteps ==
  ASSUME ClientOK, NEW p \in Tabs, Logout(p) \/ Leave(p)
  PROVE  BrowserStep
  <1>1. \A q \in Tabs : page'[q].pair \in {page[q].pair, NoPair}
    BY SignedOutPage, PageLeft DEF Logout, Leave
  <1>2. \A k \in Runs : run'[k] # NoRun => run[k] # NoRun /\ run'[k].pair = run[k].pair
    <2>1. CASE Logout(p)
      BY <2>1 DEF Logout
    <2>2. CASE Leave(p)
      BY <2>2, UnboundRuns DEF Leave, NoRun, Run
    <2>3. QED
      BY <2>1, <2>2
  <1>3. ASSUME NEW t \in Tokens, Holds(t)' PROVE Holds(t)
    BY <1>1, <1>2, <1>3, HeldBefore, PairsAreNamed DEF Logout, Leave, Holds, server
  <1>4. UnsavedStays
    BY SignedOutPage, PageLeft DEF Logout, Leave, Ready, UnsavedStays
  <1>5. QED
    BY <1>1, <1>3, <1>4 DEF Logout, Leave, BrowserStep

LEMMA ProceedSteps == ASSUME ClientOK, NEW k \in Runs, Proceed(k) PROVE BrowserStep
  <1>1. /\ \A p \in Tabs : page'[p].pair = page[p].pair /\ page'[p].unsaved = page[p].unsaved
        /\ run[k] \in Run
        /\ \A c \in Calls : \/ fetch'[c] = fetch[c]
                            \/ /\ c[1] = k /\ fetch[c].phase # "wait"
                               /\ \/ fetch'[c] = NoFetch
                                  \/ fetch'[c].phase = "send" /\ fetch'[c].pair = run[k].pair
        /\ \A j \in Runs \ {k} : run'[j] = run[j]
        /\ run'[k] = NoRun \/ run'[k].pair = run[k].pair
    BY Proceeded
  <1>2. run[k] # NoRun
    BY <1>1 DEF Run, NoRun
  <1>3. \A j \in Runs : run'[j] # NoRun => run[j] # NoRun /\ run'[j].pair = run[j].pair
    BY <1>1, <1>2
  <1>4. \A c \in Calls : fetch'[c] # NoFetch =>
          fetch'[c] = fetch[c] \/ fetch'[c].pair = run[k].pair
    BY <1>1
  <1>5. ASSUME NEW t \in Tokens, Holds(t)' PROVE Holds(t)
    BY <1>1, <1>2, <1>3, <1>4, <1>5, HeldBefore DEF Proceed, Holds, server
  <1>6. \A c \in Calls : \/ fetch'[c] = fetch[c]
                         \/ fetch[c].phase # "wait" /\ fetch'[c].phase # "wait"
    BY <1>1 DEF NoFetch
  <1>7. QED
    BY <1>1, <1>5, <1>6 DEF Proceed, BrowserStep, UnsavedStays

\* A request that has its result holds what it held, or nothing.
LEMMA ResolvedHolds ==
  ASSUME ClientOK, NEW c \in Calls, fetch[c] \in Fetch,
         Resolve(c, "ok") \/ Resolve(c, "failed")
  PROVE  /\ \A k \in Runs : run'[k] # NoRun => run'[k] = run[k]
         /\ \A d \in Calls : fetch'[d] # NoFetch =>
              fetch[d] # NoFetch /\ fetch'[d].pair = fetch[d].pair
         /\ \A d \in Calls \ {c} : fetch'[d] = fetch[d]
         /\ fetch'[c].phase # "wait"
  BY Resolved DEF NoFetch, Fetch

LEMMA AnswerSteps == ASSUME ClientOK, NEW c \in Calls, Answer(c) PROVE BrowserStep
  <1>1. /\ fetch[c] \in Fetch /\ fetch[c].phase = "send"
        /\ Resolve(c, "ok") \/ Resolve(c, "failed")
    BY Phases DEF Answer
  <1>2. ASSUME NEW t \in Tokens, Holds(t)' PROVE Holds(t)
    BY <1>1, <1>2, ResolvedHolds, HeldBefore DEF Answer, Holds, server
  <1>3. \A d \in Calls : \/ fetch'[d] = fetch[d]
                         \/ fetch[d].phase # "wait" /\ fetch'[d].phase # "wait"
    BY <1>1, ResolvedHolds
  <1>4. QED
    BY <1>2, <1>3 DEF Answer, BrowserStep, UnsavedStays

LEMMA SubmitSteps ==
  ASSUME ClientOK, ServerInv, NEW p \in Tabs, NEW k \in Runs, Submit(p, k)
  PROVE  \E c \in Calls : AskStep(c)
  <1> DEFINE c == <<k, 1>>
  <1>1. c \in Calls
    BY FirstCall
  <1>2. /\ serving[c] = "idle" /\ serving'[c] # "idle"
        /\ asked'[c].op # "logout" /\ asked'[c].token = NoPair
        /\ \A d \in Calls \ {c} : serving'[d] = serving[d] /\ asked'[d] = asked[d]
        /\ tokens' = tokens
    <2> DEFINE Asked(call, label) == /\ Auth!Begin(c, call, label) /\ label # "idle"
                                     /\ call.op # "logout" /\ call.token = NoPair
    <2>1. ASSUME Auth!BeginRegister(c) PROVE \E call, label : Asked(call, label)
      <3>1. PICK u : Asked([op |-> "register", user |-> u, token |-> Auth!NoToken,
                            session |-> Auth!NoToken], "insertUser")
        BY <2>1 DEF Auth!BeginRegister, NoPair
      <3>2. QED
        BY <3>1
    <2>2. ASSUME Auth!BeginLogin(c) PROVE \E call, label : Asked(call, label)
      <3>1. PICK u : Asked([op |-> "login", user |-> u, token |-> Auth!NoToken,
                            session |-> Auth!NoToken], "issue")
        BY <2>2 DEF Auth!BeginLogin, NoPair
      <3>2. QED
        BY <3>1
    <2>3. PICK call, label : Asked(call, label)
      <3>1. Auth!BeginRegister(c) \/ Auth!BeginLogin(c)
        BY DEF Submit
      <3>2. QED
        BY <2>1, <2>2, <3>1
    <2>4. QED
      BY <1>1, <2>3 DEF Auth!Begin, Auth!Goto, ServerInv, Auth!TypeOK
  <1>3. /\ \A d \in Calls \ {c} : fetch'[d] = fetch[d]
        /\ fetch[c] = NoFetch /\ fetch'[c].phase = "wait" /\ fetch'[c].pair = NoPair
        /\ run'[k].pair = NoPair /\ \A j \in Runs \ {k} : run'[j] = run[j]
    BY Submitted
  <1>4. \A q \in Tabs : page'[q].pair = page[q].pair /\ page'[q].unsaved = page[q].unsaved
    BY LoadingPage DEF Submit
  <1> HIDE DEF c
  <1>5. ASSUME NEW t \in Tokens, Holds(t)' PROVE Holds(t)
    <2>1. t # NoPair
      BY PairsAreNamed
    <2>2. \A j \in Runs : run'[j].pair = t => run'[j] = run[j]
      BY <1>3, <2>1
    <2>3. \A d \in Calls : /\ fetch'[d].pair = t => fetch'[d] = fetch[d]
                           /\ asked'[d].token = t => asked'[d] = asked[d]
      BY <1>2, <1>3, <2>1
    <2>4. stored' = stored
      BY DEF Submit
    <2>5. QED
      BY <1>4, <1>5, <2>2, <2>3, <2>4, HeldBefore DEF Holds
  <1>6. stored' = stored /\ reply' = reply /\ strayed' = strayed
    BY DEF Submit
  <1>7. AskStep(c)
    BY <1>2, <1>3, <1>4, <1>5, <1>6 DEF AskStep, NoFetch, UnsavedStays
  <1>8. QED
    BY <1>1, <1>7

LEMMA RefreshSteps ==
  ASSUME ClientOK, ServerInv, NEW c \in Calls, BeginRefresh(c)
  PROVE  AskStep(c)
  <1> DEFINE t == fetch[c].pair
  <1>1. fetch[c] # NoFetch /\ fetch[c].phase = "send"
    BY DEF BeginRefresh, NoFetch
  <1>2. /\ fetch'[c].phase = "wait" /\ fetch'[c].pair = t
        /\ \A d \in Calls \ {c} : fetch'[d] = fetch[d]
    BY DEF BeginRefresh, ClientOK
  <1>3. /\ serving[c] = "idle" /\ serving'[c] # "idle"
        /\ asked'[c].op # "logout" /\ asked'[c].token = t
        /\ \A d \in Calls \ {c} : serving'[d] = serving[d] /\ asked'[d] = asked[d]
        /\ tokens' = tokens
    <2>1. PICK call : /\ Auth!Begin(c, call, "findToken")
                      /\ call.op = "refresh" /\ call.token = t
      BY DEF BeginRefresh, Auth!BeginWithToken
    <2>2. QED
      BY <2>1 DEF Auth!Begin, Auth!Goto, ServerInv, Auth!TypeOK
  <1>4. UNCHANGED <<stored, page, run, reply, strayed>>
    BY DEF BeginRefresh
  <1> HIDE DEF t
  <1>5. Holds(t)
    BY <1>1 DEF Holds, t
  <1>6. ASSUME NEW u \in Tokens, Holds(u)' PROVE Holds(u)
    <2>1. \A d \in Calls : /\ fetch'[d] = fetch[d] \/ fetch'[d].pair = t
                           /\ asked'[d] = asked[d] \/ asked'[d].token = t
      BY <1>2, <1>3
    <2>2. QED
      BY <1>4, <1>5, <1>6, <2>1, HeldBefore DEF Holds
  <1>7. QED
    BY <1>1, <1>2, <1>3, <1>4, <1>6 DEF AskStep, UnsavedStays

LEMMA DeliverSteps ==
  ASSUME ClientOK, RequestsHaveRuns, NEW c \in Calls, Deliver(c)
  PROVE  ReceiveStep(c)
  <1> USE DEF ReceiveStep, UnsavedStays
  <1>1. /\ UNCHANGED server /\ fetch[c] \in Fetch
        /\ reply[c] # NoPair /\ reply'[c] = NoPair
        /\ \A d \in Calls \ {c} : reply'[d] = reply[d]
    BY Delivered DEF Deliver
  <1>2. CASE /\ reply[c] = Failed /\ Resolve(c, "failed")
             /\ UNCHANGED <<stored, page, strayed>>
    <2>1. ASSUME NEW t \in Tokens, Holds(t)' PROVE Holds(t)
      BY <1>1, <1>2, <2>1, ResolvedHolds, HeldBefore DEF Holds, server
    <2>2. reply[c] \notin Tokens
      BY <1>2, PairsAreNamed
    <2>3. QED
      BY <1>1, <1>2, <2>1, <2>2, ResolvedHolds
  <1>3. CASE /\ reply[c] \in Tokens /\ stored' = reply[c] /\ Resolve(c, "ok")
             /\ fetch[c].pair = NoPair
             /\ UNCHANGED <<page, strayed>>
    <2>1. ASSUME NEW t \in Tokens, t # reply[c], Holds(t)' PROVE Holds(t)
      BY <1>1, <1>3, <2>1, ResolvedHolds, HeldBefore DEF Holds, server
    <2>2. fetch[c].pair \notin Tokens
      BY <1>3, PairsAreNamed
    <2>3. QED
      BY <1>1, <1>3, <2>1, <2>2, ResolvedHolds
  <1>4. CASE /\ reply[c] \in Tokens /\ fetch[c].pair \in Tokens
             /\ Refreshed(c, reply[c]) /\ UNCHANGED run
             /\ fetch'[c].phase = "send" /\ fetch'[c].pair = reply[c]
             /\ \A d \in Calls \ {c} : fetch'[d] = fetch[d]
    <2> DEFINE old == fetch[c].pair
    <2>1. \A p \in Tabs : /\ p # TabOf(c) => page'[p] = page[p]
                          /\ \/ page'[p] = page[p]
                             \/ page'[p].pair = reply[c] /\ page'[p].unsaved # "no"
      BY <1>4, RefreshedPage
    <2>2. /\ stored' = stored
          /\ strayed' = strayed \union {t \in {old} : ~OnPage(c) \/
                                          \E q \in Tabs \ {TabOf(c)} : page[q].pair = old}
      BY <1>4 DEF Refreshed
    <2>3. ASSUME NEW t \in Tokens, t # reply[c], Holds(t)' PROVE Holds(t)
      <3>1. \A d \in Calls : fetch'[d].pair = t => fetch'[d] = fetch[d]
        BY <1>4, <2>3
      <3>2. QED
        BY <1>1, <1>4, <2>1, <2>2, <2>3, <3>1, HeldBefore DEF Holds, server
    <2>4. ASSUME NEW p \in Tabs, page'[p].pair = old, old # reply[c]
          PROVE  old \in strayed'
      <3>1. CASE OnPage(c) /\ p = TabOf(c)
        BY <1>4, <2>4, <3>1, RefreshedPage
      <3>2. CASE ~OnPage(c)
        BY <2>2, <3>2
      <3>3. CASE p # TabOf(c)
        BY <2>1, <2>2, <2>4, <3>3
      <3>4. QED
        BY <3>1, <3>2, <3>3
    <2>5. old \in strayed' \/ \E p \in Tabs : page'[p].unsaved # "no"
      <3>1. CASE OnPage(c)
        <4>1. run[c[1]] \in Run
          BY <1>1, CallParts DEF RequestsHaveRuns, ClientOK, Fetch, NoFetch
        <4>2. TabOf(c) \in Tabs
          BY <4>1 DEF TabOf, Run
        <4>3. QED
          BY <1>4, <3>1, <4>2, RefreshedPage
      <3>2. CASE ~OnPage(c)
        BY <2>2, <3>2
      <3>3. QED
        BY <3>1, <3>2
    <2>6. QED
      BY <1>1, <1>4, <2>1, <2>2, <2>3, <2>4, <2>5
  <1>5. QED
    BY <1>2, <1>3, <1>4, Delivered

LEMMA LoseSteps ==
  ASSUME ClientOK, NEW c \in Calls, Lose(c)
  PROVE  ReceiveStep(c)
  <1>1. fetch[c] \in Fetch /\ Resolve(c, "failed")
    BY Phases DEF Lose
  <1>2. ASSUME NEW t \in Tokens, Holds(t)' PROVE Holds(t)
    BY <1>1, <1>2, ResolvedHolds, HeldBefore DEF Lose, Holds, server
  <1>3. reply'[c] = NoPair /\ \A d \in Calls \ {c} : reply'[d] = reply[d]
    BY DEF Lose, ClientOK
  <1>4. /\ strayed \subseteq strayed'
        /\ reply[c] \in Tokens /\ fetch[c].pair \in Tokens => fetch[c].pair \in strayed'
    BY PairsAreNamed DEF Lose
  <1>5. QED
    BY <1>1, <1>2, <1>3, <1>4, ResolvedHolds DEF Lose, ReceiveStep, UnsavedStays

LEMMA ExpirySteps ==
  ASSUME NEW t \in Tokens, AccessExpires(t)
  PROVE  BrowserStep
  <1>1. UNCHANGED <<server, client, reply, strayed>>
    BY DEF AccessExpires
  <1>2. ASSUME NEW u \in Tokens, Holds(u)' PROVE Holds(u)
    BY <1>1, <1>2 DEF Holds, server, client
  <1>3. QED
    BY <1>1, <1>2 DEF BrowserStep, UnsavedStays, client

LEMMA StutterSteps == ASSUME UNCHANGED vars PROVE BrowserStep
  <1>1. UNCHANGED <<server, client, reply, strayed>>
    BY DEF vars
  <1>2. ASSUME NEW u \in Tokens, Holds(u)' PROVE Holds(u)
    BY <1>1, <1>2 DEF Holds, server, client
  <1>3. QED
    BY <1>1, <1>2 DEF BrowserStep, UnsavedStays, client

\* While the server works on a call, the browser holds what it held.
LEMMA ServedHolds ==
  ASSUME NEW c \in Calls, UNCHANGED client,
         asked'[c].token \in {asked[c].token, NoPair},
         \A d \in Calls \ {c} : asked'[d] = asked[d]
  PROVE  \A t \in Tokens : Holds(t)' => Holds(t)
  <1>1. ASSUME NEW t \in Tokens, Holds(t)' PROVE Holds(t)
    <2>1. \A d \in Calls : asked'[d].token = t => asked[d].token = t
      BY PairsAreNamed
    <2>2. QED
      BY <1>1, <2>1, HeldBefore DEF Holds, client
  <1>2. QED
    BY <1>1

\* What the queries do to the call they are about.
LEMMA QueryParts ==
  ASSUME ServerInv, NEW c \in Calls, Matches(c),
         Auth!InsertUser(c) \/ Auth!FindByHashWithUser(c) \/ Auth!DeleteById(c)
  PROVE  /\ serving[c] \notin {"idle", "issue"}
         /\ \A d \in Calls \ {c} : serving'[d] = serving[d] /\ asked'[d] = asked[d]
         /\ \/ serving'[c] = "idle" /\ asked'[c] = Auth!NoCall /\ tokens' = tokens
            \/ /\ serving'[c] # "idle" /\ asked'[c] = asked[c]
               /\ \A t \in Tokens :
                    \/ tokens'[t] = tokens[t]
                    \/ /\ t = asked[c].token /\ serving'[c] = "issue"
                       /\ tokens'[t].state # "unused"
  <1>1. serving \in [Calls -> Auth!Labels] /\ asked \in [Calls -> Auth!Call \union {Auth!NoCall}]
        /\ tokens \in [Tokens -> Auth!Rows]
    BY DEF ServerInv, Auth!TypeOK, Auth!TableOK
  <1>2. CASE Auth!InsertUser(c)
    BY <1>1, <1>2 DEF Auth!InsertUser, Auth!Finish, Auth!Goto
  <1>3. CASE Auth!FindByHashWithUser(c)
    BY <1>1, <1>3 DEF Auth!FindByHashWithUser, Auth!Finish, Auth!Goto
  <1>4. CASE Auth!DeleteById(c)
    <2>1. serving[c] = "deleteToken" /\ asked[c].op = "refresh" /\ asked[c].token \in Tokens
      BY <1>4 DEF Auth!DeleteById, ServerInv, CallHolds, Matches
    <2>2. /\ serving' = [serving EXCEPT ![c] = "issue"] /\ asked' = asked
          /\ tokens' = [tokens EXCEPT ![asked[c].token].state = "deleted"]
      BY <1>4, <2>1 DEF Auth!DeleteById, Auth!Goto, Auth!Deleted
    <2>3. tokens[asked[c].token] \in Auth!Rows
      BY <1>1, <2>1
    <2>4. tokens'[asked[c].token].state = "deleted"
      BY <1>1, <2>1, <2>2, <2>3 DEF Auth!Rows
    <2>5. QED
      BY <1>1, <2>1, <2>2, <2>4
  <1>5. QED
    BY <1>2, <1>3, <1>4

LEMMA QuerySteps ==
  ASSUME ClientOK, ServerInv, NEW c \in Calls, Matches(c), ServeQuery(c)
  PROVE  ServeStep(c)
  <1>1. /\ UNCHANGED <<client, strayed>>
        /\ Auth!InsertUser(c) \/ Auth!FindByHashWithUser(c) \/ Auth!DeleteById(c)
        /\ IF serving'[c] = "idle" THEN Replied(c, Failed) ELSE UNCHANGED reply
    BY DEF ServeQuery
  <1>2. asked'[c].token \in {asked[c].token, NoPair}
    BY <1>1, QueryParts DEF Auth!NoCall, NoPair
  <1>3. \A t \in Tokens : Holds(t)' => Holds(t)
    BY <1>1, <1>2, QueryParts, ServedHolds
  <1>4. CASE serving'[c] = "idle"
    <2>1. /\ reply'[c] = IF fetch[c].phase = "wait" THEN Failed ELSE reply[c]
          /\ \A d \in Calls \ {c} : reply'[d] = reply[d]
      BY <1>1, <1>4 DEF Replied, ClientOK
    <2>2. GivesUp(c)
      BY <1>1, <1>4, <2>1, QueryParts DEF GivesUp
    <2>3. QED
      BY <1>1, <1>3, <2>1, <2>2, QueryParts DEF ServeStep
  <1>5. CASE serving'[c] # "idle"
    <2>1. reply' = reply
      BY <1>1, <1>5
    <2>2. GoesOn(c)
      BY <1>1, <1>5, <2>1, QueryParts DEF GoesOn
    <2>3. QED
      BY <1>1, <1>3, <2>1, <2>2, QueryParts DEF ServeStep
  <1>6. QED
    BY <1>4, <1>5

LEMMA TokensSteps ==
  ASSUME ClientOK, ServerInv, NEW c \in Calls, ServeTokens(c)
  PROVE  ServeStep(c)
  <1>1. /\ UNCHANGED <<client, strayed>> /\ serving[c] = "issue" /\ Auth!Finish(c)
    BY DEF ServeTokens, Auth!IssueTokenPair
  <1>2. /\ serving'[c] = "idle" /\ asked'[c] = Auth!NoCall
        /\ \A d \in Calls \ {c} : serving'[d] = serving[d] /\ asked'[d] = asked[d]
    BY <1>1 DEF Auth!Finish, Auth!Goto, ServerInv, Auth!TypeOK
  <1>3. \A t \in Tokens : Holds(t)' => Holds(t)
    BY <1>1, <1>2, ServedHolds DEF Auth!NoCall, NoPair
  <1>4. PICK n \in Tokens : /\ tokens[n].state = "unused" /\ tokens'[n].state = "live"
                            /\ Replied(c, n)
    BY DEF ServeTokens
  <1>5. \A t \in Tokens \ {n} : tokens'[t] = tokens[t]
    <2>1. PICK m \in Tokens : Auth!SaveForUser(c, m)
      BY DEF ServeTokens, Auth!IssueTokenPair
    <2>2. \A t \in Tokens \ {m} : tokens'[t] = tokens[t]
      BY <2>1 DEF Auth!SaveForUser, ServerInv, Auth!TypeOK, Auth!TableOK
    <2>3. m = n
      BY <1>4, <2>2
    <2>4. QED
      BY <2>2, <2>3
  <1>6. /\ reply'[c] = IF fetch[c].phase = "wait" THEN n ELSE reply[c]
        /\ \A d \in Calls \ {c} : reply'[d] = reply[d]
    BY <1>4 DEF Replied, ClientOK
  <1>7. Issues(c)
    BY <1>1, <1>2, <1>4, <1>5, <1>6 DEF Issues
  <1>8. QED
    BY <1>1, <1>2, <1>3, <1>6, <1>7 DEF ServeStep

LEMMA CrashSteps ==
  ASSUME ClientOK, ServerInv, NEW c \in Calls, ServerCrash(c)
  PROVE  ServeStep(c)
  <1>1. /\ UNCHANGED client /\ serving[c] # "idle" /\ Auth!Finish(c) /\ tokens' = tokens
        /\ Replied(c, Failed) /\ strayed \subseteq strayed'
        /\ serving[c] = "issue" => asked[c].token \in strayed' \union {NoPair}
    BY DEF ServerCrash, Auth!Crash
  <1>2. /\ serving'[c] = "idle" /\ asked'[c] = Auth!NoCall
        /\ \A d \in Calls \ {c} : serving'[d] = serving[d] /\ asked'[d] = asked[d]
    BY <1>1 DEF Auth!Finish, Auth!Goto, ServerInv, Auth!TypeOK
  <1>3. \A t \in Tokens : Holds(t)' => Holds(t)
    BY <1>1, <1>2, ServedHolds DEF Auth!NoCall, NoPair
  <1>4. /\ reply'[c] = IF fetch[c].phase = "wait" THEN Failed ELSE reply[c]
        /\ \A d \in Calls \ {c} : reply'[d] = reply[d]
    BY <1>1 DEF Replied, ClientOK
  <1>5. GivesUp(c)
    BY <1>1, <1>2, <1>4 DEF GivesUp
  <1>6. QED
    BY <1>1, <1>2, <1>3, <1>4, <1>5 DEF ServeStep

\* Every step is of one of the four kinds.
LEMMA Steps ==
  ASSUME ClientOK, ServerInv, CallsMatch, RequestsHaveRuns, [Next]_vars
  PROVE  BrowserStep \/ \E c \in Calls : AskStep(c) \/ ReceiveStep(c) \/ ServeStep(c)
  <1>1. ASSUME NEW p \in Tabs,
               Mount(p) \/ Effects(p) \/ Reload(p) \/ Logout(p) \/ Leave(p)
        PROVE  BrowserStep
    BY <1>1, MountSteps, EffectsSteps, ReloadSteps, LeavingSteps
  <1>2. ASSUME NEW p \in Tabs, NEW k \in Runs, Click(p, k) PROVE BrowserStep
    BY <1>2, ClickSteps
  <1>3. ASSUME NEW p \in Tabs, NEW k \in Runs, Submit(p, k)
        PROVE  \E c \in Calls : AskStep(c)
    BY <1>3, SubmitSteps
  <1>4. ASSUME NEW k \in Runs, Proceed(k) PROVE BrowserStep
    BY <1>4, ProceedSteps
  <1>5. ASSUME NEW c \in Calls, Answer(c) PROVE BrowserStep
    BY <1>5, AnswerSteps
  <1>6. ASSUME NEW c \in Calls, BeginRefresh(c) PROVE AskStep(c)
    BY <1>6, RefreshSteps
  <1>7. ASSUME NEW c \in Calls, Deliver(c) \/ Lose(c) PROVE ReceiveStep(c)
    BY <1>7, DeliverSteps, LoseSteps
  <1>8. ASSUME NEW c \in Calls, ServeQuery(c) \/ ServeTokens(c) \/ ServerCrash(c)
        PROVE  ServeStep(c)
    BY <1>8, QuerySteps, TokensSteps, CrashSteps DEF CallsMatch
  <1>9. ASSUME NEW t \in Tokens, AccessExpires(t) PROVE BrowserStep
    BY <1>9, ExpirySteps
  <1>10. UNCHANGED vars => BrowserStep
    BY StutterSteps
  <1>11. QED
    BY <1>1, <1>2, <1>3, <1>4, <1>5, <1>6, <1>7, <1>8, <1>9, <1>10 DEF Next

-----------------------------------------------------------------------------
(* The pair of a page: every kind of step keeps the invariant              *)

LEMMA BrowserKeeps ==
  ASSUME ServerInv, SessionInv, BrowserStep
  PROVE  SessionInv'
  <1> USE DEF BrowserStep, server
  <1>1. CallsMatch'
    <2>1. ASSUME NEW c \in Calls PROVE Matches(c)'
      <3>1. Matches(c)
        BY DEF SessionInv, CallsMatch
      <3>2. QED
        BY <3>1 DEF Matches
    <2>2. QED
      BY <2>1 DEF CallsMatch
  <1>2. HeldPairsIssued'
    BY DEF SessionInv, HeldPairsIssued
  <1>3. RepliesAreFresh'
    <2>1. \A c \in Calls : reply'[c] \in {reply[c], NoPair}
      OBVIOUS
    <2>2. QED
      BY <2>1, PairsAreNamed DEF SessionInv, RepliesAreFresh
  <1>4. ASSUME NEW t \in Tokens \ strayed', Good(t) PROVE Good(t)'
    <2>1. t # NoPair
      BY PairsAreNamed
    <2>2. ASSUME NEW c \in Calls, Rescues(c, t) PROVE Rescues(c, t)'
      BY <1>4, <2>1, <2>2 DEF Rescues
    <2>3. QED
      BY <1>4, <2>2 DEF Good
  <1>5. PagesAreRescued'
    <2> SUFFICES ASSUME NEW p \in Tabs, NEW t \in Tokens \ strayed', page'[p].pair = t
                 PROVE  Good(t)'
      BY DEF PagesAreRescued
    <2>1. t # NoPair /\ t \in Tokens \ strayed
      BY PairsAreNamed
    <2>2. CASE page[p].pair = t
      BY <1>4, <2>1, <2>2 DEF SessionInv, PagesAreRescued
    <2>3. CASE stored = t /\ (tokens[t].state = "deleted" => t \in strayed')
      <3>1. tokens[t].state # "unused"
        BY <2>3 DEF SessionInv, HeldPairsIssued, Holds
      <3>2. tokens[t].state \in {"unused", "live", "deleted"}
        BY DEF ServerInv, Auth!TypeOK, Auth!TableOK, Auth!Rows
      <3>3. QED
        BY <2>3, <3>1, <3>2 DEF Good
    <2>4. QED
      BY <2>1, <2>2, <2>3
  <1>6. StorageIsRescued'
    <2> SUFFICES ASSUME NEW t \in Tokens \ strayed', stored' = t
                 PROVE  Good(t)' \/ \E p \in Tabs : page'[p].unsaved # "no"
      BY DEF StorageIsRescued
    <2>1. t # NoPair /\ t \in Tokens \ strayed
      BY PairsAreNamed
    <2>2. CASE stored = t /\ UnsavedStays
      <3>1. Good(t) \/ \E p \in Tabs : page[p].unsaved # "no"
        BY <2>1, <2>2 DEF SessionInv, StorageIsRescued
      <3>2. QED
        BY <1>4, <2>2, <3>1 DEF UnsavedStays
    <2>3. CASE \E p \in Tabs : page[p].pair = t
      <3>1. Good(t)
        BY <2>1, <2>3 DEF SessionInv, PagesAreRescued
      <3>2. QED
        BY <1>4, <3>1
    <2>4. QED
      BY <2>1, <2>2, <2>3
  <1>7. QED
    BY <1>1, <1>2, <1>3, <1>5, <1>6 DEF SessionInv

LEMMA AskKeeps ==
  ASSUME SessionInv, NEW c \in Calls, AskStep(c)
  PROVE  SessionInv'
  <1> USE DEF AskStep
  <1>1. CallsMatch'
    <2>1. ASSUME NEW d \in Calls PROVE Matches(d)'
      <3>1. Matches(d)
        BY DEF SessionInv, CallsMatch
      <3>2. QED
        BY <3>1 DEF Matches
    <2>2. QED
      BY <2>1 DEF CallsMatch
  <1>2. HeldPairsIssued'
    BY DEF SessionInv, HeldPairsIssued
  <1>3. RepliesAreFresh'
    BY DEF SessionInv, RepliesAreFresh
  <1>4. ASSUME NEW t \in Tokens, Good(t) PROVE Good(t)'
    <2>1. ASSUME NEW d \in Calls, Rescues(d, t) PROVE Rescues(d, t)'
      BY <2>1 DEF Rescues
    <2>2. QED
      BY <1>4, <2>1 DEF Good
  <1>5. PagesAreRescued'
    BY <1>4 DEF SessionInv, PagesAreRescued
  <1>6. StorageIsRescued'
    BY <1>4 DEF SessionInv, StorageIsRescued, UnsavedStays
  <1>7. QED
    BY <1>1, <1>2, <1>3, <1>5, <1>6 DEF SessionInv

LEMMA ReceiveKeeps ==
  ASSUME SessionInv, NEW c \in Calls, ReceiveStep(c)
  PROVE  SessionInv'
  <1> USE DEF ReceiveStep, server
  <1>1. serving[c] = "idle"
    BY DEF SessionInv, CallsMatch, Matches
  <1>2. CallsMatch'
    <2>1. ASSUME NEW d \in Calls PROVE Matches(d)'
      <3>1. Matches(d)
        BY DEF SessionInv, CallsMatch
      <3>2. QED
        BY <1>1, <3>1 DEF Matches
    <2>2. QED
      BY <2>1 DEF CallsMatch
  <1>3. HeldPairsIssued'
    BY DEF SessionInv, HeldPairsIssued, RepliesAreFresh
  <1>4. RepliesAreFresh'
    <2>1. ASSUME NEW d \in Calls, reply'[d] \in Tokens
          PROVE  d # c /\ reply'[d] = reply[d] /\ reply[d] # reply[c]
      BY <2>1, PairsAreNamed DEF SessionInv, RepliesAreFresh
    <2>2. QED
      BY <2>1 DEF SessionInv, RepliesAreFresh
  <1>5. ASSUME NEW t \in Tokens \ strayed', Good(t)
        PROVE  Good(t)' \/ (reply[c] \in Tokens /\ fetch[c].pair = t)
    <2>1. ASSUME NEW d \in Calls \ {c}, Rescues(d, t) PROVE Rescues(d, t)'
      BY <2>1 DEF Rescues
    <2>2. Rescues(c, t) => reply[c] \in Tokens /\ fetch[c].pair = t
      BY <1>1 DEF Rescues
    <2>3. QED
      BY <1>5, <2>1, <2>2 DEF Good
  <1>6. ASSUME reply[c] \in Tokens
        PROVE  tokens'[reply[c]].state = "live" /\ ~Holds(reply[c])
    BY <1>6 DEF SessionInv, RepliesAreFresh
  <1>7. PagesAreRescued'
    <2> SUFFICES ASSUME NEW p \in Tabs, NEW t \in Tokens \ strayed', page'[p].pair = t
                 PROVE  Good(t)'
      BY DEF PagesAreRescued
    <2>1. CASE page[p].pair = t
      <3>1. Holds(t) /\ t \in Tokens \ strayed
        BY <2>1 DEF Holds
      <3>2. Good(t)
        BY <2>1, <3>1 DEF SessionInv, PagesAreRescued
      <3>3. ~(reply[c] \in Tokens /\ fetch[c].pair = t)
        BY <1>6, <3>1
      <3>4. QED
        BY <1>5, <3>2, <3>3
    <2>2. CASE reply[c] = t
      BY <1>6, <2>2 DEF Good
    <2>3. QED
      BY <2>1, <2>2
  <1>8. StorageIsRescued'
    <2> SUFFICES ASSUME NEW t \in Tokens \ strayed', stored' = t
                 PROVE  Good(t)' \/ \E p \in Tabs : page'[p].unsaved # "no"
      BY DEF StorageIsRescued
    <2>1. CASE stored = t
      <3>1. Good(t) \/ \E p \in Tabs : page[p].unsaved # "no"
        BY <2>1 DEF SessionInv, StorageIsRescued
      <3>2. CASE reply[c] \in Tokens /\ fetch[c].pair = t
        BY <3>2
      <3>3. QED
        BY <1>5, <3>1, <3>2 DEF UnsavedStays
    <2>2. CASE reply[c] = t
      BY <1>6, <2>2 DEF Good
    <2>3. QED
      BY <2>1, <2>2
  <1>9. QED
    BY <1>2, <1>3, <1>4, <1>7, <1>8 DEF SessionInv

LEMMA ServeKeeps ==
  ASSUME ServerInv, SessionInv, NEW c \in Calls, ServeStep(c)
  PROVE  SessionInv'
  <1> USE DEF ServeStep, client
  <1>1. Matches(c) /\ reply[c] = NoPair
    BY DEF SessionInv, CallsMatch, Matches
  <1>2. GivesUp(c) \/ GoesOn(c) \/ Issues(c)
    OBVIOUS
  <1>3. reply'[c] # NoPair => fetch[c].phase = "wait"
    BY <1>1, <1>2 DEF GivesUp, GoesOn, Issues
  <1>4. CallsMatch'
    <2>1. ASSUME NEW d \in Calls PROVE Matches(d)'
      <3>1. Matches(d)
        BY DEF SessionInv, CallsMatch
      <3>2. CASE d = c
        <4>1. CASE serving'[c] = "idle"
          BY <1>3, <3>2, <4>1 DEF Matches
        <4>2. CASE serving'[c] # "idle"
          <5>1. GoesOn(c)
            BY <1>2, <4>2 DEF GivesUp, Issues
          <5>2. QED
            BY <1>1, <1>3, <3>2, <5>1 DEF GoesOn, Matches
        <4>3. QED
          BY <4>1, <4>2
      <3>3. CASE d # c
        BY <3>1, <3>3 DEF Matches
      <3>4. QED
        BY <3>2, <3>3
    <2>2. QED
      BY <2>1 DEF CallsMatch
  <1>5. HeldPairsIssued'
    <2>1. ASSUME NEW t \in Tokens, Holds(t)' PROVE tokens'[t].state # "unused"
      <3>1. tokens[t].state # "unused"
        BY <2>1 DEF SessionInv, HeldPairsIssued
      <3>2. QED
        BY <1>2, <3>1 DEF GivesUp, GoesOn, Issues
    <2>2. QED
      BY <2>1 DEF HeldPairsIssued
  <1>6. RepliesAreFresh'
    <2>1. ASSUME NEW d \in Calls, NEW n \in Tokens, d # c, reply[d] = n
          PROVE  tokens'[n].state = "live" /\ ~Holds(n)'
      <3>1. tokens[n].state = "live" /\ ~Holds(n)
        BY <2>1 DEF SessionInv, RepliesAreFresh
      <3>2. n # asked[c].token
        BY <3>1 DEF Holds
      <3>3. tokens'[n] = tokens[n]
        BY <1>2, <2>1, <3>1, <3>2 DEF GivesUp, GoesOn, Issues
      <3>4. ~Holds(n)'
        BY <2>1, <3>1
      <3>5. QED
        BY <3>1, <3>3, <3>4
    <2>2. ASSUME NEW n \in Tokens, reply'[c] = n
          PROVE  /\ tokens'[n].state = "live" /\ ~Holds(n)'
                 /\ \A d \in Calls \ {c} : reply'[d] # n
      <3>1. Issues(c)
        BY <1>1, <1>2, <2>2, PairsAreNamed DEF GivesUp, GoesOn
      <3>2. tokens[n].state = "unused" /\ tokens'[n].state = "live"
        BY <1>1, <2>2, <3>1, PairsAreNamed DEF Issues
      <3>3. ~Holds(n)
        BY <2>2, <3>2 DEF SessionInv, HeldPairsIssued
      <3>4. ~Holds(n)'
        BY <2>2, <3>3
      <3>5. QED
        BY <2>2, <3>2, <3>4 DEF SessionInv, RepliesAreFresh
    <2>3. ASSUME NEW d \in Calls, NEW n \in Tokens, reply'[d] = n
          PROVE  /\ tokens'[n].state = "live" /\ ~Holds(n)'
                 /\ \A e \in Calls : reply'[e] = n => e = d
      <3>1. CASE d = c
        BY <2>2, <2>3, <3>1
      <3>2. CASE d # c
        BY <2>1, <2>2, <2>3, <3>2 DEF SessionInv, RepliesAreFresh
      <3>3. QED
        BY <3>1, <3>2
    <2>4. QED
      BY <2>3 DEF RepliesAreFresh
  <1>7. ASSUME NEW t \in Tokens \ strayed', Good(t) PROVE Good(t)'
    <2>1. t # NoPair /\ t \notin strayed /\ t \notin strayed'
      BY PairsAreNamed
    <2>2. tokens[t].state = "live" \/ \E d \in Calls : Rescues(d, t)
      BY <1>7 DEF Good
    <2>3. CASE tokens[t].state = "live" /\ tokens'[t] # tokens[t]
      <3>1. t = asked[c].token /\ serving'[c] = "issue"
        BY <1>2, <2>3 DEF GivesUp, GoesOn, Issues
      <3>2. fetch[c].phase = "wait" /\ fetch[c].pair = t
        BY <1>1, <2>1, <3>1 DEF Matches
      <3>3. Rescues(c, t)'
        BY <3>1, <3>2 DEF Rescues
      <3>4. QED
        BY <3>3 DEF Good
    <2>4. ASSUME NEW d \in Calls, Rescues(d, t) PROVE Rescues(d, t)'
      <3>1. CASE d # c
        BY <2>4, <3>1 DEF Rescues
      <3>2. CASE d = c
        <4>1. fetch[c].phase = "wait" /\ fetch[c].pair = t /\ serving[c] = "issue"
          BY <1>1, <2>4, <3>2, PairsAreNamed DEF Rescues
        <4>2. asked[c].token = t
          BY <1>1, <4>1 DEF Matches
        <4>3. Issues(c)
          BY <1>2, <2>1, <4>1, <4>2 DEF GivesUp, GoesOn
        <4>4. reply'[c] \in Tokens
          BY <4>1, <4>3 DEF Issues
        <4>5. QED
          BY <3>2, <4>1, <4>4 DEF Rescues
      <3>3. QED
        BY <3>1, <3>2
    <2>5. QED
      BY <2>2, <2>3, <2>4 DEF Good
  <1>8. PagesAreRescued'
    BY <1>7 DEF SessionInv, PagesAreRescued
  <1>9. StorageIsRescued'
    BY <1>7 DEF SessionInv, StorageIsRescued
  <1>10. QED
    BY <1>4, <1>5, <1>6, <1>8, <1>9 DEF SessionInv

LEMMA SessionInvariant == Spec => [](SessionInv /\ ClientOK /\ ServerInv)
  <1>1. Init => SessionInv
    <2> SUFFICES ASSUME Init PROVE SessionInv
      OBVIOUS
    <2>1. \A c \in Calls : /\ serving[c] = "idle" /\ asked[c].token = NoPair
                           /\ reply[c] = NoPair
      BY DEF Init, Auth!Init, Auth!NoCall, NoPair
    <2>2. \A t \in Tokens : ~Holds(t)
      BY <2>1, PairsAreNamed DEF Init, LoginPage, Holds
    <2>3. CallsMatch /\ HeldPairsIssued /\ RepliesAreFresh
      BY <2>1, <2>2, PairsAreNamed DEF CallsMatch, Matches, HeldPairsIssued, RepliesAreFresh
    <2>4. PagesAreRescued /\ StorageIsRescued
      BY <2>2 DEF PagesAreRescued, StorageIsRescued, Holds
    <2>5. QED
      BY <2>3, <2>4 DEF SessionInv
  <1>2. SessionInv /\ ClientOK /\ ServerInv /\ RequestsHaveRuns /\ [Next]_vars
          => SessionInv'
    <2> SUFFICES ASSUME SessionInv, ClientOK, ServerInv, RequestsHaveRuns, [Next]_vars
                 PROVE  SessionInv'
      OBVIOUS
    <2>1. BrowserStep \/ \E c \in Calls : AskStep(c) \/ ReceiveStep(c) \/ ServeStep(c)
      BY Steps DEF SessionInv
    <2>2. QED
      BY <2>1, BrowserKeeps, AskKeeps, ReceiveKeeps, ServeKeeps
  <1>3. QED
    BY <1>1, <1>2, ClientInvariant, RequestsInvariant, PTL DEF Spec

\* However many requests of a page refresh its pair at once, and whatever becomes
\* of most of them, the page is left with a refresh token the server accepts, or
\* one request still brings it: only what makes a pair stray can sign it out.
THEOREM SessionKept == Spec => []PageKeepsItsSession
  <1>1. SessionInv => PageKeepsItsSession
    <2> SUFFICES ASSUME SessionInv, NEW p \in Tabs, page[p].pair \in Tokens \ strayed
                 PROVE  tokens[page[p].pair].state = "live" \/ InExchange(page[p].pair)
      BY DEF PageKeepsItsSession
    <2>1. \/ tokens[page[p].pair].state = "live"
          \/ \E c \in Calls : Rescues(c, page[p].pair)
      BY DEF SessionInv, PagesAreRescued, Good
    <2>2. QED
      BY <2>1 DEF Rescues, InExchange
  <1>2. QED
    BY <1>1, SessionInvariant, PTL

\* Nor does a reload or a new tab find a pair in localStorage that nobody will
\* replace and the server refuses, unless it strayed: every exchange of the stored
\* pair ends at a page that has yet to store the new one.
THEOREM StorageKept == Spec => []ReloadKeepsTheSession
  <1>1. SessionInv => ReloadKeepsTheSession
    BY DEF SessionInv, StorageIsRescued, Good, Rescues, ReloadKeepsTheSession, InExchange
  <1>2. QED
    BY <1>1, SessionInvariant, PTL

=============================================================================
