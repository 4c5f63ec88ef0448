-------------------------- MODULE DatasourcesProofs --------------------------
(***************************************************************************)
(* Theorems about Datasources, for any number of workspaces, datasources   *)
(* and concurrent requests.                                                *)
(***************************************************************************)
EXTENDS Datasources, TLAPS

-----------------------------------------------------------------------------
(* The inductive invariant                                                 *)

\* Only a sync marks its datasource.
OnlySyncsMark == \A r \in Requests : pc[r] = "markSyncing" => call[r].op = "sync"

\* No time is ahead of the clock.
TimesPassed ==
  /\ \A d \in Ids : rows[d].lastSync <= now
  /\ \A r \in Requests : pc[r] = "write" => call[r].at <= now

\* What a request has read is no older than what its datasource says, unless
\* another one has written since.
ReadsAreFresh ==
  \A r \in Requests \ overtaken :
    pc[r] = "write" => rows[call[r].id].lastSync <= call[r].at

IInv ==
  /\ TypeOK
  /\ OnlySyncsMark
  /\ SyncingIsInFlight
  /\ TimesPassed
  /\ ReadsAreFresh

-----------------------------------------------------------------------------
(* Type correctness                                                        *)

LEMMA InitType == Init => TypeOK
  BY MaxTimeIsTime DEF Init, TypeOK, Times, Rows, DatasourceStatus, Labels, NoCall

LEMMA CallType ==
  ASSUME TypeOK, NEW r \in Requests, pc[r] # "idle"
  PROVE  /\ call[r] \in Call
         /\ call[r].op \in Ops /\ call[r].workspace \in Workspaces
         /\ call[r].id \in Ids /\ call[r].ok \in BOOLEAN
         /\ call[r].at \in Times \union {Never}
  <1>1. call[r] \in Call
    BY DEF TypeOK
  <1>2. QED
    BY <1>1 DEF Call

LEMMA CallIsNoNoCall == NoCall \notin Call
  BY DEF NoCall, Call, Ops

LEMMA TimesAreNumbers == Times \subseteq Nat /\ Never \in Nat
  BY MaxTimeIsTime DEF Times, Never

\* Ending a request keeps the types, whatever its last query did.
LEMMA FinishType ==
  ASSUME TypeOK, NEW r \in Requests, Finish(r),
         now' \in Times, rows' \in [Ids -> Rows], server' = server,
         interrupted' \subseteq Ids, overtaken' \subseteq Requests
  PROVE  TypeOK'
  BY DEF TypeOK, Finish, Goto, Labels

\* So does going on to the next query.
LEMMA StepType ==
  ASSUME TypeOK, NEW r \in Requests, pc[r] # "idle", NEW l \in Labels \ {"idle"},
         Goto(r, l), call' = call,
         now' \in Times, rows' \in [Ids -> Rows], server' = server,
         interrupted' \subseteq Ids, overtaken' \subseteq Requests
  PROVE  TypeOK'
  BY DEF TypeOK, Goto

\* And learning what the server said.
LEMMA LearnedCall ==
  ASSUME TypeOK, NEW r \in Requests, pc[r] # "idle", NEW ok \in BOOLEAN, Learn(r, ok)
  PROVE  /\ call' \in [Requests -> Call \union {NoCall}]
         /\ call'[r] \in Call
         /\ \A s \in Requests \ {r} : call'[s] = call[s]
         /\ call'[r].at = now /\ call'[r].ok = ok
         /\ call'[r].id = call[r].id /\ call'[r].op = call[r].op
  <1>1. call[r] \in Call
    BY CallType
  <1>2. [call[r] EXCEPT !.ok = ok, !.at = now] \in Call
    BY <1>1 DEF Call, TypeOK
  <1>3. call' = [call EXCEPT ![r] = [call[r] EXCEPT !.ok = ok, !.at = now]]
    BY DEF Learn
  <1>4. QED
    BY <1>1, <1>2, <1>3 DEF TypeOK, Call

LEMMA LearnType ==
  ASSUME TypeOK, NEW r \in Requests, pc[r] # "idle", NEW ok \in BOOLEAN, Learn(r, ok),
         NEW l \in Labels \ {"idle"}, Goto(r, l),
         UNCHANGED <<now, rows, server, interrupted, overtaken>>
  PROVE  TypeOK'
  <1>1. call'[r] # NoCall
    BY LearnedCall, CallIsNoNoCall
  <1>2. QED
    BY <1>1, LearnedCall DEF TypeOK, Goto

\* The rows after an update.
LEMMA UpdatedRows ==
  ASSUME TypeOK, NEW r \in Requests, pc[r] # "idle",
         NEW status \in DatasourceStatus, NEW at \in Times \union {Never},
         UpdateStatus(r, status, at)
  PROVE  /\ rows' \in [Ids -> Rows]
         /\ overtaken' \subseteq Requests
         /\ rows'[call[r].id].status = status
         /\ rows'[call[r].id].lastSync =
              IF at = Never THEN rows[call[r].id].lastSync ELSE at
         /\ \A d \in Ids \ {call[r].id} : rows'[d] = rows[d]
  <1>1. call[r].id \in Ids
    BY CallType
  <1>2. rows[call[r].id] \in Rows
    BY <1>1 DEF TypeOK
  <1>3. Patched(rows[call[r].id], status, at) \in Rows
    BY <1>2 DEF Patched, Rows
  <1>4. rows' = [rows EXCEPT ![call[r].id] = Patched(rows[call[r].id], status, at)]
    BY DEF UpdateStatus
  <1>5. rows'[call[r].id] = Patched(rows[call[r].id], status, at)
    BY <1>1, <1>4 DEF TypeOK
  <1>6. /\ Patched(rows[call[r].id], status, at).status = status
        /\ Patched(rows[call[r].id], status, at).lastSync =
             IF at = Never THEN rows[call[r].id].lastSync ELSE at
    BY <1>2 DEF Patched, Rows
  <1>7. QED
    BY <1>1, <1>3, <1>4, <1>5, <1>6 DEF TypeOK, UpdateStatus

LEMMA OutcomeType ==
  ASSUME NEW c \in Call
  PROVE  /\ Outcome(c) \in DatasourceStatus \ {"syncing"}
         /\ SyncedAt(c) \in Times \union {Never}
         /\ SyncedAt(c) \in {c.at, Never}
  BY DEF Outcome, SyncedAt, DatasourceStatus, Call

LEMMA NextType == TypeOK /\ [Next]_vars => TypeOK'
  <1> SUFFICES ASSUME TypeOK, [Next]_vars PROVE TypeOK'
    OBVIOUS
  <1>1. ASSUME NEW r \in Requests, Begin(r) PROVE TypeOK'
    <2>1. PICK op \in Ops, w \in Workspaces, d \in Ids :
             /\ Goto(r, "find")
             /\ call' = [call EXCEPT ![r] = [op |-> op, workspace |-> w, id |-> d,
                                             ok |-> FALSE, at |-> Never]]
             /\ UNCHANGED <<now, rows, server, interrupted, overtaken>>
      BY <1>1 DEF Begin
    <2>2. [op |-> op, workspace |-> w, id |-> d, ok |-> FALSE, at |-> Never] \in Call
      BY DEF Call
    <2>3. QED
      BY <2>1, <2>2, CallIsNoNoCall DEF TypeOK, Goto, Labels
  <1>2. ASSUME NEW r \in Requests, FindByWorkspaceAndId(r) PROVE TypeOK'
    <2>1. pc[r] = "find" /\ UNCHANGED <<now, rows, server, interrupted, overtaken>>
      BY <1>2 DEF FindByWorkspaceAndId
    <2>2. CASE rows[call[r].id].workspace = call[r].workspace
      <3>1. \E l \in {"markSyncing", "connect"} : Goto(r, l) /\ call' = call
        BY <1>2, <2>2 DEF FindByWorkspaceAndId
      <3>2. QED
        BY <2>1, <3>1, StepType DEF TypeOK, Labels
    <2>3. CASE rows[call[r].id].workspace # call[r].workspace
      <3>1. Finish(r)
        BY <1>2, <2>3 DEF FindByWorkspaceAndId
      <3>2. QED
        BY <2>1, <3>1, FinishType DEF TypeOK
    <2>4. QED
      BY <2>2, <2>3
  <1>3. ASSUME NEW r \in Requests, MarkSyncing(r) PROVE TypeOK'
    <2>1. /\ pc[r] = "markSyncing" /\ UpdateStatus(r, "syncing", Never)
          /\ Goto(r, "connect") /\ UNCHANGED <<now, server, call, interrupted>>
      BY <1>3 DEF MarkSyncing
    <2>2. rows' \in [Ids -> Rows] /\ overtaken' \subseteq Requests
      BY <2>1, UpdatedRows DEF DatasourceStatus
    <2>3. QED
      BY <2>1, <2>2, StepType DEF TypeOK, Labels
  <1>4. ASSUME NEW r \in Requests, Connect(r) PROVE TypeOK'
    <2>1. pc[r] = "connect" /\ UNCHANGED <<now, rows, server, interrupted, overtaken>>
      BY <1>4 DEF Connect
    <2>2. CASE server[call[r].id] = "up"
      <3>1. Goto(r, "query") /\ call' = call
        BY <1>4, <2>2 DEF Connect
      <3>2. QED
        BY <2>1, <3>1, StepType DEF TypeOK, Labels
    <2>3. CASE server[call[r].id] # "up"
      <3>1. Goto(r, "write") /\ Learn(r, FALSE)
        BY <1>4, <2>3 DEF Connect
      <3>2. QED
        BY <2>1, <3>1, LearnType DEF Labels
    <2>4. QED
      BY <2>2, <2>3
  <1>5. ASSUME NEW r \in Requests, Query(r) PROVE TypeOK'
    <2> DEFINE ok == server[call[r].id] = "up" /\ Accepts(call[r].op)
    <2>1. pc[r] = "query" /\ UNCHANGED <<now, rows, server, interrupted, overtaken>>
      BY <1>5 DEF Query
    <2>2. CASE ok /\ call[r].op = "sample"
      <3>1. Finish(r)
        BY <1>5, <2>2 DEF Query
      <3>2. QED
        BY <2>1, <3>1, FinishType DEF TypeOK
    <2>3. CASE ~(ok /\ call[r].op = "sample")
      <3>1. Goto(r, "write") /\ Learn(r, ok)
        BY <1>5, <2>3 DEF Query
      <3>2. ok \in BOOLEAN
        OBVIOUS
      <3>3. QED
        BY <2>1, <3>1, <3>2, LearnType DEF Labels
    <2>4. QED
      BY <2>2, <2>3
  <1>6. ASSUME NEW r \in Requests, WriteOutcome(r) PROVE TypeOK'
    <2>1. /\ pc[r] = "write" /\ Finish(r) /\ UNCHANGED <<now, server, interrupted>>
          /\ UpdateStatus(r, Outcome(call[r]), SyncedAt(call[r]))
      BY <1>6 DEF WriteOutcome
    <2>2. rows' \in [Ids -> Rows] /\ overtaken' \subseteq Requests
      BY <2>1, CallType, OutcomeType, UpdatedRows
    <2>3. QED
      BY <2>1, <2>2, FinishType DEF TypeOK
  <1>7. ASSUME NEW r \in Requests, WriteFails(r) PROVE TypeOK'
    <2>1. /\ pc[r] = "write" /\ Learn(r, FALSE)
          /\ UNCHANGED <<now, rows, server, pc, interrupted, overtaken>>
      BY <1>7 DEF WriteFails
    <2>2. call'[r] # NoCall
      BY <2>1, LearnedCall, CallIsNoNoCall
    <2>3. QED
      BY <2>1, <2>2, LearnedCall DEF TypeOK
  <1>8. ASSUME NEW r \in Requests, Crash(r) PROVE TypeOK'
    BY <1>8, FinishType DEF Crash, TypeOK
  <1>9. ASSUME NEW d \in Ids, Create(d) PROVE TypeOK'
    <2>1. PICK w \in Workspaces : rows' = [rows EXCEPT ![d].workspace = w]
      BY <1>9 DEF Create
    <2>2. [rows[d] EXCEPT !.workspace = w] \in Rows
      BY DEF TypeOK, Rows
    <2>3. QED
      BY <1>9, <2>1, <2>2 DEF Create, TypeOK
  <1>10. ASSUME NEW d \in Ids, ServerChanges(d) PROVE TypeOK'
    BY <1>10 DEF ServerChanges, TypeOK
  <1>11. CASE Tick
    BY <1>11, MaxTimeIsTime DEF Tick, TypeOK, Times
  <1>12. CASE UNCHANGED vars
    BY <1>12 DEF vars, TypeOK
  <1>13. QED
    BY <1>1, <1>2, <1>3, <1>4, <1>5, <1>6, <1>7, <1>8, <1>9, <1>10, <1>11, <1>12
       DEF Next, Handle

\* Datasources, requests and the clock keep their types.
THEOREM TypeCorrect == Spec => []TypeOK
  <1>1. Init => TypeOK
    BY InitType
  <1>2. TypeOK /\ [Next]_vars => TypeOK'
    BY NextType
  <1>3. QED
    BY <1>1, <1>2, PTL DEF Spec

-----------------------------------------------------------------------------
(* Nobody forgets a datasource that is syncing                             *)

LEMMA InitInv == Init => IInv
  <1> SUFFICES ASSUME Init PROVE IInv
    OBVIOUS
  <1>1. TypeOK
    BY InitType
  <1>2. OnlySyncsMark /\ ReadsAreFresh
    BY DEF Init, OnlySyncsMark, ReadsAreFresh
  <1>3. SyncingIsInFlight
    BY DEF Init, SyncingIsInFlight
  <1>4. TimesPassed
    BY DEF Init, TimesPassed, Never
  <1>5. QED
    BY <1>1, <1>2, <1>3, <1>4 DEF IInv

\* A step of r that changes no status and lets a sync of r go on, if it was
\* one, keeps every sync in flight.
LEMMA StillInFlight ==
  ASSUME SyncingIsInFlight, NEW r \in Requests,
         \A s \in Requests \ {r} : pc'[s] = pc[s] /\ call'[s] = call[s],
         \A d \in Ids : rows'[d].status = rows[d].status,
         interrupted \subseteq interrupted',
         Syncing(r) /\ call[r].id \notin interrupted'
           => Syncing(r)' /\ call'[r].id = call[r].id
  PROVE  SyncingIsInFlight'
  <1> SUFFICES ASSUME NEW d \in Ids \ interrupted', rows'[d].status = "syncing"
               PROVE  \E s \in Requests : Syncing(s)' /\ call'[s].id = d
    BY DEF SyncingIsInFlight
  <1>1. PICK s \in Requests : Syncing(s) /\ call[s].id = d
    BY DEF SyncingIsInFlight
  <1>2. CASE s = r
    BY <1>1, <1>2
  <1>3. CASE s # r
    BY <1>1, <1>3 DEF Syncing
  <1>4. QED
    BY <1>2, <1>3

LEMMA NextInFlight ==
  TypeOK /\ OnlySyncsMark /\ SyncingIsInFlight /\ [Next]_vars
    => OnlySyncsMark' /\ SyncingIsInFlight'
  <1> SUFFICES ASSUME TypeOK, OnlySyncsMark, SyncingIsInFlight, [Next]_vars
               PROVE  OnlySyncsMark' /\ SyncingIsInFlight'
    OBVIOUS
  <1>1. ASSUME NEW r \in Requests, Begin(r) PROVE OnlySyncsMark' /\ SyncingIsInFlight'
    <2>1. /\ pc[r] = "idle" /\ Goto(r, "find")
          /\ \A s \in Requests \ {r} : call'[s] = call[s]
          /\ UNCHANGED <<rows, interrupted>>
      BY <1>1 DEF Begin, TypeOK
    <2>2. OnlySyncsMark'
      BY <2>1 DEF OnlySyncsMark, Goto, TypeOK
    <2>3. SyncingIsInFlight'
      BY <2>1, StillInFlight DEF Goto, TypeOK, Syncing
    <2>4. QED
      BY <2>2, <2>3
  <1>2. ASSUME NEW r \in Requests, FindByWorkspaceAndId(r)
        PROVE  OnlySyncsMark' /\ SyncingIsInFlight'
    <2>1. pc[r] = "find" /\ UNCHANGED <<rows, interrupted>>
      BY <1>2 DEF FindByWorkspaceAndId
    <2>2. \A s \in Requests \ {r} : pc'[s] = pc[s] /\ call'[s] = call[s]
      BY <1>2 DEF FindByWorkspaceAndId, Finish, Goto, TypeOK
    <2>3. pc'[r] = "markSyncing" => call[r].op = "sync" /\ call' = call
      BY <1>2 DEF FindByWorkspaceAndId, Finish, Goto, TypeOK
    <2>4. OnlySyncsMark'
      BY <2>2, <2>3 DEF OnlySyncsMark
    <2>5. SyncingIsInFlight'
      BY <2>1, <2>2, StillInFlight DEF Syncing
    <2>6. QED
      BY <2>4, <2>5
  <1>3. ASSUME NEW r \in Requests, MarkSyncing(r)
        PROVE  OnlySyncsMark' /\ SyncingIsInFlight'
    <2>1. /\ pc[r] = "markSyncing" /\ UpdateStatus(r, "syncing", Never)
          /\ Goto(r, "connect") /\ UNCHANGED <<call, interrupted>>
      BY <1>3 DEF MarkSyncing
    <2>2. \A d \in Ids \ {call[r].id} : rows'[d] = rows[d]
      BY <2>1, UpdatedRows DEF DatasourceStatus
    <2>3. Syncing(r)'
      BY <2>1 DEF OnlySyncsMark, Syncing, Goto, TypeOK
    <2>4. SyncingIsInFlight'
      <3> SUFFICES ASSUME NEW d \in Ids \ interrupted', rows'[d].status = "syncing"
                   PROVE  \E s \in Requests : Syncing(s)' /\ call'[s].id = d
        BY DEF SyncingIsInFlight
      <3>1. CASE d = call[r].id
        BY <2>1, <2>3, <3>1
      <3>2. CASE d # call[r].id
        <4>1. PICK s \in Requests : Syncing(s) /\ call[s].id = d
          BY <2>1, <2>2, <3>2 DEF SyncingIsInFlight
        <4>2. Syncing(s)'
          BY <2>1, <3>2, <4>1 DEF Syncing, Goto, TypeOK
        <4>3. QED
          BY <2>1, <4>1, <4>2
      <3>3. QED
        BY <3>1, <3>2
    <2>5. OnlySyncsMark'
      BY <2>1 DEF OnlySyncsMark, Goto, TypeOK
    <2>6. QED
      BY <2>4, <2>5
  <1>4. ASSUME NEW r \in Requests, Connect(r)
        PROVE  OnlySyncsMark' /\ SyncingIsInFlight'
    <2>1. pc[r] = "connect" /\ UNCHANGED <<rows, interrupted>>
      BY <1>4 DEF Connect
    <2>2. \E l \in {"query", "write"} : Goto(r, l)
      BY <1>4 DEF Connect
    <2>3. /\ \A s \in Requests \ {r} : pc'[s] = pc[s] /\ call'[s] = call[s]
          /\ call'[r].id = call[r].id /\ call'[r].op = call[r].op
      BY <1>4, <2>1, <2>2, LearnedCall DEF Connect, Goto, TypeOK
    <2>4. pc'[r] \in {"query", "write"}
      BY <2>2 DEF Goto, TypeOK
    <2>5. OnlySyncsMark'
      BY <2>3, <2>4 DEF OnlySyncsMark
    <2>6. SyncingIsInFlight'
      BY <2>1, <2>3, <2>4, StillInFlight DEF Syncing
    <2>7. QED
      BY <2>5, <2>6
  <1>5. ASSUME NEW r \in Requests, Query(r)
        PROVE  OnlySyncsMark' /\ SyncingIsInFlight'
    <2> DEFINE ok == server[call[r].id] = "up" /\ Accepts(call[r].op)
    <2>1. pc[r] = "query" /\ UNCHANGED <<rows, interrupted>>
      BY <1>5 DEF Query
    <2>2. CASE ok /\ call[r].op = "sample"
      <3>1. Finish(r)
        BY <1>5, <2>2 DEF Query
      <3>2. /\ \A s \in Requests \ {r} : pc'[s] = pc[s] /\ call'[s] = call[s]
            /\ pc'[r] = "idle"
        BY <3>1 DEF Finish, Goto, TypeOK
      <3>3. OnlySyncsMark'
        BY <3>2 DEF OnlySyncsMark
      <3>4. SyncingIsInFlight'
        BY <2>1, <2>2, <3>2, StillInFlight DEF Syncing
      <3>5. QED
        BY <3>3, <3>4
    <2>3. CASE ~(ok /\ call[r].op = "sample")
      <3>1. Goto(r, "write") /\ Learn(r, ok)
        BY <1>5, <2>3 DEF Query
      <3>2. ok \in BOOLEAN
        OBVIOUS
      <3>3. /\ \A s \in Requests \ {r} : call'[s] = call[s]
            /\ call'[r].id = call[r].id /\ call'[r].op = call[r].op
        BY <2>1, <3>1, <3>2, LearnedCall
      <3>4. /\ \A s \in Requests \ {r} : pc'[s] = pc[s]
            /\ pc'[r] = "write"
        BY <3>1 DEF Goto, TypeOK
      <3>5. OnlySyncsMark'
        BY <3>3, <3>4 DEF OnlySyncsMark
      <3>6. SyncingIsInFlight'
        BY <2>1, <3>3, <3>4, StillInFlight DEF Syncing
      <3>7. QED
        BY <3>5, <3>6
    <2>4. QED
      BY <2>2, <2>3
  <1>6. ASSUME NEW r \in Requests, WriteOutcome(r)
        PROVE  OnlySyncsMark' /\ SyncingIsInFlight'
    <2>1. /\ pc[r] = "write" /\ Finish(r) /\ UNCHANGED interrupted
          /\ UpdateStatus(r, Outcome(call[r]), SyncedAt(call[r]))
      BY <1>6 DEF WriteOutcome
    <2>2. /\ rows'[call[r].id].status # "syncing"
          /\ \A d \in Ids \ {call[r].id} : rows'[d] = rows[d]
      BY <2>1, CallType, OutcomeType, UpdatedRows
    <2>3. /\ \A s \in Requests \ {r} : pc'[s] = pc[s] /\ call'[s] = call[s]
          /\ pc'[r] = "idle"
      BY <2>1 DEF Finish, Goto, TypeOK
    <2>4. SyncingIsInFlight'
      <3> SUFFICES ASSUME NEW d \in Ids \ interrupted', rows'[d].status = "syncing"
                   PROVE  \E s \in Requests : Syncing(s)' /\ call'[s].id = d
        BY DEF SyncingIsInFlight
      <3>1. d # call[r].id
        BY <2>2
      <3>2. PICK s \in Requests : Syncing(s) /\ call[s].id = d
        BY <2>1, <2>2, <3>1 DEF SyncingIsInFlight
      <3>3. QED
        BY <2>3, <3>1, <3>2 DEF Syncing
    <2>5. OnlySyncsMark'
      BY <2>3 DEF OnlySyncsMark
    <2>6. QED
      BY <2>4, <2>5
  <1>7. ASSUME NEW r \in Requests, WriteFails(r)
        PROVE  OnlySyncsMark' /\ SyncingIsInFlight'
    <2>1. /\ pc[r] = "write" /\ Learn(r, FALSE) /\ UNCHANGED <<rows, pc, interrupted>>
      BY <1>7 DEF WriteFails
    <2>2. /\ \A s \in Requests \ {r} : call'[s] = call[s]
          /\ call'[r].id = call[r].id /\ call'[r].op = call[r].op
      BY <2>1, LearnedCall
    <2>3. OnlySyncsMark'
      BY <2>1, <2>2 DEF OnlySyncsMark
    <2>4. SyncingIsInFlight'
      BY <2>1, <2>2, StillInFlight DEF Syncing
    <2>5. QED
      BY <2>3, <2>4
  <1>8. ASSUME NEW r \in Requests, Crash(r)
        PROVE  OnlySyncsMark' /\ SyncingIsInFlight'
    <2>1. /\ pc[r] # "idle" /\ Finish(r) /\ UNCHANGED rows
          /\ interrupted' = interrupted \union {d \in Ids : Syncing(r) /\ call[r].id = d}
      BY <1>8 DEF Crash
    <2>2. /\ \A s \in Requests \ {r} : pc'[s] = pc[s] /\ call'[s] = call[s]
          /\ pc'[r] = "idle"
      BY <2>1 DEF Finish, Goto, TypeOK
    <2>3. Syncing(r) => call[r].id \in interrupted'
      BY <2>1, CallType
    <2>4. OnlySyncsMark'
      BY <2>2 DEF OnlySyncsMark
    <2>5. SyncingIsInFlight'
      BY <2>1, <2>2, <2>3, StillInFlight
    <2>6. QED
      BY <2>4, <2>5
  <1>9. ASSUME NEW d \in Ids, Create(d) PROVE OnlySyncsMark' /\ SyncingIsInFlight'
    <2>1. UNCHANGED <<pc, call, interrupted>>
      BY <1>9 DEF Create
    <2>2. \A e \in Ids : rows'[e].status = rows[e].status
      BY <1>9 DEF Create, TypeOK, Rows
    <2>3. QED
      BY <2>1, <2>2 DEF OnlySyncsMark, SyncingIsInFlight, Syncing
  <1>10. ASSUME UNCHANGED <<rows, pc, call, interrupted>>
         PROVE  OnlySyncsMark' /\ SyncingIsInFlight'
    BY <1>10 DEF OnlySyncsMark, SyncingIsInFlight, Syncing
  <1>11. (\E d \in Ids : ServerChanges(d)) \/ Tick \/ UNCHANGED vars
           => UNCHANGED <<rows, pc, call, interrupted>>
    BY DEF ServerChanges, Tick, vars
  <1>12. QED
    BY <1>1, <1>2, <1>3, <1>4, <1>5, <1>6, <1>7, <1>8, <1>9, <1>10, <1>11
       DEF Next, Handle

\* A datasource is SYNCING only while a sync of it is in flight, or because one
\* was interrupted: however syncs, tests and sample queries interleave.
THEOREM SyncingInFlight == Spec => []SyncingIsInFlight
  <1>1. Init => TypeOK /\ OnlySyncsMark /\ SyncingIsInFlight
    BY InitInv DEF IInv
  <1>2. TypeOK /\ OnlySyncsMark /\ SyncingIsInFlight /\ [Next]_vars
          => (TypeOK /\ OnlySyncsMark /\ SyncingIsInFlight)'
    BY NextType, NextInFlight
  <1>3. QED
    BY <1>1, <1>2, PTL DEF Spec

-----------------------------------------------------------------------------
(* The time of the last sync                                               *)

\* A step of r that leaves the times alone keeps what is known of them, if r
\* does not write next, or has read the clock right now.
LEMMA TimesKept ==
  ASSUME TypeOK, TimesPassed, ReadsAreFresh, NEW r \in Requests,
         \A s \in Requests \ {r} : pc'[s] = pc[s] /\ call'[s] = call[s],
         \A d \in Ids : rows'[d].lastSync = rows[d].lastSync,
         now' = now, overtaken \ {r} \subseteq overtaken',
         pc'[r] # "write" \/ (call'[r].id \in Ids /\ call'[r].at = now)
  PROVE  TimesPassed' /\ ReadsAreFresh'
  <1>1. \A s \in Requests : pc'[s] = "write" => call'[s].at <= now'
    <2> SUFFICES ASSUME NEW s \in Requests, pc'[s] = "write" PROVE call'[s].at <= now
      OBVIOUS
    <2>1. CASE s = r
      <3>1. call'[s].at = now
        BY <2>1
      <3>2. now \in Nat
        BY TimesAreNumbers DEF TypeOK
      <3>3. QED
        BY <3>1, <3>2
    <2>2. CASE s # r
      BY <2>2 DEF TimesPassed
    <2>3. QED
      BY <2>1, <2>2
  <1>2. TimesPassed'
    BY <1>1 DEF TimesPassed
  <1>3. ASSUME NEW s \in Requests \ overtaken', pc'[s] = "write"
        PROVE  rows'[call'[s].id].lastSync <= call'[s].at
    <2>1. CASE s = r
      BY <1>3, <2>1 DEF TimesPassed
    <2>2. CASE s # r
      <3>1. pc[s] = "write" /\ call'[s] = call[s] /\ s \notin overtaken
        BY <1>3, <2>2
      <3>2. call[s].id \in Ids
        BY <3>1, CallType
      <3>3. QED
        BY <3>1, <3>2 DEF ReadsAreFresh
    <2>3. QED
      BY <2>1, <2>2
  <1>4. QED
    BY <1>2, <1>3 DEF ReadsAreFresh

\* What the write of an outcome does to the time of the last sync.
LEMMA OutcomeTimes ==
  ASSUME TypeOK, NEW r \in Requests, WriteOutcome(r)
  PROVE  /\ call[r].id \in Ids
         /\ \A d \in Ids \ {call[r].id} : rows'[d] = rows[d]
         /\ \/ /\ rows'[call[r].id].lastSync = rows[call[r].id].lastSync
               /\ overtaken' = overtaken \ {r}
            \/ /\ rows'[call[r].id].lastSync = call[r].at
               /\ \A s \in Requests \ {r} :
                    pc[s] = "write" /\ call[s].id = call[r].id => s \in overtaken'
         /\ overtaken \ {r} \subseteq overtaken'
         /\ \A s \in Requests \ {r} : pc'[s] = pc[s] /\ call'[s] = call[s]
         /\ pc'[r] = "idle" /\ call'[r] = NoCall
  <1>1. /\ pc[r] = "write" /\ Finish(r)
        /\ UpdateStatus(r, Outcome(call[r]), SyncedAt(call[r]))
    BY DEF WriteOutcome
  <1>2. /\ Outcome(call[r]) \in DatasourceStatus
        /\ SyncedAt(call[r]) \in Times \union {Never}
        /\ SyncedAt(call[r]) \in {call[r].at, Never}
    BY <1>1, CallType, OutcomeType
  <1>3. /\ rows'[call[r].id].lastSync =
             IF SyncedAt(call[r]) = Never THEN rows[call[r].id].lastSync
                                          ELSE SyncedAt(call[r])
        /\ \A d \in Ids \ {call[r].id} : rows'[d] = rows[d]
    BY <1>1, <1>2, UpdatedRows
  <1>4. overtaken' = (overtaken \ {r}) \union
          {s \in Requests \ {r} : SyncedAt(call[r]) # Never /\ pc[s] = "write"
                                    /\ call[s].id = call[r].id}
    BY <1>1 DEF UpdateStatus
  <1>5. /\ \A s \in Requests \ {r} : pc'[s] = pc[s] /\ call'[s] = call[s]
        /\ pc'[r] = "idle" /\ call'[r] = NoCall
    BY <1>1 DEF Finish, Goto, TypeOK
  <1>6. CASE SyncedAt(call[r]) = Never
    BY <1>1, <1>3, <1>4, <1>5, <1>6, CallType
  <1>7. CASE SyncedAt(call[r]) # Never
    BY <1>1, <1>2, <1>3, <1>4, <1>5, <1>7, CallType
  <1>8. QED
    BY <1>6, <1>7

LEMMA NextTimes ==
  TypeOK /\ TimesPassed /\ ReadsAreFresh /\ [Next]_vars
    => TimesPassed' /\ ReadsAreFresh'
  <1> SUFFICES ASSUME TypeOK, TimesPassed, ReadsAreFresh, [Next]_vars
               PROVE  TimesPassed' /\ ReadsAreFresh'
    OBVIOUS
  <1>1. ASSUME NEW r \in Requests, Begin(r) PROVE TimesPassed' /\ ReadsAreFresh'
    <2>1. /\ pc[r] = "idle" /\ Goto(r, "find")
          /\ \A s \in Requests \ {r} : call'[s] = call[s]
          /\ UNCHANGED <<now, rows, overtaken>>
      BY <1>1 DEF Begin, TypeOK
    <2>2. QED
      BY <2>1, TimesKept DEF Goto, TypeOK
  <1>2. ASSUME NEW r \in Requests, FindByWorkspaceAndId(r)
        PROVE  TimesPassed' /\ ReadsAreFresh'
    <2>1. UNCHANGED <<now, rows, overtaken>>
      BY <1>2 DEF FindByWorkspaceAndId
    <2>2. /\ \A s \in Requests \ {r} : pc'[s] = pc[s] /\ call'[s] = call[s]
          /\ pc'[r] # "write"
      BY <1>2 DEF FindByWorkspaceAndId, Finish, Goto, TypeOK
    <2>3. QED
      BY <2>1, <2>2, TimesKept
  <1>3. ASSUME NEW r \in Requests, MarkSyncing(r)
        PROVE  TimesPassed' /\ ReadsAreFresh'
    <2>1. /\ pc[r] = "markSyncing" /\ UpdateStatus(r, "syncing", Never)
          /\ Goto(r, "connect") /\ UNCHANGED <<now, call>>
      BY <1>3 DEF MarkSyncing
    <2>2. /\ \A d \in Ids : rows'[d].lastSync = rows[d].lastSync
      BY <2>1, UpdatedRows DEF DatasourceStatus
    <2>3. overtaken \ {r} \subseteq overtaken'
      BY <2>1 DEF UpdateStatus
    <2>4. /\ \A s \in Requests \ {r} : pc'[s] = pc[s]
          /\ pc'[r] # "write"
      BY <2>1 DEF Goto, TypeOK
    <2>5. QED
      BY <2>1, <2>2, <2>3, <2>4, TimesKept
  <1>4. ASSUME NEW r \in Requests, pc[r] # "idle", NEW ok \in BOOLEAN, Learn(r, ok),
               \A s \in Requests \ {r} : pc'[s] = pc[s],
               UNCHANGED <<now, rows, overtaken>>
        PROVE  TimesPassed' /\ ReadsAreFresh'
    <2>1. /\ \A s \in Requests \ {r} : call'[s] = call[s]
          /\ call'[r].id \in Ids /\ call'[r].at = now
      BY <1>4, LearnedCall, CallType
    <2>2. QED
      BY <1>4, <2>1, TimesKept
  <1>5. ASSUME NEW r \in Requests, Connect(r) PROVE TimesPassed' /\ ReadsAreFresh'
    <2>1. pc[r] = "connect" /\ UNCHANGED <<now, rows, overtaken>>
      BY <1>5 DEF Connect
    <2>2. CASE server[call[r].id] = "up"
      <3>1. /\ \A s \in Requests \ {r} : pc'[s] = pc[s] /\ call'[s] = call[s]
            /\ pc'[r] # "write"
        BY <1>5, <2>2 DEF Connect, Goto, TypeOK
      <3>2. QED
        BY <2>1, <3>1, TimesKept
    <2>3. CASE server[call[r].id] # "up"
      <3>1. Learn(r, FALSE) /\ \A s \in Requests \ {r} : pc'[s] = pc[s]
        BY <1>5, <2>3 DEF Connect, Goto, TypeOK
      <3>2. QED
        BY <1>4, <2>1, <3>1
    <2>4. QED
      BY <2>2, <2>3
  <1>6. ASSUME NEW r \in Requests, Query(r) PROVE TimesPassed' /\ ReadsAreFresh'
    <2> DEFINE ok == server[call[r].id] = "up" /\ Accepts(call[r].op)
    <2>1. pc[r] = "query" /\ UNCHANGED <<now, rows, overtaken>>
      BY <1>6 DEF Query
    <2>2. CASE ok /\ call[r].op = "sample"
      <3>1. Finish(r)
        BY <1>6, <2>2 DEF Query
      <3>2. /\ \A s \in Requests \ {r} : pc'[s] = pc[s] /\ call'[s] = call[s]
            /\ pc'[r] # "write"
        BY <3>1 DEF Finish, Goto, TypeOK
      <3>3. QED
        BY <2>1, <3>2, TimesKept
    <2>3. CASE ~(ok /\ call[r].op = "sample")
      <3>1. Goto(r, "write") /\ Learn(r, ok)
        BY <1>6, <2>3 DEF Query
      <3>2. ok \in BOOLEAN
        OBVIOUS
      <3>3. \A s \in Requests \ {r} : pc'[s] = pc[s]
        BY <3>1 DEF Goto, TypeOK
      <3>4. QED
        BY <1>4, <2>1, <3>1, <3>2, <3>3
    <2>4. QED
      BY <2>2, <2>3
  <1>7. ASSUME NEW r \in Requests, WriteOutcome(r)
        PROVE  TimesPassed' /\ ReadsAreFresh'
    <2>1. now' = now /\ pc[r] = "write"
      BY <1>7 DEF WriteOutcome
    <2>2. TimesPassed'
      <3>1. call[r].at <= now /\ rows[call[r].id].lastSync <= now
        BY <1>7, <2>1, OutcomeTimes DEF TimesPassed
      <3>2. \A d \in Ids : rows'[d].lastSync <= now
        BY <1>7, <3>1, OutcomeTimes DEF TimesPassed
      <3>3. \A s \in Requests : pc'[s] = "write" => call'[s].at <= now
        BY <1>7, OutcomeTimes DEF TimesPassed
      <3>4. QED
        BY <2>1, <3>2, <3>3 DEF TimesPassed
    <2>3. ASSUME NEW s \in Requests \ overtaken', pc'[s] = "write"
          PROVE  rows'[call'[s].id].lastSync <= call'[s].at
      <3>1. s # r /\ pc[s] = "write" /\ call'[s] = call[s] /\ s \notin overtaken
        BY <1>7, <2>3, OutcomeTimes
      <3>2. call[s].id \in Ids /\ rows[call[s].id].lastSync <= call[s].at
        BY <3>1, CallType DEF ReadsAreFresh
      <3>3. rows'[call[s].id].lastSync = rows[call[s].id].lastSync
        BY <1>7, <2>3, <3>1, <3>2, OutcomeTimes
      <3>4. QED
        BY <3>1, <3>2, <3>3
    <2>4. QED
      BY <2>2, <2>3 DEF ReadsAreFresh
  <1>8. ASSUME NEW r \in Requests, WriteFails(r) PROVE TimesPassed' /\ ReadsAreFresh'
    <2>1. /\ pc[r] = "write" /\ Learn(r, FALSE)
          /\ UNCHANGED <<now, rows, pc, overtaken>>
      BY <1>8 DEF WriteFails
    <2>2. QED
      BY <1>4, <2>1
  <1>9. ASSUME NEW r \in Requests, Crash(r) PROVE TimesPassed' /\ ReadsAreFresh'
    <2>1. Finish(r) /\ overtaken' = overtaken \ {r} /\ UNCHANGED <<now, rows>>
      BY <1>9 DEF Crash
    <2>2. /\ \A s \in Requests \ {r} : pc'[s] = pc[s] /\ call'[s] = call[s]
          /\ pc'[r] # "write"
      BY <2>1 DEF Finish, Goto, TypeOK
    <2>3. QED
      BY <2>1, <2>2, TimesKept
  <1>10. ASSUME NEW d \in Ids, Create(d) PROVE TimesPassed' /\ ReadsAreFresh'
    <2>1. UNCHANGED <<now, pc, call, overtaken>>
      BY <1>10 DEF Create
    <2>2. \A e \in Ids : rows'[e].lastSync = rows[e].lastSync
      BY <1>10 DEF Create, TypeOK, Rows
    <2>3. QED
      BY <2>1, <2>2, CallType DEF TimesPassed, ReadsAreFresh
  <1>11. CASE Tick
    <2>1. now' = now + 1 /\ UNCHANGED <<rows, pc, call, overtaken>>
      BY <1>11 DEF Tick
    <2>2. ReadsAreFresh'
      BY <2>1 DEF ReadsAreFresh
    <2>3. \A d \in Ids : rows[d].lastSync \in Nat
      BY TimesAreNumbers DEF TypeOK, Rows
    <2>4. \A r \in Requests : pc[r] = "write" => call[r].at \in Nat
      BY CallType, TimesAreNumbers
    <2>5. now \in Nat
      BY TimesAreNumbers DEF TypeOK
    <2>6. TimesPassed'
      BY <2>1, <2>3, <2>4, <2>5 DEF TimesPassed
    <2>7. QED
      BY <2>2, <2>6
  <1>12. ASSUME UNCHANGED <<now, rows, pc, call, overtaken>>
         PROVE  TimesPassed' /\ ReadsAreFresh'
    BY <1>12 DEF TimesPassed, ReadsAreFresh
  <1>13. (\E d \in Ids : ServerChanges(d)) \/ UNCHANGED vars
           => UNCHANGED <<now, rows, pc, call, overtaken>>
    BY DEF ServerChanges, vars
  <1>14. QED
    BY <1>1, <1>2, <1>3, <1>5, <1>6, <1>7, <1>8, <1>9, <1>10, <1>11, <1>12, <1>13
       DEF Next, Handle

\* Syncs in flight, times and what the requests have read are as IInv says.
THEOREM Invariance == Spec => []IInv
  <1>1. Init => IInv
    BY InitInv
  <1>2. IInv /\ [Next]_vars => IInv'
    BY NextType, NextInFlight, NextTimes DEF IInv
  <1>3. QED
    BY <1>1, <1>2, PTL DEF Spec

\* Whoever moves last_sync backwards has been overtaken.
LEMMA OnlyOvertakenMoveBack ==
  ASSUME IInv, [Next]_vars, NEW d \in Ids, rows'[d].lastSync < rows[d].lastSync
  PROVE  \E r \in overtaken : call[r].id = d /\ call'[r] = NoCall
  <1> USE DEF IInv
  <1>1. rows[d].lastSync \in Nat
    BY TimesAreNumbers DEF TypeOK, Rows
  <1>2. rows'[d].lastSync # rows[d].lastSync
    BY <1>1
  <1>3. ASSUME NEW r \in Requests, MarkSyncing(r) PROVE FALSE
    BY <1>2, <1>3, UpdatedRows DEF MarkSyncing, DatasourceStatus
  <1>4. ASSUME NEW e \in Ids, Create(e) PROVE FALSE
    BY <1>2, <1>4 DEF Create, TypeOK, Rows
  <1>5. ASSUME UNCHANGED rows PROVE FALSE
    BY <1>2, <1>5
  <1>6. PICK r \in Requests : WriteOutcome(r)
    BY <1>3, <1>4, <1>5
       DEF Next, Handle, Begin, FindByWorkspaceAndId, Connect, Query, WriteFails,
           Crash, ServerChanges, Tick, vars
  <1>7. pc[r] = "write" /\ d = call[r].id /\ rows'[d].lastSync = call[r].at
        /\ call'[r] = NoCall
    BY <1>2, <1>6, OutcomeTimes DEF WriteOutcome
  <1>8. call[r].at \in Nat
    BY <1>7, CallType, TimesAreNumbers
  <1>9. r \in overtaken
    BY <1>1, <1>7, <1>8 DEF ReadsAreFresh
  <1>10. QED
    BY <1>7, <1>9

\* No test, sample query or failed sync takes back the time of an earlier sync;
\* only a sync that another one has overtaken moves last_sync backwards.
THEOREM LastSyncForward == Spec => LastSyncMovesForward
  <1>1. IInv /\ [Next]_vars
          => [\A d \in Ids :
                rows'[d].lastSync < rows[d].lastSync
                  => \E r \in overtaken : call[r].id = d /\ call'[r] = NoCall]_vars
    BY OnlyOvertakenMoveBack
  <1>2. QED
    BY <1>1, Invariance, PTL DEF Spec, LastSyncMovesForward

=============================================================================
