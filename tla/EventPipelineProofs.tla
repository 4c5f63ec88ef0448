------------------------- MODULE EventPipelineProofs -------------------------
(***************************************************************************)
(* Theorems about EventPipeline, for any number of keys, workspaces,       *)
(* requests and jobs, and any bodies.                                      *)
(***************************************************************************)
EXTENDS EventPipeline, TLAPS

-----------------------------------------------------------------------------
(* The inductive invariant of the key guard                                *)

\* What a request is about, by where it is.
CallsOK ==
  \A r \in Requests :
    /\ keyPc[r] \in {"findById", "revoke"} => keyCall[r] \in Access!Revocation
    /\ keyPc[r] \in {"findByHash", "markUsed", "handle"} => keyCall[r] \in Access!Ingestion

\* A request the guard let pass acts for its key as the table has it, except
\* that the key may have been revoked since.
ContextsHold ==
  \A r \in Requests : Access!Resolved(r) =>
    LET row == keys[keyCall[r].key]
    IN  /\ row.workspace = keyCall[r].workspace
        /\ row.permissions = keyCall[r].permissions
        /\ row.state = "active" \/ (row.state = "revoked" /\ r \in outrun)

AccessInv ==
  /\ Access!TypeOK
  /\ CallsOK
  /\ ContextsHold

USE DEF Access!NoCall, Access!NoWorkspace

LEMMA InitAccess == Init => AccessInv
  <1> SUFFICES ASSUME Init PROVE AccessInv
    OBVIOUS
  <1>1. Access!Init
    BY DEF Init
  <1>2. Access!TypeOK
    BY <1>1 DEF Access!Init, Access!TypeOK, Access!Rows, Access!Labels
  <1>3. CallsOK /\ ContextsHold
    BY <1>1 DEF Access!Init, CallsOK, ContextsHold, Access!Resolved
  <1>4. QED
    BY <1>2, <1>3 DEF AccessInv

\* A step of r: the others stay where they are.
OnlyRequest(r) ==
  \A s \in Requests \ {r} : keyPc'[s] = keyPc[s] /\ keyCall'[s] = keyCall[s]

LEMMA FinishedRequest ==
  ASSUME AccessInv, NEW r \in Requests, Access!Finish(r), UNCHANGED keys
  PROVE  AccessInv'
  <1> USE DEF AccessInv
  <1>1. /\ keyPc' = [keyPc EXCEPT ![r] = "idle"]
        /\ keyCall' = [keyCall EXCEPT ![r] = [key |-> "none"]]
        /\ outrun' = outrun \ {r}
    BY DEF Access!Finish, Access!Goto
  <1>2. OnlyRequest(r) /\ keyPc'[r] = "idle" /\ keyCall'[r] = [key |-> "none"]
    BY <1>1 DEF OnlyRequest, Access!TypeOK
  <1>3. Access!TypeOK'
    BY <1>1, <1>2 DEF Access!TypeOK, Access!Labels, OnlyRequest, Access!Resolved
  <1>4. CallsOK'
    BY <1>2 DEF CallsOK, OnlyRequest
  <1>5. ContextsHold'
    BY <1>1, <1>2 DEF ContextsHold, OnlyRequest, Access!Resolved
  <1>6. QED
    BY <1>3, <1>4, <1>5

\* A request that comes, or goes on from one step to the next.
LEMMA MovedRequest ==
  ASSUME AccessInv, NEW r \in Requests, NEW label \in {"findById", "revoke", "findByHash"},
         NEW call \in Access!Revocation \union Access!Ingestion,
         label \in {"findById", "revoke"} => call \in Access!Revocation,
         label = "findByHash" => call \in Access!Ingestion,
         keyPc[r] \notin {"markUsed", "handle"},
         keyPc' = [keyPc EXCEPT ![r] = label],
         keyCall' = [keyCall EXCEPT ![r] = call],
         UNCHANGED <<keys, outrun>>
  PROVE  AccessInv'
  <1> USE DEF AccessInv
  <1>1. OnlyRequest(r) /\ keyPc'[r] = label /\ keyCall'[r] = call
    BY DEF OnlyRequest, Access!TypeOK
  <1>2. call # [key |-> "none"]
    BY DEF Access!Revocation, Access!Ingestion
  <1>3. Access!TypeOK'
    BY <1>1, <1>2 DEF Access!TypeOK, Access!Labels, OnlyRequest, Access!Resolved
  <1>4. CallsOK'
    BY <1>1 DEF CallsOK, OnlyRequest
  <1>5. ContextsHold'
    BY <1>1 DEF ContextsHold, OnlyRequest, Access!Resolved
  <1>6. QED
    BY <1>3, <1>4, <1>5

LEMMA CreateStep ==
  ASSUME AccessInv, NEW k \in Keys, Access!CreateForWorkspace(k)
  PROVE  AccessInv'
  <1> USE DEF AccessInv
  <1>1. PICK w \in Workspaces, p \in SUBSET Permissions :
          keys' = [keys EXCEPT ![k] = [workspace |-> w, permissions |-> p,
                                       state |-> "active", everUsed |-> FALSE]]
    BY DEF Access!CreateForWorkspace
  <1>2. keys[k].state = "unused" /\ UNCHANGED <<keyPc, keyCall, outrun>>
    BY DEF Access!CreateForWorkspace
  <1>3. Access!TypeOK'
    BY <1>1, <1>2 DEF Access!TypeOK, Access!Rows, Access!Resolved
  <1>4. CallsOK'
    BY <1>2 DEF CallsOK
  <1>5. ContextsHold'
    <2> SUFFICES ASSUME NEW r \in Requests, Access!Resolved(r)
                 PROVE  keys'[keyCall[r].key] = keys[keyCall[r].key]
      BY <1>2 DEF ContextsHold, Access!Resolved
    <2>1. keys[keyCall[r].key].state # "unused"
      BY DEF ContextsHold
    <2>2. keyCall[r].key \in Keys
      BY DEF CallsOK, Access!Ingestion, Access!Resolved
    <2>3. QED
      BY <1>1, <1>2, <2>1, <2>2 DEF Access!TypeOK
  <1>6. QED
    BY <1>3, <1>4, <1>5

LEMMA AdminStep ==
  ASSUME AccessInv, NEW r \in Requests, Access!Admin(r)
  PROVE  AccessInv'
  <1>1. CASE Access!BeginRevoke(r)
    <2>1. PICK w \in Workspaces, k \in Access!Issued :
            /\ keyPc[r] = "idle"
            /\ Access!Goto(r, "findById")
            /\ keyCall' = [keyCall EXCEPT ![r] = [key |-> k, workspace |-> w]]
            /\ UNCHANGED <<keys, outrun>>
      BY <1>1 DEF Access!BeginRevoke
    <2>2. [key |-> k, workspace |-> w] \in Access!Revocation
      BY DEF Access!Revocation, Access!Issued
    <2>3. QED
      BY <2>1, <2>2, MovedRequest DEF Access!Goto
  <1>2. CASE Access!FindActiveByIdAndWorkspace(r)
    <2> USE DEF Access!FindActiveByIdAndWorkspace
    <2>1. keyPc[r] = "findById" /\ UNCHANGED keys
      BY <1>2
    <2>2. CASE Access!Finish(r)
      BY <2>1, <2>2, FinishedRequest
    <2>3. CASE Access!Goto(r, "revoke") /\ UNCHANGED <<keyCall, outrun>>
      <3>1. keyCall[r] \in Access!Revocation
        BY <2>1 DEF AccessInv, CallsOK
      <3>2. keyCall' = [keyCall EXCEPT ![r] = keyCall[r]]
        BY <2>3 DEF AccessInv, Access!TypeOK
      <3>3. QED
        BY <2>1, <2>3, <3>1, <3>2, MovedRequest DEF Access!Goto
    <2>4. QED
      BY <1>2, <2>2, <2>3
  <1>3. CASE Access!Revoke(r)
    <2> USE DEF AccessInv
    <2> DEFINE k == keyCall[r].key
    <2>1. /\ keyPc[r] = "revoke"
          /\ keys' = [keys EXCEPT ![k].state = "revoked"]
          /\ keyPc' = [keyPc EXCEPT ![r] = "idle"]
          /\ keyCall' = [keyCall EXCEPT ![r] = [key |-> "none"]]
          /\ outrun' = outrun \union {s \in Requests : Access!Resolved(s) /\ keyCall[s].key = k}
      BY <1>3 DEF Access!Revoke, Access!Goto
    <2>2. OnlyRequest(r) /\ keyPc'[r] = "idle" /\ keyCall'[r] = [key |-> "none"]
      BY <2>1 DEF OnlyRequest, Access!TypeOK
    <2>3. r \notin outrun' /\ k \in Keys
      BY <2>1 DEF Access!TypeOK, Access!Resolved, CallsOK, Access!Revocation
    <2>4. Access!TypeOK'
      <3>1. keys' \in [Keys -> Access!Rows]
        BY <2>1, <2>3 DEF Access!TypeOK, Access!Rows
      <3>2. /\ keyPc' \in [Requests -> Access!Labels]
            /\ keyCall' \in [Requests -> Access!Revocation \union Access!Ingestion
                                           \union {[key |-> "none"]}]
        BY <2>1 DEF Access!TypeOK, Access!Labels
      <3>3. \A s \in Requests : keyPc'[s] = "idle" <=> keyCall'[s] = [key |-> "none"]
        BY <2>2 DEF Access!TypeOK, OnlyRequest
      <3>4. outrun' \subseteq {s \in Requests : keyPc'[s] \in {"markUsed", "handle"}}
        BY <2>1, <2>2, <2>3 DEF Access!TypeOK, OnlyRequest, Access!Resolved
      <3>5. QED
        BY <3>1, <3>2, <3>3, <3>4 DEF Access!TypeOK, Access!Resolved
    <2>5. CallsOK'
      BY <2>2 DEF CallsOK, OnlyRequest
    <2>6. ContextsHold'
      <3> SUFFICES ASSUME NEW s \in Requests, Access!Resolved(s)'
                   PROVE  LET row == keys'[keyCall'[s].key]
                          IN  /\ row.workspace = keyCall'[s].workspace
                              /\ row.permissions = keyCall'[s].permissions
                              /\ row.state = "active" \/ (row.state = "revoked" /\ s \in outrun')
        BY DEF ContextsHold
      <3>1. s # r /\ keyPc'[s] = keyPc[s] /\ keyCall'[s] = keyCall[s]
        BY <2>2 DEF OnlyRequest, Access!Resolved
      <3>2. Access!Resolved(s)
        BY <3>1 DEF Access!Resolved
      <3>3. keyCall[s].key \in Keys
        BY <3>2 DEF CallsOK, Access!Ingestion, Access!Resolved
      <3>4. LET row == keys[keyCall[s].key]
            IN  /\ row.workspace = keyCall[s].workspace
                /\ row.permissions = keyCall[s].permissions
                /\ row.state = "active" \/ (row.state = "revoked" /\ s \in outrun)
        BY <3>2 DEF ContextsHold
      <3>5. CASE keyCall[s].key = k
        <4>1. s \in outrun'
          BY <2>1, <3>2, <3>5
        <4>2. /\ keys'[k].state = "revoked"
              /\ keys'[k].workspace = keys[k].workspace
              /\ keys'[k].permissions = keys[k].permissions
          BY <2>1, <2>3 DEF Access!TypeOK, Access!Rows
        <4>3. QED
          BY <3>1, <3>4, <3>5, <4>1, <4>2
      <3>6. CASE keyCall[s].key # k
        <4>1. keys'[keyCall[s].key] = keys[keyCall[s].key]
          BY <2>1, <3>3, <3>6 DEF Access!TypeOK
        <4>2. QED
          BY <2>1, <3>1, <3>4, <4>1
      <3>7. QED
        BY <3>5, <3>6
    <2>7. QED
      BY <2>4, <2>5, <2>6
  <1>4. QED
    BY <1>1, <1>2, <1>3 DEF Access!Admin

LEMMA GuardStep ==
  ASSUME AccessInv, NEW r \in Requests, Access!Guard(r)
  PROVE  AccessInv'
  <1>1. CASE Access!BeginIngest(r)
    <2>1. PICK k \in Access!Issued, b \in Bodies :
            /\ keyPc[r] = "idle"
            /\ Access!Goto(r, "findByHash")
            /\ keyCall' = [keyCall EXCEPT ![r] = [key |-> k, workspace |-> "none",
                                                  permissions |-> {}, body |-> b]]
            /\ UNCHANGED <<keys, outrun>>
      BY <1>1 DEF Access!BeginIngest
    <2>2. [key |-> k, workspace |-> "none", permissions |-> {}, body |-> b]
            \in Access!Ingestion
      BY DEF Access!Ingestion, Access!Issued
    <2>3. QED
      BY <2>1, <2>2, MovedRequest DEF Access!Goto
  <1>2. CASE Access!FindActiveByHash(r)
    <2> USE DEF Access!FindActiveByHash
    <2>1. keyPc[r] = "findByHash" /\ UNCHANGED keys
      BY <1>2
    <2>2. CASE keys[keyCall[r].key].state # "active"
      BY <1>2, <2>1, <2>2, FinishedRequest
    <2>3. CASE keys[keyCall[r].key].state = "active"
      <3> USE DEF AccessInv
      <3> DEFINE row  == keys[keyCall[r].key]
                 call == [keyCall[r] EXCEPT !.workspace = row.workspace,
                                            !.permissions = row.permissions]
      <3>1. /\ keyPc' = [keyPc EXCEPT ![r] = "markUsed"]
            /\ keyCall' = [keyCall EXCEPT ![r].workspace = row.workspace,
                                          ![r].permissions = row.permissions]
            /\ UNCHANGED outrun
        BY <1>2, <2>3 DEF Access!Goto
      <3>2. keyCall[r] \in Access!Ingestion
        BY <2>1 DEF CallsOK
      <3>3. row \in Access!Rows
        BY <3>2 DEF Access!Ingestion, Access!TypeOK
      <3>4. call \in Access!Ingestion /\ call.key = keyCall[r].key
        BY <3>2, <3>3 DEF Access!Ingestion, Access!Rows
      <3>5. keyCall' = [keyCall EXCEPT ![r] = call]
        BY <3>1 DEF Access!TypeOK
      <3> HIDE DEF call
      <3>6. OnlyRequest(r) /\ keyPc'[r] = "markUsed" /\ keyCall'[r] = call
        BY <3>1, <3>5 DEF OnlyRequest, Access!TypeOK
      <3>7. call # [key |-> "none"]
        BY <3>4 DEF Access!Ingestion
      <3>8. Access!TypeOK'
        BY <2>1, <3>1, <3>4, <3>5, <3>6, <3>7
           DEF Access!TypeOK, Access!Labels, OnlyRequest, Access!Resolved
      <3>9. CallsOK'
        BY <3>4, <3>6 DEF CallsOK, OnlyRequest
      <3>10. call.workspace = row.workspace /\ call.permissions = row.permissions
        BY <3>2 DEF call, Access!Ingestion
      <3>11. ContextsHold'
        <4>1. ASSUME NEW s \in Requests \ {r}, Access!Resolved(s)'
              PROVE  Access!Resolved(s) /\ keyCall'[s] = keyCall[s]
          BY <3>6, <4>1 DEF OnlyRequest, Access!Resolved
        <4>2. /\ keys'[keyCall'[r].key].workspace = keyCall'[r].workspace
              /\ keys'[keyCall'[r].key].permissions = keyCall'[r].permissions
              /\ keys'[keyCall'[r].key].state = "active"
          BY <2>1, <2>3, <3>4, <3>6, <3>10
        <4>3. QED
          BY <2>1, <3>1, <4>1, <4>2 DEF ContextsHold
      <3>12. QED
        BY <3>8, <3>9, <3>11
    <2>4. QED
      BY <2>2, <2>3
  <1>3. CASE Access!MarkUsed(r)
    <2> USE DEF AccessInv
    <2>1. /\ keyPc[r] = "markUsed"
          /\ keys' = [keys EXCEPT ![keyCall[r].key].everUsed = TRUE]
          /\ keyPc' = [keyPc EXCEPT ![r] = "handle"]
          /\ UNCHANGED <<keyCall, outrun>>
      BY <1>3 DEF Access!MarkUsed, Access!Goto
    <2>2. OnlyRequest(r) /\ keyPc'[r] = "handle"
      BY <2>1 DEF OnlyRequest, Access!TypeOK
    <2>3. keyCall[r] \in Access!Ingestion
      BY <2>1 DEF CallsOK
    <2>4. \A k \in Keys : /\ keys'[k].workspace = keys[k].workspace
                          /\ keys'[k].permissions = keys[k].permissions
                          /\ keys'[k].state = keys[k].state
      BY <2>1 DEF Access!TypeOK, Access!Rows
    <2>5. Access!TypeOK'
      <3>1. keys' \in [Keys -> Access!Rows]
        BY <2>1 DEF Access!TypeOK, Access!Rows
      <3>2. keyPc' \in [Requests -> Access!Labels]
        BY <2>1 DEF Access!TypeOK, Access!Labels
      <3>3. keyCall[r] # [key |-> "none"]
        BY <2>1 DEF Access!TypeOK
      <3>4. \A s \in Requests : keyPc'[s] = "idle" <=> keyCall'[s] = [key |-> "none"]
        BY <2>1, <2>2, <3>3 DEF Access!TypeOK, OnlyRequest
      <3>5. outrun' \subseteq {s \in Requests : keyPc'[s] \in {"markUsed", "handle"}}
        BY <2>1, <2>2 DEF Access!TypeOK, OnlyRequest, Access!Resolved
      <3>6. QED
        BY <2>1, <3>1, <3>2, <3>4, <3>5 DEF Access!TypeOK, Access!Resolved
    <2>6. CallsOK'
      BY <2>1, <2>2, <2>3 DEF CallsOK, OnlyRequest
    <2>7. ContextsHold'
      <3> SUFFICES ASSUME NEW s \in Requests, Access!Resolved(s)'
                   PROVE  LET row == keys'[keyCall'[s].key]
                          IN  /\ row.workspace = keyCall'[s].workspace
                              /\ row.permissions = keyCall'[s].permissions
                              /\ row.state = "active" \/ (row.state = "revoked" /\ s \in outrun')
        BY DEF ContextsHold
      <3>1. Access!Resolved(s)
        BY <2>1, <2>2 DEF OnlyRequest, Access!Resolved
      <3>2. keyCall[s].key \in Keys
        BY <3>1 DEF CallsOK, Access!Ingestion, Access!Resolved
      <3>3. QED
        BY <2>1, <2>4, <3>1, <3>2 DEF ContextsHold
    <2>8. QED
      BY <2>5, <2>6, <2>7
  <1>4. QED
    BY <1>1, <1>2, <1>3 DEF Access!Guard

LEMMA AccessInduction == AccessInv /\ [Next]_vars => AccessInv'
  <1> SUFFICES ASSUME AccessInv, [Next]_vars
               PROVE  AccessInv'
    OBVIOUS
  <1>1. ASSUME NEW r \in Requests, Ingest(r)
        PROVE  AccessInv'
    <2>1. Access!Finish(r) /\ UNCHANGED keys
      BY <1>1 DEF Ingest, Access!Handle
    <2>2. QED
      BY <2>1, FinishedRequest
  <1>2. CASE AccessStep
    <2>1. ASSUME NEW r \in Requests, Access!Crash(r)
          PROVE  AccessInv'
      <3>1. Access!Finish(r) /\ UNCHANGED keys
        BY <2>1 DEF Access!Crash
      <3>2. QED
        BY <3>1, FinishedRequest
    <2>2. QED
      BY <1>2, <2>1, CreateStep, AdminStep, GuardStep DEF AccessStep
  <1>3. CASE UNCHANGED keyVars
    BY <1>3 DEF keyVars, AccessInv, Access!TypeOK, CallsOK, ContextsHold, Access!Resolved
  <1>4. QED
    BY <1>1, <1>2, <1>3 DEF Next, DailyStep, vars

-----------------------------------------------------------------------------
(* The events of a request                                                 *)

\* What a request carries, whatever its shape, are the events of its body.
LEMMA Batches ==
  ASSUME NEW b \in Bodies
  PROVE  /\ DOMAIN NormalizeBodyToEvents(b) = DOMAIN b.events
         /\ \A i \in DOMAIN b.events : NormalizeBodyToEvents(b)[i] = b.events[i]
  <1> DEFINE Raw == {b.events[i] : i \in DOMAIN b.events}
  <1>1. b.events \in Seq(Raw) /\ (b.shape = "single" => Len(b.events) = 1)
    BY BodiesAreRequests
  <1> HIDE DEF Raw
  <1>2. DOMAIN b.events = 1..Len(b.events) /\ Len(b.events) \in Nat
    BY <1>1
  <1>3. CASE b.shape # "single"
    BY <1>3 DEF NormalizeBodyToEvents
  <1>4. CASE b.shape = "single"
    <2>1. NormalizeBodyToEvents(b) = SubSeq(b.events, 1, 1)
      BY <1>4 DEF NormalizeBodyToEvents
    <2>2. SubSeq(b.events, 1, 1) = [i \in 1..1 |-> b.events[i]]
      BY <1>1, <1>4
    <2>3. QED
      BY <1>1, <1>2, <1>4, <2>1, <2>2
  <1>5. QED
    BY <1>3, <1>4

\* The rows of a batch belong to one workspace.
LEMMA StoredEvents ==
  ASSUME NEW workspace, NEW batch, Store(workspace, batch),
         NEW i \in EventIds, events'[i] # events[i]
  PROVE  events'[i].workspace = workspace
  BY DEF Store, RowOf

\* Events come with a request that the guard let pass, and leave its batch.
LEMMA EventsStep ==
  ASSUME AccessInv, [Next]_vars, NEW i \in EventIds, events'[i] # events[i]
  PROVE  \E r \in Requests : /\ keyPc[r] = "handle" /\ keyPc'[r] = "idle"
                             /\ events'[i].workspace = keyCall[r].workspace
                             /\ Permission \in keyCall[r].permissions
  <1>1. ASSUME NEW r \in Requests, Ingest(r)
        PROVE  /\ keyPc[r] = "handle" /\ keyPc'[r] = "idle"
               /\ events'[i].workspace = keyCall[r].workspace
               /\ Permission \in keyCall[r].permissions
    <2> DEFINE call == keyCall[r]
    <2>1. keyPc[r] = "handle" /\ keyPc'[r] = "idle"
      BY <1>1 DEF Ingest, Access!Handle, Access!Finish, Access!Goto, AccessInv, Access!TypeOK
    <2>2. Accepted(call.body, call.permissions, schemaEnforce)
      BY <1>1 DEF Ingest, dailyVars
    <2>3. Store(call.workspace, NormalizeBodyToEvents(call.body))
      BY <1>1, <2>2 DEF Ingest
    <2>4. Permission \in call.permissions
      BY <2>2 DEF Accepted, RequestOK
    <2>5. QED
      BY <2>1, <2>3, <2>4, StoredEvents
  <1>2. ~AccessStep /\ ~UNCHANGED vars
    BY DEF AccessStep, dailyVars, vars
  <1>3. ~DailyStep
    BY DEF DailyStep, Daily!Aggregation, Daily!StartJob, Daily!RetryJob, Daily!CountEvents,
           Daily!WriteAggregates, Daily!FailJob, Daily!Metrics, Daily!BeginGrowth,
           Daily!BeginDaily, Daily!Begin, Daily!Reply, Daily!Midnight
  <1>4. QED
    BY <1>1, <1>2, <1>3 DEF Next

\* What the table of keys and the requests have to do with each other.
LEMMA AccessInvariant == Spec => []AccessInv
  BY InitAccess, AccessInduction, PTL DEF Spec

\* Only a request whose key the guard found active brings events, to the
\* workspace of that key.
THEOREM LiveKeys == Spec => OnlyLiveKeysIngest
  <1>1. ASSUME AccessInv, [Next]_vars, NEW i \in EventIds, events'[i] # events[i]
        PROVE  \E r \in Requests :
                 LET row == keys[keyCall[r].key]
                 IN  /\ keyPc[r] = "handle" /\ keyPc'[r] = "idle"
                     /\ row.state = "active" \/ r \in outrun
                     /\ row.workspace = events'[i].workspace
                     /\ Permission \in row.permissions
    <2>1. PICK r \in Requests : /\ keyPc[r] = "handle" /\ keyPc'[r] = "idle"
                                /\ events'[i].workspace = keyCall[r].workspace
                                /\ Permission \in keyCall[r].permissions
      BY <1>1, EventsStep
    <2>2. QED
      BY <1>1, <2>1 DEF AccessInv, ContextsHold, Access!Resolved
  <1>2. AccessInv /\ [Next]_vars =>
          [\A i \in EventIds :
             events'[i] # events[i] =>
               \E r \in Requests :
                 LET row == keys[keyCall[r].key]
                 IN  /\ keyPc[r] = "handle" /\ keyPc'[r] = "idle"
                     /\ row.state = "active" \/ r \in outrun
                     /\ row.workspace = events'[i].workspace
                     /\ Permission \in row.permissions]_vars
    BY <1>1
  <1>3. QED
    BY <1>2, AccessInvariant, PTL DEF Spec, OnlyLiveKeysIngest

\* A batch with an event that does not conform leaves no event behind.
THEOREM BadBatches == Spec => BadBatchesLeaveNothing
  <1>1. ASSUME AccessInv, [Next]_vars, NEW r \in Requests,
               keyPc[r] = "handle", keyPc'[r] = "idle",
               NEW i \in DOMAIN keyCall[r].body.events,
               ~Conforms(keyCall[r].body.events[i])
        PROVE  events' = events
    <2> DEFINE body == keyCall[r].body
    <2>1. Ingest(r)
      <3>1. keyPc'[r] # keyPc[r]
        BY <1>1
      <3>2. ASSUME NEW s \in Requests, s # r, Ingest(s)
            PROVE  FALSE
        BY <3>1, <3>2 DEF Ingest, Access!Handle, Access!Finish, Access!Goto,
                          AccessInv, Access!TypeOK
      <3>3. ~AccessStep
        <4> SUFFICES ASSUME AccessStep PROVE FALSE
          OBVIOUS
        <4>1. ASSUME NEW s \in Requests, Access!Admin(s)
              PROVE  FALSE
          BY <1>1, <4>1
             DEF Access!Admin, Access!BeginRevoke, Access!FindActiveByIdAndWorkspace,
                 Access!Revoke, Access!Finish, Access!Goto, AccessInv, Access!TypeOK
        <4>2. ASSUME NEW s \in Requests, Access!Guard(s)
              PROVE  FALSE
          BY <1>1, <4>2
             DEF Access!Guard, Access!BeginIngest, Access!FindActiveByHash, Access!MarkUsed,
                 Access!Finish, Access!Goto, AccessInv, Access!TypeOK
        <4>3. ASSUME NEW s \in Requests, Access!Crash(s)
              PROVE  FALSE
          BY <1>1, <4>3
             DEF Access!Crash, Access!Finish, Access!Goto, AccessInv, Access!TypeOK
        <4>4. QED
          BY <3>1, <4>1, <4>2, <4>3 DEF AccessStep, Access!CreateForWorkspace
      <3>4. QED
        BY <1>1, <3>1, <3>2, <3>3 DEF Next, DailyStep, vars, keyVars
    <2>2. body \in Bodies
      BY <1>1 DEF AccessInv, CallsOK, Access!Ingestion
    <2>3. ~EventOK(schemaEnforce, body.events[i])
      BY <1>1 DEF Conforms, EventOK, ValidateOrThrow
    <2>4. ~Accepted(body, keyCall[r].permissions, schemaEnforce)
      BY <1>1, <2>2, <2>3, Batches DEF Accepted
    <2>5. QED
      BY <2>1, <2>4 DEF Ingest, dailyVars
  <1>2. AccessInv /\ [Next]_vars =>
          [\A r \in Requests :
             /\ keyPc[r] = "handle" /\ keyPc'[r] = "idle"
             /\ (\E i \in DOMAIN keyCall[r].body.events :
                   ~Conforms(keyCall[r].body.events[i]))
             => events' = events]_vars
    BY <1>1
  <1>3. QED
    BY <1>2, AccessInvariant, PTL DEF Spec, BadBatchesLeaveNothing

-----------------------------------------------------------------------------
(* The aggregates, with events that come from requests                     *)

DailyP == INSTANCE DailyAggregatesProofs

\* Seen from the aggregates, the pipeline is DailyAggregates: whatever a request
\* stores is an insertion of events.
LEMMA PipelineAggregates == Spec => Daily!Spec
  <1>1. Init => Daily!Init
    BY DEF Init
  <1>2. [Next]_vars => [Daily!Next]_(Daily!dailyVars)
    <2>1. ASSUME NEW r \in Requests, Ingest(r)
          PROVE  Daily!InsertEvents \/ UNCHANGED dailyVars
      BY <2>1 DEF Ingest, Store
    <2>2. AccessStep => UNCHANGED dailyVars
      BY DEF AccessStep
    <2>3. DailyStep => Daily!Next
      BY DEF DailyStep, Daily!Next
    <2>4. UNCHANGED vars => UNCHANGED dailyVars
      BY DEF vars
    <2>5. UNCHANGED dailyVars => UNCHANGED Daily!dailyVars
      BY DEF dailyVars, Daily!dailyVars
    <2>6. Daily!InsertEvents => Daily!Next
      BY DEF Daily!Next
    <2>7. QED
      BY <2>1, <2>2, <2>3, <2>4, <2>5, <2>6 DEF Next
  <1>3. QED
    BY <1>1, <1>2, PTL DEF Spec, Daily!Spec

\* The names of DailyAggregatesProofs mean what those of DailyAggregates do.
LEMMA SameSizes ==
  ASSUME NEW set
  PROVE  /\ Daily!IsFiniteSet(set) = DailyP!IsFiniteSet(set)
         /\ Daily!Cardinality(set) = DailyP!Cardinality(set)
  BY DEF Daily!IsFiniteSet, DailyP!IsFiniteSet, Daily!Cardinality, DailyP!Cardinality

LEMMA SameParameters == DailyP!Parameters
  BY DailyParameters, SameSizes
     DEF Daily!Parameters, DailyP!Parameters, Daily!Filters, DailyP!Filters

LEMMA SameBuckets == Daily!Buckets = DailyP!Buckets /\ Daily!NoRow = DailyP!NoRow
  BY DEF Daily!Buckets, DailyP!Buckets, Daily!Days, DailyP!Days, Daily!NoRow, DailyP!NoRow

LEMMA SameGroups ==
  ASSUME NEW b
  PROVE  /\ Daily!CountOf(b) = DailyP!CountOf(b)
         /\ Daily!UsersOf(b) = DailyP!UsersOf(b)
         /\ Daily!UniqueUsersOf(b) = DailyP!UniqueUsersOf(b)
  <1>1. Daily!EventsIn(b) = DailyP!EventsIn(b)
    BY DEF Daily!EventsIn, DailyP!EventsIn, Daily!BucketOf, DailyP!BucketOf
  <1>2. Daily!UsersOf(b) = DailyP!UsersOf(b)
    BY <1>1 DEF Daily!UsersOf, DailyP!UsersOf, Daily!NoUser, DailyP!NoUser
  <1>3. QED
    BY <1>1, <1>2, SameSizes
       DEF Daily!CountOf, DailyP!CountOf, Daily!UniqueUsersOf, DailyP!UniqueUsersOf

LEMMA SameQueries ==
  ASSUME NEW w, NEW names, NEW from, NEW to
  PROVE  /\ Daily!SumCounts(w, names, from, to) = DailyP!SumCounts(w, names, from, to)
         /\ Daily!SumUniqueUsers(w, names, from, to) = DailyP!SumUniqueUsers(w, names, from, to)
         /\ Daily!DatesIn(w, names, from, to) = DailyP!DatesIn(w, names, from, to)
         /\ Daily!ValidRange(from, to) <=> DailyP!ValidRange(from, to)
  <1>1. Daily!RowsIn(w, names, from, to) = DailyP!RowsIn(w, names, from, to)
    BY SameBuckets DEF Daily!RowsIn, DailyP!RowsIn
  <1>2. \A rows, n : Daily!Total(rows, n) = DailyP!Total(rows, n)
    BY SameSizes DEF Daily!Total, DailyP!Total
  <1>3. Daily!SumCounts(w, names, from, to) = DailyP!SumCounts(w, names, from, to)
    BY <1>1, <1>2, SameBuckets DEF Daily!SumCounts, DailyP!SumCounts
  <1>4. Daily!SumUniqueUsers(w, names, from, to) = DailyP!SumUniqueUsers(w, names, from, to)
    BY <1>1, <1>2, SameBuckets DEF Daily!SumUniqueUsers, DailyP!SumUniqueUsers
  <1>5. Daily!DatesIn(w, names, from, to) = DailyP!DatesIn(w, names, from, to)
    BY <1>1 DEF Daily!DatesIn, DailyP!DatesIn
  <1>6. Daily!ValidRange(from, to) <=> DailyP!ValidRange(from, to)
    BY DEF Daily!ValidRange, DailyP!ValidRange, Daily!MaxRangeDays, DailyP!MaxRangeDays
  <1>7. QED
    BY <1>3, <1>4, <1>5, <1>6

LEMMA SameSpec == Daily!Spec => DailyP!Spec
  <1>1. Daily!Init => DailyP!Init
    BY DEF Daily!Init, DailyP!Init, Daily!WorkersEnabled, DailyP!WorkersEnabled,
           Daily!ParseJobsEnableWorkers, DailyP!ParseJobsEnableWorkers,
           Daily!Settings, DailyP!Settings, Daily!NoEvent, DailyP!NoEvent,
           Daily!NoUser, DailyP!NoUser, Daily!Buckets, DailyP!Buckets, Daily!Days,
           DailyP!Days, Daily!NoRow, DailyP!NoRow, Daily!NoJob, DailyP!NoJob,
           Daily!NoQuery, DailyP!NoQuery
  <1>2. Daily!InsertEvents => DailyP!InsertEvents
    BY DEF Daily!InsertEvents, DailyP!InsertEvents, Daily!Events, DailyP!Events,
           Daily!NoEvent, DailyP!NoEvent, Daily!NoUser, DailyP!NoUser, Daily!Days,
           DailyP!Days, Daily!Unused, DailyP!Unused, Daily!BucketOf, DailyP!BucketOf
  <1>3. ASSUME NEW j \in Jobs
        PROVE  Daily!Aggregation(j) => DailyP!Aggregation(j)
    <2>1. Daily!StartJob(j) => DailyP!StartJob(j)
      BY DEF Daily!StartJob, DailyP!StartJob, Daily!NoJob, DailyP!NoJob, Daily!Target,
             DailyP!Target, Daily!DayOffset, DailyP!DayOffset, Daily!Clamp, DailyP!Clamp,
             Daily!Buckets, DailyP!Buckets, Daily!Days, DailyP!Days,
             Daily!NoRow, DailyP!NoRow, Daily!ghosts, DailyP!ghosts
    <2>2. Daily!RetryJob(j) => DailyP!RetryJob(j)
      BY DEF Daily!RetryJob, DailyP!RetryJob, Daily!Target, DailyP!Target,
             Daily!DayOffset, DailyP!DayOffset, Daily!Clamp, DailyP!Clamp,
             Daily!ghosts, DailyP!ghosts
    <2>3. Daily!CountEvents(j) => DailyP!CountEvents(j)
      <3>1. \A day : Daily!Grouped(day) = DailyP!Grouped(day)
        BY SameBuckets, SameGroups DEF Daily!Grouped, DailyP!Grouped
      <3>2. QED
        BY <3>1 DEF Daily!CountEvents, DailyP!CountEvents
    <2>4. Daily!WriteAggregates(j) => DailyP!WriteAggregates(j)
      BY DEF Daily!WriteAggregates, DailyP!WriteAggregates, Daily!Upserted, DailyP!Upserted,
             Daily!Buckets, DailyP!Buckets, Daily!Days, DailyP!Days,
             Daily!NoJob, DailyP!NoJob, Daily!NoQuery, DailyP!NoQuery
    <2>5. Daily!FailJob(j) => DailyP!FailJob(j)
      BY DEF Daily!FailJob, DailyP!FailJob, Daily!Buckets, DailyP!Buckets, Daily!Days,
             DailyP!Days, Daily!NoRow, DailyP!NoRow, Daily!NoJob, DailyP!NoJob
    <2>6. QED
      BY <2>1, <2>2, <2>3, <2>4, <2>5 DEF Daily!Aggregation, DailyP!Aggregation
  <1>4. ASSUME NEW q \in Readers
        PROVE  Daily!Metrics(q) => DailyP!Metrics(q)
    <2>1. \A op, w, a, first : Daily!Begin(q, op, w, a, first) => DailyP!Begin(q, op, w, a, first)
      BY DEF Daily!Begin, DailyP!Begin, Daily!NoQuery, DailyP!NoQuery,
             Daily!ghosts, DailyP!ghosts
    <2>2. Daily!BeginGrowth(q) => DailyP!BeginGrowth(q)
      BY <2>1, SameQueries DEF Daily!BeginGrowth, DailyP!BeginGrowth
    <2>3. Daily!BeginDaily(q) => DailyP!BeginDaily(q)
      BY <2>1, SameQueries, SameSizes DEF Daily!BeginDaily, DailyP!BeginDaily
    <2>4. Daily!Reply(q) => DailyP!Reply(q)
      BY DEF Daily!Reply, DailyP!Reply, Daily!NoQuery, DailyP!NoQuery
    <2>5. QED
      BY <2>2, <2>3, <2>4 DEF Daily!Metrics, DailyP!Metrics
  <1>5. Daily!Midnight => DailyP!Midnight
    BY DEF Daily!Midnight, DailyP!Midnight, Daily!NoJob, DailyP!NoJob
  <1>6. [Daily!Next]_(Daily!dailyVars) => [DailyP!Next]_(DailyP!dailyVars)
    BY <1>2, <1>3, <1>4, <1>5
       DEF Daily!Next, DailyP!Next, Daily!dailyVars, DailyP!dailyVars
  <1>7. QED
    BY <1>1, <1>6, PTL DEF Daily!Spec, DailyP!Spec

LEMMA SameTypes == DailyP!TypeOK => Daily!TypeOK
  <1>1. Daily!Days = DailyP!Days /\ Daily!Aggregate = DailyP!Aggregate
    BY DEF Daily!Days, DailyP!Days, Daily!Aggregate, DailyP!Aggregate
  <1>2. Daily!Events = DailyP!Events /\ Daily!NoEvent = DailyP!NoEvent
    BY <1>1 DEF Daily!Events, DailyP!Events, Daily!NoEvent, DailyP!NoEvent,
                Daily!NoUser, DailyP!NoUser
  <1>3. Daily!Job = DailyP!Job /\ Daily!NoJob = DailyP!NoJob
    BY <1>1, SameBuckets DEF Daily!Job, DailyP!Job, Daily!NoJob, DailyP!NoJob
  <1>4. Daily!Query = DailyP!Query /\ Daily!NoQuery = DailyP!NoQuery
    BY DEF Daily!Query, DailyP!Query, Daily!Filters, DailyP!Filters,
           Daily!NoQuery, DailyP!NoQuery
  <1>5. QED
    BY <1>1, <1>2, <1>3, <1>4, SameBuckets DEF Daily!TypeOK, DailyP!TypeOK

\* The keys, the requests and the aggregates keep their types.
THEOREM TypeCorrect == Spec => []TypeOK
  <1>1. DailyP!Spec => []DailyP!TypeOK
    BY SameParameters, DailyP!TypeCorrect
  <1> DEFINE SchemaOK == schemaEnforce \in BOOLEAN
  <1>2. Init => SchemaOK
    BY DEF Init, ParseEventSchemaEnforce, Settings
  <1>3. SchemaOK /\ [Next]_vars => SchemaOK'
    BY DEF Next, Ingest, AccessStep, DailyStep, vars
  <1>4. AccessInv /\ DailyP!TypeOK /\ SchemaOK => TypeOK
    BY SameTypes DEF AccessInv, TypeOK
  <1> HIDE DEF SchemaOK
  <1>5. QED
    BY <1>1, <1>2, <1>3, <1>4, AccessInvariant, PipelineAggregates, SameSpec, PTL DEF Spec

\* However often a day is aggregated, its rows count no event of a request twice,
\* and miss only events that came after a snapshot of the day.
THEOREM CountsAreExact == Spec => []AggregatesAreExact
  <1>1. DailyP!Spec => []DailyP!AggregatesAreExact
    BY SameParameters, DailyP!CountsAreExact
  <1>2. DailyP!AggregatesAreExact => AggregatesAreExact
    BY SameBuckets, SameGroups
       DEF DailyP!AggregatesAreExact, Daily!AggregatesAreExact, AggregatesAreExact
  <1>3. QED
    BY <1>1, <1>2, PipelineAggregates, SameSpec, PTL

\* A count shrinks only when a job writes that another one has overtaken.
THEOREM CountsGrow == Spec => CountsNeverShrink
  <1>1. DailyP!Spec => DailyP!CountsNeverShrink
    BY SameParameters, DailyP!CountsGrow
  <1> DEFINE Stays == \A b \in Daily!Buckets :
                        aggregates'[b].count < aggregates[b].count
                          => \E j \in overtaken : jobs[j].target = b.day /\ jobs'[j] = Daily!NoJob
             StaysP == \A b \in DailyP!Buckets :
                         aggregates'[b].count < aggregates[b].count
                           => \E j \in overtaken : jobs[j].target = b.day /\ jobs'[j] = DailyP!NoJob
  <1>2. [StaysP]_(DailyP!dailyVars) => [Stays]_(Daily!dailyVars)
    BY SameBuckets DEF Daily!NoJob, DailyP!NoJob, Daily!dailyVars, DailyP!dailyVars
  <1>3. DailyP!CountsNeverShrink => Daily!CountsNeverShrink
    BY <1>2, PTL DEF DailyP!CountsNeverShrink, Daily!CountsNeverShrink
  <1>4. QED
    BY <1>1, <1>3, PipelineAggregates, SameSpec, PTL DEF CountsNeverShrink

\* Every day is aggregated the day after, unless that day ended with the work
\* not done.
THEOREM NoDayForgotten == Spec => []DaysAreSkippedOnlyWhenDelayed
  <1>1. DailyP!Spec => []DailyP!DaysAreSkippedOnlyWhenDelayed
    BY SameParameters, DailyP!NoDayForgotten
  <1>2. DailyP!DaysAreSkippedOnlyWhenDelayed => DaysAreSkippedOnlyWhenDelayed
    BY DEF DailyP!DaysAreSkippedOnlyWhenDelayed, Daily!DaysAreSkippedOnlyWhenDelayed,
           DaysAreSkippedOnlyWhenDelayed
  <1>3. QED
    BY <1>1, <1>2, PipelineAggregates, SameSpec, PTL

\* Both queries of a reply speak of the same table, unless an aggregation was
\* written in between.
THEOREM RepliesAgree == Spec => []RepliesAreSnapshots
  <1>1. DailyP!Spec => []DailyP!RepliesAreSnapshots
    BY SameParameters, DailyP!RepliesAgree
  <1>2. DailyP!RepliesAreSnapshots => RepliesAreSnapshots
    <2>1. \A query : DailyP!PreviousTotal(query) = Daily!PreviousTotal(query)
      BY SameQueries DEF DailyP!PreviousTotal, Daily!PreviousTotal,
                         DailyP!PreviousFrom, Daily!PreviousFrom
    <2>2. \A n, low, high : DailyP!Clamp(n, low, high) = Daily!Clamp(n, low, high)
      BY DEF DailyP!Clamp, Daily!Clamp
    <2>3. DailyP!MaxLimit = Daily!MaxLimit
      BY DEF DailyP!MaxLimit, Daily!MaxLimit
    <2>4. ASSUME NEW query, NEW limit, NEW offset
          PROVE  DailyP!Cardinality(DailyP!Page(query, limit, offset))
                   = Daily!Cardinality(Daily!Page(query, limit, offset))
      <3>1. DailyP!Page(query, limit, offset) = Daily!Page(query, limit, offset)
        BY <2>2, <2>3, SameQueries, SameSizes DEF DailyP!Page, Daily!Page
      <3>2. QED
        BY <3>1, SameSizes
    <2>5. QED
      BY <2>1, <2>2, <2>3, <2>4, SameQueries
         DEF DailyP!RepliesAreSnapshots, Daily!RepliesAreSnapshots, RepliesAreSnapshots
  <1>3. QED
    BY <1>1, <1>2, PipelineAggregates, SameSpec, PTL

\* The distinct users of a range are never more than its active users, once its
\* days are aggregated and nothing was late.
THEOREM ActiveUsersSuffice == Spec => []ActiveUsersCoverEveryone
  <1>1. DailyP!Spec => []DailyP!ActiveUsersCoverEveryone
    BY SameParameters, DailyP!ActiveUsersSuffice
  <1>2. DailyP!ActiveUsersCoverEveryone => ActiveUsersCoverEveryone
    BY SameGroups, SameQueries, SameSizes
       DEF DailyP!ActiveUsersCoverEveryone, Daily!ActiveUsersCoverEveryone,
           ActiveUsersCoverEveryone
  <1>3. QED
    BY <1>1, <1>2, PipelineAggregates, SameSpec, PTL

-----------------------------------------------------------------------------
(* Requests and the table of events                                        *)

\* A key that was issued has a workspace, and only such keys are revoked.
KeysOwned ==
  /\ \A k \in Keys : keys[k].state # "unused" => keys[k].workspace \in Workspaces
  /\ \A r \in Requests :
       keyPc[r] \in {"findById", "revoke"} => keys[keyCall[r].key].state # "unused"

LEMMA KeysOwnedInduction == AccessInv /\ KeysOwned /\ [Next]_vars => KeysOwned'
  <1> SUFFICES ASSUME AccessInv, KeysOwned, [Next]_vars
               PROVE  KeysOwned'
    OBVIOUS
  \* A step that changes no key, or an issued one, and begins no revocation.
  <1>1. ASSUME \A k \in Keys : /\ keys[k].state # "unused" => keys'[k].state # "unused"
                               /\ keys[k].state = "unused" => keys'[k].state = "unused"
                               /\ keys'[k].workspace = keys[k].workspace,
               \A r \in Requests : keyPc'[r] \in {"findById", "revoke"} =>
                 /\ keyPc[r] \in {"findById", "revoke"}
                 /\ keyCall'[r] = keyCall[r]
        PROVE  KeysOwned'
    BY <1>1 DEF AccessInv, CallsOK, Access!Revocation, KeysOwned
  <1>2. ASSUME NEW r \in Requests, Access!Finish(r), UNCHANGED keys
        PROVE  KeysOwned'
    BY <1>1, <1>2 DEF Access!Finish, Access!Goto, AccessInv, Access!TypeOK
  <1>3. ASSUME NEW k \in Keys, Access!CreateForWorkspace(k)
        PROVE  KeysOwned'
    BY <1>3 DEF Access!CreateForWorkspace, AccessInv, Access!TypeOK, CallsOK,
                Access!Revocation, KeysOwned
  <1>4. ASSUME NEW r \in Requests, Access!Admin(r)
        PROVE  KeysOwned'
    <2>1. CASE Access!BeginRevoke(r)
      BY <2>1 DEF Access!BeginRevoke, Access!Issued, Access!Goto, AccessInv, Access!TypeOK,
                  KeysOwned
    <2>2. CASE Access!FindActiveByIdAndWorkspace(r)
      <3>1. CASE Access!Goto(r, "revoke") /\ UNCHANGED keyCall
        BY <1>1, <2>2, <3>1
           DEF Access!FindActiveByIdAndWorkspace, Access!Goto, AccessInv, Access!TypeOK
      <3>2. QED
        BY <1>2, <2>2, <3>1 DEF Access!FindActiveByIdAndWorkspace
    <2>3. CASE Access!Revoke(r)
      <3>1. /\ keyPc[r] = "revoke" /\ keyCall[r].key \in Keys
            /\ keys[keyCall[r].key].state # "unused"
        BY <2>3 DEF Access!Revoke, AccessInv, CallsOK, Access!Revocation, KeysOwned
      <3>2. keys' = [keys EXCEPT ![keyCall[r].key].state = "revoked"]
        BY <2>3 DEF Access!Revoke
      <3>3. \A k \in Keys : /\ keys[k].state # "unused" => keys'[k].state # "unused"
                            /\ keys[k].state = "unused" => keys'[k].state = "unused"
                            /\ keys'[k].workspace = keys[k].workspace
        BY <3>1, <3>2 DEF AccessInv, Access!TypeOK, Access!Rows
      <3>4. \A s \in Requests : keyPc'[s] \in {"findById", "revoke"} =>
              keyPc[s] \in {"findById", "revoke"} /\ keyCall'[s] = keyCall[s]
        BY <2>3 DEF Access!Revoke, Access!Goto, AccessInv, Access!TypeOK
      <3>5. QED
        BY <1>1, <3>3, <3>4
    <2>4. QED
      BY <1>4, <2>1, <2>2, <2>3 DEF Access!Admin
  <1>5. ASSUME NEW r \in Requests, Access!Guard(r)
        PROVE  KeysOwned'
    <2>1. \A k \in Keys : /\ keys'[k].state = keys[k].state
                          /\ keys'[k].workspace = keys[k].workspace
      BY <1>5 DEF Access!Guard, Access!BeginIngest, Access!FindActiveByHash,
                  Access!MarkUsed, AccessInv, Access!TypeOK, Access!Rows
    <2>2. \A s \in Requests : keyPc'[s] \in {"findById", "revoke"} =>
            keyPc[s] \in {"findById", "revoke"} /\ keyCall'[s] = keyCall[s]
      BY <1>5 DEF Access!Guard, Access!BeginIngest, Access!FindActiveByHash, Access!MarkUsed,
                  Access!Finish, Access!Goto, AccessInv, Access!TypeOK
    <2>3. QED
      BY <1>1, <2>1, <2>2
  <1>6. ASSUME NEW r \in Requests, Ingest(r) \/ Access!Crash(r)
        PROVE  KeysOwned'
    BY <1>2, <1>6 DEF Ingest, Access!Handle, Access!Crash
  <1>7. CASE UNCHANGED keyVars
    BY <1>7 DEF keyVars, KeysOwned
  <1>8. QED
    BY <1>3, <1>4, <1>5, <1>6, <1>7 DEF Next, AccessStep, DailyStep, vars

LEMMA OwnedKeys == Spec => []KeysOwned
  <1>1. Init => KeysOwned
    BY DEF Init, Access!Init, KeysOwned
  <1>2. QED
    BY <1>1, KeysOwnedInduction, AccessInvariant, PTL DEF Spec

LEMMA RowsOfRequests ==
  ASSUME AccessInv, KeysOwned, Daily!TypeOK, NEW r \in Requests, keyPc[r] = "handle",
         NEW i \in DOMAIN NormalizeBodyToEvents(keyCall[r].body)
  PROVE  RowOf(keyCall[r].workspace, NormalizeBodyToEvents(keyCall[r].body)[i]) \in Daily!Events
  <1> DEFINE call == keyCall[r]
             raw  == NormalizeBodyToEvents(call.body)[i]
  <1>1. call.key \in Keys /\ call.body \in Bodies
    BY DEF AccessInv, CallsOK, Access!Ingestion
  <1>2. call.workspace \in Workspaces
    <2>1. keys[call.key] \in Access!Rows /\ keys[call.key].state # "unused"
      BY <1>1 DEF AccessInv, Access!TypeOK, ContextsHold, Access!Resolved
    <2>2. call.workspace = keys[call.key].workspace
      BY DEF AccessInv, ContextsHold, Access!Resolved
    <2>3. QED
      BY <1>1, <2>1, <2>2 DEF KeysOwned
  <1>3. /\ raw.name \in EventNames /\ raw.day \in Daily!Days
        /\ raw.user \in Users \union {Daily!NoUser}
    BY <1>1, Batches, BodiesAreRequests
  <1>4. DayOf(raw, today) \in Daily!Days
    BY <1>3 DEF DayOf, Daily!TypeOK
  <1> HIDE DEF raw
  <1>5. QED
    BY <1>2, <1>3, <1>4 DEF RowOf, Daily!Events, raw

\* What a request stores are events as the table has them: that InsertEvents asks
\* for these keeps no request out.
RequestsFit ==
  \A r \in Requests : keyPc[r] = "handle" =>
    LET batch == NormalizeBodyToEvents(keyCall[r].body)
    IN  \A i \in DOMAIN batch : RowOf(keyCall[r].workspace, batch[i]) \in Daily!Events

\* Every request the guard let pass finds its events fit for the table.
THEOREM RequestsStoreEvents == Spec => []RequestsFit
  <1>1. AccessInv /\ KeysOwned /\ TypeOK => RequestsFit
    BY RowsOfRequests DEF RequestsFit, TypeOK
  <1>2. QED
    BY <1>1, AccessInvariant, OwnedKeys, TypeCorrect, PTL

=============================================================================
