----------------------------- MODULE Datasources -----------------------------
(***************************************************************************)
(* DatasourcesService: create, testConnection, sampleQuery and syncNow.    *)
(* Each of the last three reads the row, asks the customer's PostgreSQL    *)
(* server over a connection of its own, and then writes status (and        *)
(* last_sync) by id: nothing is held in between, the last writer wins.     *)
(*                                                                         *)
(* Connecting is bounded by connectionTimeoutMillis, a query is not: a     *)
(* server that falls silent after the connection keeps the request.        *)
(* Time is counted in ticks of one clock; last_sync 0 is NULL.             *)
(***************************************************************************)
EXTENDS Naturals

CONSTANTS
  Workspaces,
  Ids,        \* ids of datasources
  Requests,   \* slots for HTTP requests in flight at the same time
  MaxTime     \* bound on the clock

ASSUME MaxTimeIsTime == MaxTime \in Nat \ {0}

VARIABLES
  now,         \* the clock
  rows,        \* table datasources, with the ids not created yet
  server,      \* external: the PostgreSQL server behind each datasource
  pc,          \* the next step of each request
  call,        \* what each request asked for, and what it has learnt
  interrupted, \* ghost: datasources a sync of which ended without its outcome
  overtaken    \* ghost: requests whose datasource another one has marked
               \* synced since they read the clock

vars == <<now, rows, server, pc, call, interrupted, overtaken>>

Times == 1..MaxTime
Never == 0

DatasourceStatus ==
  {"disconnected", "connected", "sync_queued", "syncing", "synced", "error"}

NoWorkspace == "none"
ASSUME NoWorkspaceIsNone == NoWorkspace \notin Workspaces

Rows == [workspace : Workspaces \union {NoWorkspace},
         status : DatasourceStatus, lastSync : Times \union {Never}]

Ops == {"test", "sample", "sync"}

Call == [op : Ops, workspace : Workspaces, id : Ids, ok : BOOLEAN,
         at : Times \union {Never}]

NoCall == [op |-> "none"]

Labels == {"idle", "find", "markSyncing", "connect", "query", "write"}

\* A sync between its two writes.
Syncing(r) == pc[r] \in {"connect", "query", "write"} /\ call[r].op = "sync"

TypeOK ==
  /\ now \in Times
  /\ rows \in [Ids -> Rows]
  /\ server \in [Ids -> {"up", "down", "silent"}]
  /\ pc \in [Requests -> Labels]
  /\ call \in [Requests -> Call \union {NoCall}]
  /\ \A r \in Requests : pc[r] = "idle" <=> call[r] = NoCall
  /\ interrupted \subseteq Ids
  /\ overtaken \subseteq Requests

Init ==
  /\ now = 1
  /\ rows = [d \in Ids |-> [workspace |-> NoWorkspace, status |-> "disconnected",
                            lastSync |-> Never]]
  /\ server \in [Ids -> {"up", "down", "silent"}]
  /\ pc = [r \in Requests |-> "idle"]
  /\ call = [r \in Requests |-> NoCall]
  /\ interrupted = {}
  /\ overtaken = {}

-----------------------------------------------------------------------------
(* Helpers                                                                 *)

Goto(r, label) == pc' = [pc EXCEPT ![r] = label]

Finish(r) ==
  /\ Goto(r, "idle")
  /\ call' = [call EXCEPT ![r] = NoCall]

\* What the server told the request, and when.
Learn(r, ok) == call' = [call EXCEPT ![r].ok = ok, ![r].at = now]

\* A slip: every update sets last_sync, to NULL if it is not given.
PatchedAlways(row, status, at) ==
  [row EXCEPT !.status = status, !.lastSync = at]

\* The patch of updateStatus: last_sync only if it is given.
Patched(row, status, at) ==
  [row EXCEPT !.status = status, !.lastSync = IF at = Never THEN @ ELSE at]

\* UPDATE ... WHERE workspace_id AND id, whatever the row says by now.
UpdateStatus(r, status, at) ==
  /\ rows' = [rows EXCEPT ![call[r].id] = Patched(@, status, at)]
  /\ overtaken' = (overtaken \ {r}) \union
       {s \in Requests \ {r} : at # Never /\ pc[s] = "write" /\ call[s].id = call[r].id}

-----------------------------------------------------------------------------
(* create                                                                  *)

\* Only the type postgres passes the DTO and the service.
Create(d) ==
  /\ rows[d].workspace = NoWorkspace
  /\ \E w \in Workspaces : rows' = [rows EXCEPT ![d].workspace = w]
  /\ UNCHANGED <<now, server, pc, call, interrupted, overtaken>>

-----------------------------------------------------------------------------
(* testConnection, sampleQuery, syncNow                                    *)

\* WorkspaceGuard: a member of w; any member may ask, for any id.
Begin(r) ==
  \E op \in Ops, w \in Workspaces, d \in Ids :
    /\ pc[r] = "idle"
    /\ rows[d].workspace # NoWorkspace
    /\ Goto(r, "find")
    /\ call' = [call EXCEPT ![r] = [op |-> op, workspace |-> w, id |-> d,
                                    ok |-> FALSE, at |-> Never]]
    /\ UNCHANGED <<now, rows, server, interrupted, overtaken>>

\* A slip: a request for an unknown id stays behind.
FindAndStay(r) ==
  /\ pc[r] = "find"
  /\ Goto(r, IF rows[call[r].id].workspace # call[r].workspace THEN "idle"
             ELSE IF call[r].op = "sync" THEN "markSyncing" ELSE "connect")
  /\ UNCHANGED <<now, rows, server, call, interrupted, overtaken>>

\* DATASOURCE_NOT_FOUND, for an id of another workspace as well.
FindByWorkspaceAndId(r) ==
  /\ pc[r] = "find"
  /\ IF rows[call[r].id].workspace = call[r].workspace
       THEN /\ Goto(r, IF call[r].op = "sync" THEN "markSyncing" ELSE "connect")
            /\ UNCHANGED call
       ELSE Finish(r)
  /\ UNCHANGED <<now, rows, server, interrupted, overtaken>>

MarkSyncing(r) ==
  /\ pc[r] = "markSyncing"
  /\ UpdateStatus(r, "syncing", Never)
  /\ Goto(r, "connect")
  /\ UNCHANGED <<now, server, call, interrupted>>

\* A slip: connecting waits for the server as long as it takes.
ConnectWaits(r) ==
  /\ pc[r] = "connect"
  /\ server[call[r].id] # "silent"
  /\ IF server[call[r].id] = "up"
       THEN Goto(r, "query") /\ UNCHANGED call
       ELSE Goto(r, "write") /\ Learn(r, FALSE)
  /\ UNCHANGED <<now, rows, server, interrupted, overtaken>>

\* client.connect(): refused, or given up after 5000 ms.
Connect(r) ==
  /\ pc[r] = "connect"
  /\ IF server[call[r].id] = "up"
       THEN Goto(r, "query") /\ UNCHANGED call
       ELSE Goto(r, "write") /\ Learn(r, FALSE)
  /\ UNCHANGED <<now, rows, server, interrupted, overtaken>>

\* External: what a PostgreSQL server makes of the queries of each operation.
\* SHOW takes no alias, so it rejects testConnection's second query.
Accepts(op) == op # "test"

\* The server answers, or the connection breaks.  A sample query that was
\* answered writes nothing.
Query(r) ==
  LET ok == server[call[r].id] = "up" /\ Accepts(call[r].op)
  IN  /\ pc[r] = "query"
      /\ server[call[r].id] # "silent"
      /\ IF ok /\ call[r].op = "sample" THEN Finish(r)
                                        ELSE Goto(r, "write") /\ Learn(r, ok)
      /\ UNCHANGED <<now, rows, server, interrupted, overtaken>>

\* The status that tells the outcome of a request.
Outcome(c) == IF ~c.ok THEN "error" ELSE IF c.op = "sync" THEN "synced" ELSE "connected"

SyncedAt(c) == IF c.ok /\ c.op = "sync" THEN c.at ELSE Never

\* A slip: a sync that failed replies without a trace.
WriteOutcomeOfSuccess(r) ==
  /\ pc[r] = "write"
  /\ IF call[r].ok \/ call[r].op # "sync"
       THEN UpdateStatus(r, Outcome(call[r]), SyncedAt(call[r]))
       ELSE UNCHANGED <<rows, overtaken>>
  /\ Finish(r)
  /\ UNCHANGED <<now, server, interrupted>>

WriteOutcome(r) ==
  /\ pc[r] = "write"
  /\ UpdateStatus(r, Outcome(call[r]), SyncedAt(call[r]))
  /\ Finish(r)
  /\ UNCHANGED <<now, server, interrupted>>

\* The UPDATE of a success fails inside the try: the catch block takes the
\* connection for broken and writes ERROR instead.
WriteFails(r) ==
  /\ pc[r] = "write"
  /\ call[r].ok
  /\ Learn(r, FALSE)
  /\ UNCHANGED <<now, rows, server, pc, interrupted, overtaken>>

-----------------------------------------------------------------------------
(* Environment                                                             *)

\* The process dies, or a query outside any try block fails.
Crash(r) ==
  /\ pc[r] # "idle"
  /\ interrupted' = interrupted \union {d \in Ids : Syncing(r) /\ call[r].id = d}
  /\ overtaken' = overtaken \ {r}
  /\ Finish(r)
  /\ UNCHANGED <<now, rows, server>>

ServerChanges(d) ==
  /\ \E s \in {"up", "down", "silent"} \ {server[d]} : server' = [server EXCEPT ![d] = s]
  /\ UNCHANGED <<now, rows, pc, call, interrupted, overtaken>>

Tick ==
  /\ now < MaxTime
  /\ now' = now + 1
  /\ UNCHANGED <<rows, server, pc, call, interrupted, overtaken>>

-----------------------------------------------------------------------------

Handle(r) ==
  \/ FindByWorkspaceAndId(r) \/ MarkSyncing(r)
  \/ Connect(r) \/ Query(r) \/ WriteOutcome(r)

Next ==
  \/ \E r \in Requests : Begin(r) \/ Handle(r) \/ WriteFails(r) \/ Crash(r)
  \/ \E d \in Ids : Create(d) \/ ServerChanges(d)
  \/ Tick

Spec == Init /\ [][Next]_vars

\* The event loop takes every step that can be taken.
FairSpec == Spec /\ \A r \in Requests : WF_vars(Handle(r))

-----------------------------------------------------------------------------
(* Properties                                                              *)

\* SYNCING is never left over: while a datasource says so a sync of it is
\* between its two writes, or one was killed there, or lost both its writes.
\* Other requests may have overwritten the status any number of times.
SyncingIsInFlight ==
  \A d \in Ids \ interrupted :
    rows[d].status = "syncing" => \E r \in Requests : Syncing(r) /\ call[r].id = d

\* No test, sample query or failed sync takes back the time of an earlier
\* sync.  Only a sync that had its answer before another one wrote a later
\* time moves last_sync backwards.
LastSyncMovesForward ==
  [][\A d \in Ids :
       rows'[d].lastSync < rows[d].lastSync
         => \E r \in overtaken : call[r].id = d /\ call'[r] = NoCall]_vars

\* The server falls silent over a query; nothing limits the wait for it.
Stalled(d) ==
  /\ server[d] = "silent"
  /\ \E r \in Requests : pc[r] = "query" /\ call[r].id = d

\* A sync comes to its outcome, whatever the server does while it connects,
\* unless it is killed or the server falls silent over a query.
SyncingEnds ==
  \A d \in Ids :
    rows[d].status = "syncing"
      ~> rows[d].status # "syncing" \/ d \in interrupted \/ Stalled(d)

=============================================================================
