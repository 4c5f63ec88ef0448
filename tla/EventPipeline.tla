---------------------------- MODULE EventPipeline ----------------------------
(***************************************************************************)
(* From the API key to the metrics: ApiKeys resolves the key of a request  *)
(* to /v1/events, EventController checks what it carries, and its events   *)
(* arrive, under the workspace of the key, in the table DailyAggregates    *)
(* counts.  What becomes of a batch inside the transaction is the subject  *)
(* of EventIngestion: here any part of it may be new.                      *)
(***************************************************************************)
EXTENDS Naturals, Sequences, FiniteSets, EventController

CONSTANTS
  Workspaces, Keys, Permissions, Requests, Bodies,     \* ApiKeys
  EventNames, Users, EventIds, MaxDay, Jobs, Attempts, Readers, Asked
                                                       \* DailyAggregates

VARIABLES
  keys, keyPc, keyCall, outrun,                                \* ApiKeys
  enabled, today, events, aggregates, next, jobs, readers,     \* DailyAggregates
  read, written, late, overtaken, delayed, torn,
  schemaEnforce  \* are events without a schema refused?

Access == INSTANCE ApiKeys
Daily  == INSTANCE DailyAggregates

\* A body carries a sequence of events; a single event is the only one.
ASSUME BodiesAreRequests ==
  \A b \in Bodies :
    /\ b.events \in Seq({b.events[i] : i \in DOMAIN b.events})
    /\ b.shape = "single" => Len(b.events) = 1
    /\ \A i \in DOMAIN b.events : /\ b.events[i].name \in EventNames
                                  /\ b.events[i].day \in Daily!Days
                                  /\ b.events[i].user \in Users \union {Daily!NoUser}

ASSUME DailyParameters == Daily!Parameters

keyVars   == <<keys, keyPc, keyCall, outrun>>
dailyVars == <<enabled, today, events, aggregates, next, jobs, readers,
               read, written, late, overtaken, delayed, torn>>
vars      == <<keyVars, dailyVars, schemaEnforce>>

TypeOK ==
  /\ Access!TypeOK
  /\ Daily!TypeOK
  /\ schemaEnforce \in BOOLEAN

\* EVENT_SCHEMA_ENFORCE, and without it NODE_ENV.
ParseEventSchemaEnforce(env) ==
  IF env.EVENT_SCHEMA_ENFORCE = "other" THEN env.NODE_ENV = "production"
                                        ELSE env.EVENT_SCHEMA_ENFORCE = "true"

Settings == [NODE_ENV : {"production", "development", "test"},
             EVENT_SCHEMA_ENFORCE : {"true", "false", "other"}]

Init ==
  /\ Access!Init
  /\ Daily!Init
  /\ schemaEnforce \in {ParseEventSchemaEnforce(env) : env \in Settings}

-----------------------------------------------------------------------------

\* An event as a row of the table.
RowOf(workspace, raw) ==
  [workspace |-> workspace, name |-> raw.name, day |-> DayOf(raw, today),
   user |-> raw.user]

\* The transaction stores those events of the batch that are new to it, each
\* under an id of its own; none if it fails.
Store(workspace, batch) ==
  \E put \in [Daily!Unused -> {0} \union DOMAIN batch] :
    /\ \A i, j \in Daily!Unused : put[i] = put[j] => i = j \/ put[i] = 0
    /\ events' = [i \in EventIds |->
                    IF i \in Daily!Unused /\ put[i] # 0
                      THEN RowOf(workspace, batch[put[i]])
                      ELSE events[i]]
    /\ Daily!InsertEvents

\* EventsController.ingest, with the context of the guard.
Ingest(r) ==
  LET call == keyCall[r]
  IN  /\ Access!Handle(r)
      /\ IF Accepted(call.body, call.permissions, schemaEnforce)
           THEN Store(call.workspace, NormalizeBodyToEvents(call.body))
           ELSE UNCHANGED dailyVars
      /\ UNCHANGED schemaEnforce

AccessStep ==
  /\ \/ \E k \in Keys : Access!CreateForWorkspace(k)
     \/ \E r \in Requests : Access!Admin(r) \/ Access!Guard(r) \/ Access!Crash(r)
  /\ UNCHANGED <<dailyVars, schemaEnforce>>

DailyStep ==
  /\ \/ \E j \in Jobs : Daily!Aggregation(j)
     \/ \E q \in Readers : Daily!Metrics(q)
     \/ Daily!Midnight
  /\ UNCHANGED <<keyVars, schemaEnforce>>

Next ==
  \/ \E r \in Requests : Ingest(r)
  \/ AccessStep
  \/ DailyStep

Spec == Init /\ [][Next]_vars

-----------------------------------------------------------------------------
(* Properties                                                              *)

\* Events arrive only from a request whose key the guard found active, and
\* they go to the workspace of that key; if the key is revoked by then, the
\* revocation has overtaken the request on its way.  A key revoked before the
\* request came lets nothing in.
OnlyLiveKeysIngest ==
  [][\A i \in EventIds :
       events'[i] # events[i] =>
         \E r \in Requests :
           LET row == keys[keyCall[r].key]
           IN  /\ keyPc[r] = "handle" /\ keyPc'[r] = "idle"
               /\ row.state = "active" \/ r \in outrun
               /\ row.workspace = events'[i].workspace
               /\ Permission \in row.permissions]_vars

\* An event has what its schema requires.
Conforms(raw) ==
  IF raw.name \in DOMAIN Schemas
    THEN DOMAIN Schemas[raw.name].required \subseteq DOMAIN raw.properties
    ELSE ~schemaEnforce

\* One bad event keeps its whole batch out.
BadBatchesLeaveNothing ==
  [][\A r \in Requests :
       /\ keyPc[r] = "handle" /\ keyPc'[r] = "idle"
       /\ (\E i \in DOMAIN keyCall[r].body.events : ~Conforms(keyCall[r].body.events[i]))
       => events' = events]_vars

\* The properties of the aggregates, with events that come from requests.
AggregatesAreExact == Daily!AggregatesAreExact
CountsNeverShrink == Daily!CountsNeverShrink
DaysAreSkippedOnlyWhenDelayed == Daily!DaysAreSkippedOnlyWhenDelayed
RepliesAreSnapshots == Daily!RepliesAreSnapshots
ActiveUsersCoverEveryone == Daily!ActiveUsersCoverEveryone

=============================================================================
