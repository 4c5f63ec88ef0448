--------------------------- MODULE EventController ---------------------------
(***************************************************************************)
(* What POST /v1/events makes of a request: the checks of                  *)
(* EventsController.ingest and of the schema registry, without state.      *)
(*                                                                         *)
(* A value of a property is known by its kind.  The kinds of string are    *)
(* those a schema tells apart: "uuid" looks like one, "datetime" is one    *)
(* that Date parses, "string" is any other.                                *)
(***************************************************************************)
EXTENDS Naturals, Sequences

\* The schemas of events/schema, by the name of the event.
UserSignupSchema ==
  [required |-> [email |-> "string"], optional |-> [created |-> "boolean"]]

ApiRequestSchema ==
  [required |-> [method |-> "string", path |-> "string", status |-> "number"],
   optional |-> [durationMs |-> "number", requestId |-> "string"]]

SubscriptionCreatedSchema ==
  [required |-> [workspaceId |-> "uuid", plan |-> "string"],
   optional |-> [trialEndsAt |-> "datetime"]]

Schemas == [user_signup |-> UserSignupSchema,
            api_request |-> ApiRequestSchema,
            subscription_created |-> SubscriptionCreatedSchema]

\* The kinds of value that pass for a type of the schema language.
KindsOf == [string   |-> {"string", "datetime", "uuid"},
            number   |-> {"number"},
            boolean  |-> {"boolean"},
            object   |-> {"object"},
            array    |-> {"array"},
            datetime |-> {"datetime"},
            uuid     |-> {"uuid"}]

IsType(kind, expected) == kind \in KindsOf[expected]

\* A slip: required properties are checked only if they are there.
ValidateOrThrowIfPresent(enforce, eventName, properties) ==
  IF eventName \notin DOMAIN Schemas
    THEN ~enforce
    ELSE \A group \in {"required", "optional"} :
           LET types == Schemas[eventName][group]
           IN  \A k \in DOMAIN types \intersect DOMAIN properties :
                 IsType(properties[k], types[k])

\* An event without a schema passes unless schemas are enforced; one with a
\* schema is held to it always.
ValidateOrThrow(enforce, eventName, properties) ==
  IF eventName \notin DOMAIN Schemas
    THEN ~enforce
    ELSE LET required == Schemas[eventName].required
             optional == Schemas[eventName].optional
         IN  /\ \A k \in DOMAIN required :
                  k \in DOMAIN properties /\ IsType(properties[k], required[k])
             /\ \A k \in DOMAIN optional \intersect DOMAIN properties :
                  IsType(properties[k], optional[k])

-----------------------------------------------------------------------------
(* The request.  `shape` tells which of the accepted bodies it has.        *)

MaxEventsPerRequest == 1000

Permission == "events:ingest"

\* The guard has resolved the key; MAX_INGEST_PAYLOAD_BYTES is 1 MB.
RequestOK(request, permissions) ==
  /\ request.header
  /\ Permission \in permissions
  /\ ~request.tooLarge

\* An array, { events: [] } or a single event.
NormalizeBodyToEvents(request) ==
  IF request.shape = "single" THEN SubSeq(request.events, 1, 1) ELSE request.events

BodyOK(request) ==
  /\ request.shape \in {"array", "events", "single"}
  /\ Len(NormalizeBodyToEvents(request)) <= MaxEventsPerRequest

NameOK(raw) == raw.name \notin {"blank", "tooLong"}

\* Missing properties are an empty object.
PropertiesOK(raw) == raw.isObject

TimestampOK(raw) == raw.time # "invalid"

\* An event without a timestamp happens now.
DayOf(raw, today) == IF raw.time = "given" THEN raw.day ELSE today

EventOK(enforce, raw) ==
  /\ NameOK(raw)
  /\ PropertiesOK(raw)
  /\ ValidateOrThrow(enforce, raw.name, raw.properties)
  /\ TimestampOK(raw)

\* The whole request, or nothing; no events at all is refused by the service.
Accepted(request, permissions, enforce) ==
  /\ RequestOK(request, permissions)
  /\ BodyOK(request)
  /\ request.events # <<>>
  /\ \A i \in DOMAIN NormalizeBodyToEvents(request) :
       EventOK(enforce, NormalizeBodyToEvents(request)[i])

=============================================================================
