--------------------------- MODULE DailyAggregates ---------------------------
(***************************************************************************)
(* The daily aggregation of JobsService, and the metrics read from its     *)
(* table.  Once a day an iteration of the repeated job is due; whenever a  *)
(* worker comes to it, it aggregates the events of the day before into one *)
(* row for each workspace and event name.  An attempt that fails is made   *)
(* again later, with the day that is yesterday by then.                    *)
(*                                                                         *)
(* The statement sees the events of its snapshot and commits later.        *)
(* A growth rate and a page of daily usage take two queries each.          *)
(***************************************************************************)
EXTENDS Integers, FiniteSets

CONSTANTS
  Workspaces,
  EventNames,
  Users,        \* what properties.userId may say
  EventIds,     \* ids of events: the bound on their table
  MaxDay,       \* bound on the days
  Jobs,         \* slots for iterations that run or wait for a retry
  Attempts,     \* 5 in the code
  Readers,      \* slots for metrics requests of two queries
  Asked         \* the filters and ranges of these requests: [names, from, to]

VARIABLES
  enabled,     \* are there workers: REDIS_URL is set, JOBS_ENABLE_WORKERS is not false
  today,
  events,      \* table events, with the ids not inserted yet
  aggregates,  \* table daily_event_aggregates
  next,        \* external, in Redis: the day the next iteration is due
  jobs,
  readers,
  read,        \* ghost: days of which a snapshot has been taken
  written,     \* ghost: days that were aggregated
  late,        \* ghost: buckets that got an event after a snapshot of their day
  overtaken,   \* ghost: jobs whose day another one has written since their snapshot
  delayed,     \* ghost: days that ended with an iteration due, or waiting for
               \* a retry, or given up
  torn         \* ghost: readers between whose queries aggregates were written

dailyVars == <<enabled, today, events, aggregates, next, jobs, readers,
               read, written, late, overtaken, delayed, torn>>
ghosts == <<read, written, late, overtaken, delayed, torn>>

Days   == 0..MaxDay
NoUser == "none"
NoRow  == [count |-> 0, uniqueUsers |-> 0]

Events == [workspace : Workspaces, name : EventNames, day : Days,
           user : Users \union {NoUser}]

NoEvent == [workspace |-> "none", name |-> "none", day |-> -1, user |-> NoUser]

\* The key of an aggregate.
Buckets == [workspace : Workspaces, name : EventNames, day : Days]

Aggregate == [count : Nat, uniqueUsers : Nat]

Job == [phase : {"active", "counted", "retry"}, target : Days,
        tries : 1..Attempts, rows : [Buckets -> Aggregate]]

NoJob == [phase |-> "idle"]

\* The filter is optional: one event name, or all of them.
Filters == {EventNames} \union {{n} : n \in EventNames}

Query == [op : {"growth", "daily"}, workspace : Workspaces, names : Filters,
          from : Int, to : Int, first : Nat]

NoQuery == [op |-> "none"]

Parameters ==
  /\ MaxDay \in Nat \ {0} /\ Attempts \in Nat \ {0}
  /\ IsFiniteSet(EventIds) /\ IsFiniteSet(EventNames)
  /\ Asked \subseteq [names : Filters, from : Int, to : Int]

TypeOK ==
  /\ enabled \in BOOLEAN
  /\ today \in Days
  /\ events \in [EventIds -> Events \union {NoEvent}]
  /\ aggregates \in [Buckets -> Aggregate]
  /\ next \in 1..MaxDay + 1
  /\ jobs \in [Jobs -> Job \union {NoJob}]
  /\ readers \in [Readers -> Query \union {NoQuery}]
  /\ read \subseteq Days /\ written \subseteq read
  /\ late \subseteq Buckets
  /\ overtaken \subseteq Jobs
  /\ delayed \subseteq Days
  /\ torn \subseteq Readers

-----------------------------------------------------------------------------
(* Configuration                                                           *)

\* The settings as the environment gives them.
Settings == [NODE_ENV : {"production", "development", "test"},
             JOBS_ENABLE_WORKERS : {"true", "false", "other"},
             REDIS_URL : {"given", "blank"}]

ParseJobsEnableWorkers(env) ==
  IF env.JOBS_ENABLE_WORKERS = "other" THEN env.NODE_ENV # "test"
                                       ELSE env.JOBS_ENABLE_WORKERS = "true"

\* onModuleInit returns early without Redis or workers.
WorkersEnabled(env) == env.REDIS_URL = "given" /\ ParseJobsEnableWorkers(env)

Init ==
  /\ enabled \in {WorkersEnabled(env) : env \in Settings}
  /\ today = 1
  /\ events = [i \in EventIds |-> NoEvent]
  /\ aggregates = [b \in Buckets |-> NoRow]
  /\ next = 1
  /\ jobs = [j \in Jobs |-> NoJob]
  /\ readers = [q \in Readers |-> NoQuery]
  /\ read = {} /\ written = {} /\ late = {}
  /\ overtaken = {} /\ delayed = {} /\ torn = {}

-----------------------------------------------------------------------------
(* Events                                                                  *)

BucketOf(e) == [workspace |-> e.workspace, name |-> e.name, day |-> e.day]

Unused == {i \in EventIds : events[i] = NoEvent}

\* Ingestion adds events, of any day; nothing ever takes one away.
InsertEvents ==
  /\ events' \in [EventIds -> Events \union {NoEvent}]
  /\ \A i \in EventIds \ Unused : events'[i] = events[i]
  /\ late' = late \union
       {BucketOf(events'[i]) : i \in {k \in Unused : events'[k].day \in read}}
  /\ UNCHANGED <<enabled, today, aggregates, next, jobs, readers,
                 read, written, overtaken, delayed, torn>>

EventsIn(b) == {i \in EventIds : BucketOf(events[i]) = b}

\* COUNT(*) and COUNT(DISTINCT NULLIF(userId, '')) of a group.
CountOf(b) == Cardinality(EventsIn(b))

UsersOf(b) == {events[i].user : i \in EventsIn(b)} \ {NoUser}

UniqueUsersOf(b) == Cardinality(UsersOf(b))

-----------------------------------------------------------------------------
(* The aggregation job                                                     *)

Clamp(n, low, high) == IF n < low THEN low ELSE IF n > high THEN high ELSE n

DayOffset == Clamp(1, 0, 30)

\* A slip: the day that has just begun.
TargetToday == today

\* Yesterday, when the attempt starts.
Target == today - DayOffset

\* A worker takes the iteration that is due; the next one is due tomorrow.
StartJob(j) ==
  /\ enabled
  /\ next <= today
  /\ jobs[j] = NoJob
  /\ next' = today + 1
  /\ jobs' = [jobs EXCEPT ![j] = [phase |-> "active", target |-> Target, tries |-> 1,
                                  rows |-> [b \in Buckets |-> NoRow]]]
  /\ UNCHANGED <<enabled, today, events, aggregates, readers, ghosts>>

RetryJob(j) ==
  /\ jobs[j].phase = "retry"
  /\ jobs' = [jobs EXCEPT ![j].phase = "active", ![j].target = Target,
                          ![j].tries = @ + 1]
  /\ UNCHANGED <<enabled, today, events, aggregates, next, readers, ghosts>>

\* A slip: a day's events are those up to its end.
GroupedUpTo(day) ==
  [b \in Buckets |->
     IF b.day = day
       THEN [count |-> Cardinality(UNION {EventsIn([b EXCEPT !.day = d]) : d \in 0..day}),
             uniqueUsers |-> UniqueUsersOf(b)]
       ELSE NoRow]

\* SELECT ... GROUP BY workspace_id, event_name, for the events of a day
Grouped(day) ==
  [b \in Buckets |->
     IF b.day = day THEN [count |-> CountOf(b), uniqueUsers |-> UniqueUsersOf(b)]
                    ELSE NoRow]

\* The snapshot of the statement.
CountEvents(j) ==
  /\ jobs[j].phase = "active"
  /\ jobs' = [jobs EXCEPT ![j].phase = "counted", ![j].rows = Grouped(jobs[j].target)]
  /\ read' = read \union {jobs[j].target}
  /\ UNCHANGED <<enabled, today, events, aggregates, next, readers,
                 written, late, overtaken, delayed, torn>>

\* A slip: the retry adds to what is there.
UpsertedOnto(rows) ==
  [b \in Buckets |-> [count |-> aggregates[b].count + rows[b].count,
                      uniqueUsers |-> aggregates[b].uniqueUsers + rows[b].uniqueUsers]]

\* ON CONFLICT DO UPDATE; a group without events has no row and no effect.
Upserted(rows) ==
  [b \in Buckets |-> IF rows[b].count = 0 THEN aggregates[b] ELSE rows[b]]

\* The statement commits, the job is done.
WriteAggregates(j) ==
  /\ jobs[j].phase = "counted"
  /\ aggregates' = Upserted(jobs[j].rows)
  /\ jobs' = [jobs EXCEPT ![j] = NoJob]
  /\ written' = written \union {jobs[j].target}
  /\ overtaken' = (overtaken \ {j}) \union
       {i \in Jobs \ {j} : jobs[i].phase = "counted" /\ jobs[i].target = jobs[j].target}
  /\ torn' = torn \union {q \in Readers : readers[q] # NoQuery}
  /\ UNCHANGED <<enabled, today, events, next, readers, read, late, delayed>>

\* A slip: the rows of the day are deleted before they are written anew.
FailJobHalfWay(j) ==
  /\ jobs[j].phase \in {"active", "counted"}
  /\ jobs' = [jobs EXCEPT ![j] =
                IF @.tries < Attempts
                  THEN [@ EXCEPT !.phase = "retry", !.rows = [b \in Buckets |-> NoRow]]
                  ELSE NoJob]
  /\ aggregates' = [b \in Buckets |-> IF b.day = jobs[j].target THEN NoRow ELSE aggregates[b]]
  /\ overtaken' = overtaken \ {j}
  /\ delayed' = delayed \union {d \in {today} : jobs[j].tries = Attempts}
  /\ UNCHANGED <<enabled, today, events, next, readers, read, written, late, torn>>

\* A slip: one attempt too many.
FailJobOnceMore(j) ==
  /\ jobs[j].phase \in {"active", "counted"}
  /\ jobs' = [jobs EXCEPT ![j] =
                IF @.tries <= Attempts
                  THEN [@ EXCEPT !.phase = "retry", !.rows = [b \in Buckets |-> NoRow]]
                  ELSE NoJob]
  /\ overtaken' = overtaken \ {j}
  /\ delayed' = delayed \union {d \in {today} : jobs[j].tries = Attempts}
  /\ UNCHANGED <<enabled, today, events, aggregates, next, readers,
                 read, written, late, torn>>

\* The attempt fails, or its worker dies: it is retried, `Attempts` times in all.
FailJob(j) ==
  /\ jobs[j].phase \in {"active", "counted"}
  /\ jobs' = [jobs EXCEPT ![j] =
                IF @.tries < Attempts
                  THEN [@ EXCEPT !.phase = "retry", !.rows = [b \in Buckets |-> NoRow]]
                  ELSE NoJob]
  /\ overtaken' = overtaken \ {j}
  /\ delayed' = delayed \union {d \in {today} : jobs[j].tries = Attempts}
  /\ UNCHANGED <<enabled, today, events, aggregates, next, readers,
                 read, written, late, torn>>

\* Midnight, UTC.
Midnight ==
  /\ today < MaxDay
  /\ today' = today + 1
  /\ delayed' = delayed \union
       {d \in {today} : next <= today \/ \E j \in Jobs : jobs[j] # NoJob}
  /\ UNCHANGED <<enabled, events, aggregates, next, jobs, readers,
                 read, written, late, overtaken, torn>>

-----------------------------------------------------------------------------
(* Metrics                                                                 *)

MaxRangeDays == 366
MaxLimit == 365

\* INVALID_DATE_RANGE, DATE_RANGE_TOO_LARGE
ValidRange(from, to) == from <= to /\ (to - from) + 1 <= MaxRangeDays

\* A slip: the range ends before its last day.
RowsBefore(w, names, from, to) ==
  {b \in Buckets : /\ b.workspace = w /\ b.name \in names
                   /\ from <= b.day /\ b.day < to
                   /\ aggregates[b] # NoRow}

\* WHERE workspace_id, date and event_name; rows are there if they count.
RowsIn(w, names, from, to) ==
  {b \in Buckets : /\ b.workspace = w /\ b.name \in names
                   /\ from <= b.day /\ b.day <= to
                   /\ aggregates[b] # NoRow}

\* SUM: the size of a set in which every row stands as often as it counts.
Total(rows, n) == Cardinality(UNION {{b} \X (1..n[b]) : b \in rows})

SumCounts(w, names, from, to) ==
  Total(RowsIn(w, names, from, to), [b \in Buckets |-> aggregates[b].count])

\* activeUsers: a user counts again for every day and every event name.
SumUniqueUsers(w, names, from, to) ==
  Total(RowsIn(w, names, from, to), [b \in Buckets |-> aggregates[b].uniqueUsers])

DatesIn(w, names, from, to) == {b.day : b \in RowsIn(w, names, from, to)}

Begin(q, op, w, a, first) ==
  /\ readers[q] = NoQuery
  /\ readers' = [readers EXCEPT ![q] = [op |-> op, workspace |-> w, names |-> a.names,
                                        from |-> a.from, to |-> a.to, first |-> first]]
  /\ UNCHANGED <<enabled, today, events, aggregates, next, jobs, ghosts>>

\* The first query of growthRate: the range asked for.
BeginGrowth(q) ==
  \E w \in Workspaces, a \in Asked :
    /\ ValidRange(a.from, a.to)
    /\ Begin(q, "growth", w, a, SumCounts(w, a.names, a.from, a.to))

\* The first query of dailyUsage: how many days have rows.
BeginDaily(q) ==
  \E w \in Workspaces, a \in Asked :
    /\ ValidRange(a.from, a.to)
    /\ Begin(q, "daily", w, a, Cardinality(DatesIn(w, a.names, a.from, a.to)))

\* A slip: the period before has a day more.
PreviousFromTooEarly(query) == (query.from - 1) - ((query.to - query.from) + 1)

\* The period before has as many days, and ends the day before.
PreviousFrom(query) == (query.from - 1) - (query.to - query.from)

PreviousTotal(query) ==
  SumCounts(query.workspace, query.names, PreviousFrom(query), query.from - 1)

\* GROUP BY date ORDER BY date OFFSET LIMIT
Page(query, limit, offset) ==
  LET dates == DatesIn(query.workspace, query.names, query.from, query.to)
      Before(d) == Cardinality({c \in dates : c < d})
  IN  {d \in dates : offset <= Before(d) /\ Before(d) < offset + Clamp(limit, 1, MaxLimit)}

\* The second query, and the reply.
Reply(q) ==
  /\ readers[q] # NoQuery
  /\ readers' = [readers EXCEPT ![q] = NoQuery]
  /\ torn' = torn \ {q}
  /\ UNCHANGED <<enabled, today, events, aggregates, next, jobs,
                 read, written, late, overtaken, delayed>>

-----------------------------------------------------------------------------

Aggregation(j) ==
  StartJob(j) \/ RetryJob(j) \/ CountEvents(j) \/ WriteAggregates(j) \/ FailJob(j)

Metrics(q) == BeginGrowth(q) \/ BeginDaily(q) \/ Reply(q)

Next ==
  \/ InsertEvents
  \/ \E j \in Jobs : Aggregation(j)
  \/ \E q \in Readers : Metrics(q)
  \/ Midnight

Spec == Init /\ [][Next]_dailyVars

-----------------------------------------------------------------------------
(* Properties                                                              *)

\* However often a day is aggregated, and whichever attempt was the last, its
\* rows count no event twice; they miss only events that arrived after a
\* snapshot of the day.
AggregatesAreExact ==
  \A b \in Buckets :
    /\ aggregates[b].count <= CountOf(b)
    /\ b.day \in written /\ b \notin late
         => aggregates[b] = [count |-> CountOf(b), uniqueUsers |-> UniqueUsersOf(b)]

\* The counts of a day never shrink, unless two iterations were at it at the
\* same time and the older snapshot is written last.
CountsNeverShrink ==
  [][\A b \in Buckets :
       aggregates'[b].count < aggregates[b].count
         => \E j \in overtaken : jobs[j].target = b.day /\ jobs'[j] = NoJob]_dailyVars

\* Every day is aggregated the day after, unless that day ended with the work
\* not done: no worker, or attempts that failed until midnight or for good.
DaysAreSkippedOnlyWhenDelayed ==
  \A d \in 0..(today - 2) : d \in written \/ d + 1 \in delayed

\* Both queries of a reply speak of the same table, unless an aggregation was
\* written in between: the two totals of a growth rate are those of adjacent
\* periods, and a page has as many rows as the number of days promises.
RepliesAreSnapshots ==
  \A q \in Readers \ torn :
    LET query == readers[q]
    IN  /\ query.op = "growth" =>
             query.first + PreviousTotal(query) =
               SumCounts(query.workspace, query.names,
                         query.from - ((query.to - query.from) + 1), query.to)
        /\ query.op = "daily" =>
             \A limit, offset \in 0..MaxDay :
               Cardinality(Page(query, limit, offset)) =
                 Clamp(query.first - offset, 0, Clamp(limit, 1, MaxLimit))

\* The distinct users of a range are never more than its active users, once
\* its days are aggregated and nothing was late.
ActiveUsersCoverEveryone ==
  \A w \in Workspaces, a \in Asked :
    LET buckets == [workspace : {w}, name : a.names, day : a.from..a.to]
        users == UNION {UsersOf(b) : b \in buckets}
    IN  (\A b \in buckets : b.day \in written /\ b \notin late)
          => Cardinality(users) <= SumUniqueUsers(w, a.names, a.from, a.to)

=============================================================================
