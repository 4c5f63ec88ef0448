----------------------- MODULE DailyAggregatesProofs -----------------------
(***************************************************************************)
(* Theorems about DailyAggregates, for any number of workspaces, jobs and  *)
(* readers, any finite table of events and any last day.                   *)
(***************************************************************************)
EXTENDS DailyAggregates, FiniteSetTheorems, FunctionTheorems, TLAPS

-----------------------------------------------------------------------------
(* Finite sets and their sizes                                             *)

\* The set Total counts.
Pairs(rows, n) == UNION {{b} \X (1..n[b]) : b \in rows}

LEMMA TotalOfFinite ==
  ASSUME NEW rows, IsFiniteSet(rows), NEW n, \A b \in rows : n[b] \in Nat
  PROVE  IsFiniteSet(Pairs(rows, n)) /\ Total(rows, n) \in Nat
  <1> DEFINE Of(b) == {b} \X (1..n[b])
             Parts == {Of(b) : b \in rows}
             f     == [b \in rows |-> Of(b)]
  <1>1. f \in Surjection(rows, Parts)
    <2>1. f \in [rows -> Parts] /\ \A p \in Parts : \E b \in rows : f[b] = p
      OBVIOUS
    <2>2. QED
      BY <2>1, Fun_IsSurj
  <1>2. IsFiniteSet(Parts)
    BY <1>1, FS_Surjection
  <1>3. \A p \in Parts : IsFiniteSet(p)
    <2> SUFFICES ASSUME NEW b \in rows PROVE IsFiniteSet(Of(b))
      OBVIOUS
    <2>1. IsFiniteSet(1..n[b])
      BY FS_Interval
    <2>2. QED
      BY <2>1, FS_Singleton, FS_Product
  <1>4. IsFiniteSet(UNION Parts)
    BY <1>2, <1>3, FS_UNION
  <1>5. QED
    BY <1>4, FS_CardinalityType DEF Pairs, Total

\* What stands in two separate sets of rows adds up.
LEMMA TotalAdds ==
  ASSUME NEW rows, IsFiniteSet(rows), NEW more, IsFiniteSet(more),
         rows \intersect more = {},
         NEW n, \A b \in rows \union more : n[b] \in Nat
  PROVE  Total(rows \union more, n) = Total(rows, n) + Total(more, n)
  <1>1. Pairs(rows \union more, n) = Pairs(rows, n) \union Pairs(more, n)
    BY DEF Pairs
  <1>2. Pairs(rows, n) \intersect Pairs(more, n) = {}
    <2> SUFFICES ASSUME NEW p \in Pairs(rows, n), p \in Pairs(more, n)
                 PROVE  FALSE
      OBVIOUS
    <2>1. p[1] \in rows /\ p[1] \in more
      BY DEF Pairs
    <2>2. QED
      BY <2>1
  <1>3. IsFiniteSet(Pairs(rows, n)) /\ IsFiniteSet(Pairs(more, n))
    BY TotalOfFinite
  <1> DEFINE first  == Cardinality(Pairs(rows, n))
             second == Cardinality(Pairs(more, n))
             both   == Cardinality(Pairs(rows \union more, n))
  <1>4. first \in Nat /\ second \in Nat
    BY <1>3, FS_CardinalityType
  <1>5. both = first + second - Cardinality({})
    <2> DEFINE one == Pairs(rows, n)
               two == Pairs(more, n)
    <2>1. IsFiniteSet(one) /\ IsFiniteSet(two) /\ one \intersect two = {}
      BY <1>2, <1>3
    <2>2. Pairs(rows \union more, n) = one \union two
      BY <1>1
    <2> HIDE DEF one, two
    <2>3. Cardinality(one \union two) =
            Cardinality(one) + Cardinality(two) - Cardinality(one \intersect two)
      BY <2>1, FS_Union
    <2>4. QED
      BY <2>1, <2>2, <2>3 DEF one, two
  <1>6. Cardinality({}) = 0
    BY FS_EmptySet
  <1>7. /\ Total(rows, n) = first /\ Total(more, n) = second
        /\ Total(rows \union more, n) = both
    BY DEF Pairs, Total
  <1> HIDE DEF first, second, both
  <1>8. both = first + second
    BY <1>4, <1>5, <1>6
  <1>9. QED
    BY <1>7, <1>8

\* The rows of a workspace are finitely many.
LEMMA RowsAreFinite ==
  ASSUME Parameters, NEW w, NEW rows,
         rows \subseteq [workspace : {w}, name : EventNames, day : Days]
  PROVE  IsFiniteSet(rows)
  <1> DEFINE All == [workspace : {w}, name : EventNames, day : Days]
             f   == [p \in EventNames \X Days |->
                       [workspace |-> w, name |-> p[1], day |-> p[2]]]
  <1>1. IsFiniteSet(EventNames \X Days)
    <2>1. IsFiniteSet(Days)
      BY FS_Interval DEF Days, Parameters
    <2>2. QED
      BY <2>1, FS_Product DEF Parameters
  <1>2. f \in Surjection(EventNames \X Days, All)
    <2>1. f \in [EventNames \X Days -> All]
      OBVIOUS
    <2>2. ASSUME NEW b \in All
          PROVE  \E p \in EventNames \X Days : f[p] = b
      <3>1. <<b.name, b.day>> \in EventNames \X Days
        OBVIOUS
      <3>2. f[<<b.name, b.day>>] = b
        BY <3>1
      <3>3. QED
        BY <3>1, <3>2
    <2>3. QED
      BY <2>1, <2>2, Fun_IsSurj
  <1>3. IsFiniteSet(All)
    BY <1>1, <1>2, FS_Surjection
  <1>4. QED
    BY <1>3, FS_Subset

\* A group has finitely many events and users, and none of either without events.
LEMMA GroupsAreFinite ==
  ASSUME Parameters, NEW b
  PROVE  /\ IsFiniteSet(EventsIn(b)) /\ CountOf(b) \in Nat
         /\ IsFiniteSet(UsersOf(b)) /\ UniqueUsersOf(b) \in Nat
         /\ CountOf(b) = 0 => UniqueUsersOf(b) = 0
  <1> DEFINE All == {events[i].user : i \in EventsIn(b)}
             f   == [i \in EventsIn(b) |-> events[i].user]
  <1>1. IsFiniteSet(EventsIn(b))
    BY FS_Subset DEF EventsIn, Parameters
  <1>2. f \in Surjection(EventsIn(b), All)
    BY Fun_IsSurj
  <1>3. IsFiniteSet(All)
    BY <1>1, <1>2, FS_Surjection
  <1>4. IsFiniteSet(UsersOf(b))
    BY <1>3, FS_Difference DEF UsersOf
  <1>5. ASSUME CountOf(b) = 0 PROVE UniqueUsersOf(b) = 0
    <2>1. EventsIn(b) = {}
      BY <1>1, <1>5, FS_EmptySet DEF CountOf
    <2>2. UsersOf(b) = {}
      BY <2>1 DEF UsersOf
    <2>3. QED
      BY <2>2, FS_EmptySet DEF UniqueUsersOf
  <1>6. QED
    BY <1>1, <1>4, <1>5, FS_CardinalityType DEF CountOf, UniqueUsersOf

\* What the queries of the metrics return.
LEMMA SumsAreNaturals ==
  ASSUME Parameters, aggregates \in [Buckets -> Aggregate], NEW w, NEW names, NEW from, NEW to
  PROVE  /\ IsFiniteSet(RowsIn(w, names, from, to))
         /\ SumCounts(w, names, from, to) \in Nat
         /\ SumUniqueUsers(w, names, from, to) \in Nat
         /\ IsFiniteSet(DatesIn(w, names, from, to))
         /\ Cardinality(DatesIn(w, names, from, to)) \in Nat
  <1> DEFINE rows == RowsIn(w, names, from, to)
  <1>1. rows \subseteq [workspace : {w}, name : EventNames, day : Days]
    BY DEF RowsIn, Buckets
  <1>2. IsFiniteSet(rows) /\ rows \subseteq Buckets
    BY <1>1, RowsAreFinite DEF RowsIn
  <1>3. SumCounts(w, names, from, to) \in Nat
    <2> DEFINE n == [b \in Buckets |-> aggregates[b].count]
    <2>1. \A b \in rows : n[b] \in Nat
      BY <1>2 DEF Aggregate
    <2>2. QED
      BY <1>2, <2>1, TotalOfFinite DEF SumCounts
  <1>4. SumUniqueUsers(w, names, from, to) \in Nat
    <2> DEFINE n == [b \in Buckets |-> aggregates[b].uniqueUsers]
    <2>1. \A b \in rows : n[b] \in Nat
      BY <1>2 DEF Aggregate
    <2>2. QED
      BY <1>2, <2>1, TotalOfFinite DEF SumUniqueUsers
  <1>5. DatesIn(w, names, from, to) \subseteq Days
    BY <1>2 DEF DatesIn, Buckets
  <1>6. IsFiniteSet(Days)
    BY FS_Interval DEF Days, Parameters
  <1>7. QED
    BY <1>2, <1>3, <1>4, <1>5, <1>6, FS_Subset, FS_CardinalityType

-----------------------------------------------------------------------------
(* Types                                                                   *)

\* A job that waits for a retry has an attempt left, and the rows of one that
\* is to write come from a snapshot.
JobsFit ==
  \A j \in Jobs : /\ jobs[j].phase = "retry" => jobs[j].tries < Attempts
                  /\ jobs[j].phase = "counted" => jobs[j].target \in read

\* TypeOK is inductive together with this, and with a day before the first.
TypeInv ==
  /\ TypeOK
  /\ 1 <= today
  /\ JobsFit

LEMMA JobsMayChange ==
  ASSUME TypeInv, NEW j \in Jobs, NEW job \in Job \union {NoJob},
         job.phase = "retry" => job.tries < Attempts,
         job.phase = "counted" => job.target \in read',
         read \subseteq read',
         jobs' = [jobs EXCEPT ![j] = job]
  PROVE  jobs' \in [Jobs -> Job \union {NoJob}] /\ JobsFit'
  BY DEF TypeInv, TypeOK, JobsFit

LEMMA TypeInit ==
  ASSUME Parameters, Init
  PROVE  TypeInv
  <1>1. today = 1 /\ 1 \in Days /\ next = 1 /\ 1 \in 1..MaxDay + 1
    BY DEF Init, Parameters, Days
  <1>2. enabled \in BOOLEAN
    BY DEF Init, WorkersEnabled, ParseJobsEnableWorkers, Settings
  <1>3. events \in [EventIds -> Events \union {NoEvent}]
    BY DEF Init
  <1>4. aggregates \in [Buckets -> Aggregate]
    BY DEF Init, NoRow, Aggregate
  <1>5. /\ jobs \in [Jobs -> Job \union {NoJob}]
        /\ JobsFit
    BY DEF Init, NoJob, JobsFit
  <1>6. readers \in [Readers -> Query \union {NoQuery}]
    BY DEF Init
  <1>7. QED
    BY <1>1, <1>2, <1>3, <1>4, <1>5, <1>6 DEF TypeInv, TypeOK, Init

LEMMA TypeOfInsert ==
  ASSUME TypeInv, InsertEvents
  PROVE  TypeInv'
  <1>1. events' \in [EventIds -> Events \union {NoEvent}]
    BY DEF InsertEvents
  <1>2. late' \subseteq Buckets
    <2> SUFFICES ASSUME NEW i \in Unused, events'[i].day \in read
                 PROVE  BucketOf(events'[i]) \in Buckets
      BY DEF InsertEvents, TypeInv, TypeOK
    <2>1. i \in EventIds
      BY DEF Unused
    <2>2. events'[i] # NoEvent
      BY DEF NoEvent, TypeInv, TypeOK, Days
    <2>3. events'[i] \in Events
      BY <1>1, <2>1, <2>2
    <2>4. QED
      BY <2>3 DEF Events, BucketOf, Buckets
  <1>3. QED
    BY <1>1, <1>2 DEF InsertEvents, TypeInv, TypeOK, JobsFit

LEMMA TypeOfJobStep ==
  ASSUME Parameters, TypeInv, NEW j \in Jobs, Aggregation(j)
  PROVE  TypeInv'
  <1> USE DEF TypeInv, TypeOK
  <1> DEFINE Empty == [b \in Buckets |-> NoRow]
  <1>1. Target \in Days
    BY DEF Target, DayOffset, Clamp, Days, Parameters
  <1>2. Empty \in [Buckets -> Aggregate]
    BY DEF NoRow, Aggregate
  <1>3. jobs[j] # NoJob => jobs[j] \in Job
    OBVIOUS
  <1>4. CASE StartJob(j)
    <2> DEFINE job == [phase |-> "active", target |-> Target, tries |-> 1, rows |-> Empty]
    <2>1. jobs' = [jobs EXCEPT ![j] = job]
      BY <1>4 DEF StartJob
    <2>2. job \in Job /\ job.phase \notin {"retry", "counted"}
      BY <1>1, <1>2 DEF Job, Parameters
    <2> HIDE DEF job
    <2>3. jobs' \in [Jobs -> Job \union {NoJob}] /\ JobsFit'
      BY <1>4, <2>1, <2>2, JobsMayChange DEF StartJob, ghosts
    <2>4. next' \in 1..MaxDay + 1
      BY <1>4 DEF StartJob, Days, Parameters
    <2>5. QED
      BY <1>4, <2>3, <2>4 DEF StartJob, ghosts
  <1>5. CASE RetryJob(j)
    <2> DEFINE job == [jobs[j] EXCEPT !.phase = "active", !.target = Target, !.tries = @ + 1]
    <2>1. jobs[j] \in Job /\ jobs[j].tries + 1 \in 1..Attempts
      BY <1>5 DEF RetryJob, NoJob, Job, Parameters
    <2>2. jobs' = [jobs EXCEPT ![j] = job]
      BY <1>5 DEF RetryJob
    <2>3. job \in Job /\ job.phase \notin {"retry", "counted"}
      BY <1>1, <2>1 DEF Job
    <2> HIDE DEF job
    <2>4. jobs' \in [Jobs -> Job \union {NoJob}] /\ JobsFit'
      BY <1>5, <2>2, <2>3, JobsMayChange DEF RetryJob, ghosts
    <2>5. QED
      BY <1>5, <2>4 DEF RetryJob, ghosts
  <1>6. CASE CountEvents(j)
    <2> DEFINE rows == Grouped(jobs[j].target)
               job  == [jobs[j] EXCEPT !.phase = "counted", !.rows = rows]
    <2>1. jobs[j] \in Job
      BY <1>6 DEF CountEvents, NoJob
    <2>2. rows \in [Buckets -> Aggregate]
      BY GroupsAreFinite DEF Grouped, Aggregate, NoRow
    <2>3. jobs' = [jobs EXCEPT ![j] = job]
      BY <1>6 DEF CountEvents
    <2> HIDE DEF rows
    <2>4. job \in Job /\ job.phase = "counted" /\ job.target \in read'
      BY <1>6, <2>1, <2>2 DEF Job, CountEvents
    <2> HIDE DEF job
    <2>5. jobs' \in [Jobs -> Job \union {NoJob}] /\ JobsFit'
      BY <1>6, <2>3, <2>4, JobsMayChange DEF CountEvents
    <2>6. read' \subseteq Days /\ written \subseteq read'
      BY <1>6, <2>1 DEF CountEvents, Job
    <2>7. QED
      BY <1>6, <2>5, <2>6 DEF CountEvents
  <1>7. CASE WriteAggregates(j)
    <2>1. jobs[j] \in Job
      BY <1>7 DEF WriteAggregates, NoJob
    <2>2. aggregates' \in [Buckets -> Aggregate]
      BY <1>7, <2>1 DEF WriteAggregates, Upserted, Job
    <2>3. jobs' \in [Jobs -> Job \union {NoJob}] /\ JobsFit'
      BY <1>7, JobsMayChange DEF WriteAggregates, NoJob
    <2>4. overtaken' \subseteq Jobs /\ torn' \subseteq Readers
      BY <1>7 DEF WriteAggregates
    <2>5. written' \subseteq read'
      BY <1>7 DEF WriteAggregates, JobsFit
    <2>6. QED
      BY <1>7, <2>2, <2>3, <2>4, <2>5 DEF WriteAggregates
  <1>8. CASE FailJob(j)
    <2>1. jobs[j] \in Job
      BY <1>8 DEF FailJob, NoJob
    <2>2. jobs' \in [Jobs -> Job \union {NoJob}] /\ JobsFit'
      <3> DEFINE job == [jobs[j] EXCEPT !.phase = "retry", !.rows = Empty]
      <3>1. CASE jobs[j].tries < Attempts
        <4>1. jobs' = [jobs EXCEPT ![j] = job]
          BY <1>8, <3>1 DEF FailJob
        <4>2. job \in Job /\ job.tries = jobs[j].tries /\ job.phase = "retry"
          BY <1>2, <2>1 DEF Job
        <4> HIDE DEF job
        <4>3. QED
          BY <1>8, <3>1, <4>1, <4>2, JobsMayChange DEF FailJob
      <3>2. CASE ~(jobs[j].tries < Attempts)
        BY <1>8, <3>2, JobsMayChange DEF FailJob, NoJob
      <3>3. QED
        BY <3>1, <3>2
    <2>3. overtaken' \subseteq Jobs /\ delayed' \subseteq Days
      BY <1>8 DEF FailJob
    <2>4. QED
      BY <1>8, <2>2, <2>3 DEF FailJob
  <1>9. QED
    BY <1>4, <1>5, <1>6, <1>7, <1>8 DEF Aggregation

LEMMA TypeOfMetrics ==
  ASSUME Parameters, TypeInv, NEW q \in Readers, Metrics(q)
  PROVE  TypeInv'
  <1> USE DEF TypeInv, TypeOK
  <1>1. ASSUME NEW op \in {"growth", "daily"}, NEW w \in Workspaces, NEW a \in Asked,
               NEW first \in Nat, Begin(q, op, w, a, first)
        PROVE  TypeInv'
    <2> DEFINE query == [op |-> op, workspace |-> w, names |-> a.names,
                         from |-> a.from, to |-> a.to, first |-> first]
    <2>1. query \in Query
      BY DEF Query, Parameters
    <2>2. readers' = [readers EXCEPT ![q] = query]
      BY <1>1 DEF Begin
    <2> HIDE DEF query
    <2>3. readers' \in [Readers -> Query \union {NoQuery}]
      BY <2>1, <2>2
    <2>4. QED
      BY <1>1, <2>3 DEF Begin, ghosts, JobsFit
  <1>2. CASE BeginGrowth(q)
    BY <1>1, <1>2, SumsAreNaturals DEF BeginGrowth
  <1>3. CASE BeginDaily(q)
    BY <1>1, <1>3, SumsAreNaturals DEF BeginDaily
  <1>4. CASE Reply(q)
    BY <1>4 DEF Reply, JobsFit
  <1>5. QED
    BY <1>2, <1>3, <1>4 DEF Metrics

LEMMA TypeInduction ==
  ASSUME Parameters
  PROVE  TypeInv /\ [Next]_dailyVars => TypeInv'
  <1> SUFFICES ASSUME TypeInv, [Next]_dailyVars
               PROVE  TypeInv'
    OBVIOUS
  <1>1. CASE Midnight
    <2>1. today' \in Days /\ 1 <= today'
      BY <1>1 DEF Midnight, TypeInv, TypeOK, Days, Parameters
    <2>2. delayed' \subseteq Days
      BY <1>1 DEF Midnight, TypeInv, TypeOK
    <2>3. QED
      BY <1>1, <2>1, <2>2 DEF Midnight, TypeInv, TypeOK, JobsFit
  <1>2. CASE UNCHANGED dailyVars
    BY <1>2 DEF dailyVars, TypeInv, TypeOK, JobsFit
  <1>3. QED
    BY <1>1, <1>2, TypeOfInsert, TypeOfJobStep, TypeOfMetrics DEF Next

\* The table, the jobs and the replies keep their types: a job never has more
\* attempts than it is allowed, and never is about a day that is not there.
THEOREM TypeCorrect == ASSUME Parameters PROVE Spec => []TypeOK
  <1>1. Init => TypeInv
    BY TypeInit
  <1>2. TypeInv => TypeOK
    BY DEF TypeInv
  <1>3. QED
    BY <1>1, <1>2, TypeInduction, PTL DEF Spec

-----------------------------------------------------------------------------
(* The counts                                                              *)

ExactRow(b) == [count |-> CountOf(b), uniqueUsers |-> UniqueUsersOf(b)]

\* The table never counts too much, and is exact where no event came late.
TableHolds ==
  \A b \in Buckets :
    /\ aggregates[b].count <= CountOf(b)
    /\ aggregates[b].count = 0 => aggregates[b] = NoRow
    /\ b.day \in written /\ b \notin late => aggregates[b] = ExactRow(b)

\* The same of a row that is yet to be written; and if its job has not been
\* overtaken, the table counts no more than the row.
RowFits(j, b) ==
  LET row == jobs[j].rows[b]
  IN  /\ row.count <= CountOf(b)
      /\ row.count = 0 => row = NoRow
      /\ b.day # jobs[j].target => row = NoRow
      /\ b.day = jobs[j].target /\ b \notin late => row = ExactRow(b)
      /\ b.day = jobs[j].target /\ j \notin overtaken => aggregates[b].count <= row.count

RowsHold ==
  \A j \in Jobs, b \in Buckets : jobs[j].phase = "counted" => RowFits(j, b)

CountInv ==
  /\ TypeInv
  /\ TableHolds
  /\ RowsHold

LEMMA CountInit ==
  ASSUME Parameters, Init
  PROVE  CountInv
  <1>1. TypeInv
    BY TypeInit
  <1>2. TableHolds
    BY GroupsAreFinite DEF Init, TableHolds, NoRow
  <1>3. RowsHold
    BY DEF Init, RowsHold, NoJob
  <1>4. QED
    BY <1>1, <1>2, <1>3 DEF CountInv

\* Inserting events adds to the groups, and to those on time nothing.
LEMMA GroupsGrow ==
  ASSUME Parameters, TypeInv, InsertEvents, NEW b \in Buckets
  PROVE  /\ CountOf(b) <= CountOf(b)'
         /\ b.day \in read /\ b \notin late' => ExactRow(b)' = ExactRow(b)
  <1>1. ASSUME NEW i \in EventsIn(b)
        PROVE  i \in EventIds \ Unused /\ events'[i] = events[i] /\ i \in EventsIn(b)'
    <2>1. i \in EventIds /\ BucketOf(events[i]) = b
      BY DEF EventsIn
    <2>2. events[i].day = b.day /\ b.day # -1
      BY <2>1 DEF BucketOf, Buckets, Days, TypeInv, TypeOK, Parameters
    <2>3. i \notin Unused
      BY <2>2 DEF Unused, NoEvent
    <2>4. events'[i] = events[i]
      BY <2>1, <2>3 DEF InsertEvents
    <2>5. QED
      BY <2>1, <2>3, <2>4 DEF EventsIn, BucketOf
  <1>2. IsFiniteSet(EventsIn(b)')
    <2>1. EventsIn(b)' \subseteq EventIds
      BY DEF EventsIn
    <2>2. QED
      BY <2>1, FS_Subset DEF Parameters
  <1>3. CountOf(b) <= CountOf(b)'
    <2>1. EventsIn(b) \subseteq EventsIn(b)'
      BY <1>1
    <2>2. QED
      BY <1>2, <2>1, FS_Subset DEF CountOf
  <1>4. ASSUME b.day \in read, b \notin late'
        PROVE  ExactRow(b)' = ExactRow(b)
    <2>1. ASSUME NEW i \in EventsIn(b)'
          PROVE  i \in EventsIn(b)
      <3>1. i \in EventIds /\ BucketOf(events'[i]) = b
        BY DEF EventsIn, BucketOf
      <3>2. events'[i].day = b.day
        BY <3>1 DEF BucketOf
      <3>3. i \notin Unused
        BY <1>4, <3>1, <3>2 DEF InsertEvents
      <3>4. events'[i] = events[i]
        BY <3>1, <3>3 DEF InsertEvents
      <3>5. QED
        BY <3>1, <3>4 DEF EventsIn
    <2>2. EventsIn(b)' = EventsIn(b)
      BY <1>1, <2>1
    <2>3. UsersOf(b)' = UsersOf(b)
      <3>1. {events'[i].user : i \in EventsIn(b)} = {events[i].user : i \in EventsIn(b)}
        BY <1>1
      <3>2. QED
        BY <2>2, <3>1 DEF UsersOf
    <2>4. CountOf(b)' = CountOf(b) /\ UniqueUsersOf(b)' = UniqueUsersOf(b)
      BY <2>2, <2>3 DEF CountOf, UniqueUsersOf
    <2>5. QED
      BY <2>4 DEF ExactRow
  <1>5. QED
    BY <1>3, <1>4

LEMMA GroupsStay ==
  ASSUME UNCHANGED events, NEW b
  PROVE  /\ CountOf(b)' = CountOf(b) /\ UniqueUsersOf(b)' = UniqueUsersOf(b)
         /\ ExactRow(b)' = ExactRow(b)
  <1>1. EventsIn(b)' = EventsIn(b)
    BY DEF EventsIn, BucketOf
  <1>2. UsersOf(b)' = UsersOf(b)
    BY <1>1 DEF UsersOf
  <1>3. QED
    BY <1>1, <1>2 DEF CountOf, UniqueUsersOf, ExactRow

LEMMA TableStays ==
  ASSUME TableHolds, UNCHANGED <<events, aggregates, written, late>>
  PROVE  TableHolds'
  BY GroupsStay DEF TableHolds

LEMMA CountsOfInsert ==
  ASSUME Parameters, CountInv, InsertEvents
  PROVE  CountInv'
  <1> USE DEF CountInv
  <1>1. /\ UNCHANGED <<aggregates, jobs, read, written, overtaken>>
        /\ late \subseteq late'
    BY DEF InsertEvents
  <1>2. \A b \in Buckets : CountOf(b) \in Nat /\ CountOf(b)' \in Nat
    BY GroupsAreFinite, FS_Subset, FS_CardinalityType DEF CountOf, EventsIn, Parameters
  <1>3. TableHolds'
    <2> SUFFICES ASSUME NEW b \in Buckets
                 PROVE  /\ aggregates[b].count <= CountOf(b)'
                        /\ aggregates[b].count = 0 => aggregates[b] = NoRow
                        /\ b.day \in written /\ b \notin late' => aggregates[b] = ExactRow(b)'
      BY <1>1 DEF TableHolds
    <2>1. aggregates[b].count \in Nat
      BY DEF TypeInv, TypeOK, Aggregate
    <2>2. aggregates[b].count <= CountOf(b)'
      BY <1>2, <2>1, GroupsGrow DEF TableHolds
    <2>3. b.day \in written /\ b \notin late' => aggregates[b] = ExactRow(b)'
      BY <1>1, GroupsGrow DEF TableHolds, TypeInv, TypeOK
    <2>4. QED
      BY <2>2, <2>3 DEF TableHolds
  <1>4. RowsHold'
    <2> SUFFICES ASSUME NEW j \in Jobs, NEW b \in Buckets, jobs[j].phase = "counted"
                 PROVE  RowFits(j, b)'
      BY <1>1 DEF RowsHold
    <2>1. RowFits(j, b) /\ jobs[j].target \in read
      BY DEF RowsHold, TypeInv, JobsFit
    <2>2. jobs[j].rows[b].count \in Nat
      BY DEF TypeInv, TypeOK, Job, NoJob, Aggregate
    <2>3. jobs[j].rows[b].count <= CountOf(b)'
      BY <1>2, <2>1, <2>2, GroupsGrow DEF RowFits
    <2>4. b.day = jobs[j].target /\ b \notin late' => jobs[j].rows[b] = ExactRow(b)'
      BY <1>1, <2>1, GroupsGrow DEF RowFits
    <2>5. QED
      BY <1>1, <2>1, <2>3, <2>4 DEF RowFits
  <1>5. QED
    BY <1>3, <1>4, TypeOfInsert

\* A step of a job that leaves it with no rows to write.
LEMMA CountsOfOthers ==
  ASSUME CountInv, NEW j \in Jobs, \A i \in Jobs \ {j} : jobs'[i] = jobs[i],
         jobs'[j].phase # "counted",
         UNCHANGED <<events, aggregates, written, late>>, overtaken \ {j} \subseteq overtaken'
  PROVE  TableHolds' /\ RowsHold'
  <1>1. TableHolds'
    BY TableStays DEF CountInv
  <1>2. RowsHold'
    <2> SUFFICES ASSUME NEW i \in Jobs, NEW b \in Buckets, jobs'[i].phase = "counted"
                 PROVE  RowFits(i, b)'
      BY DEF RowsHold
    <2>1. i # j /\ jobs'[i] = jobs[i] /\ (i \in overtaken => i \in overtaken')
      OBVIOUS
    <2>2. RowFits(i, b)
      BY <2>1 DEF CountInv, RowsHold
    <2>3. QED
      BY <2>1, <2>2, GroupsStay DEF RowFits
  <1>3. QED
    BY <1>1, <1>2

LEMMA CountsOfSnapshot ==
  ASSUME Parameters, CountInv, NEW j \in Jobs, CountEvents(j)
  PROVE  TableHolds' /\ RowsHold'
  <1> USE DEF CountInv
  <1> DEFINE d == jobs[j].target
  <1>1. /\ jobs[j] \in Job
        /\ UNCHANGED <<events, aggregates, written, late, overtaken>>
    BY DEF CountEvents, TypeInv, TypeOK, NoJob
  <1>2. TableHolds'
    BY <1>1, TableStays
  <1>3. /\ jobs'[j].rows = Grouped(d) /\ jobs'[j].target = d
        /\ \A i \in Jobs \ {j} : jobs'[i] = jobs[i]
    BY <1>1 DEF CountEvents, TypeInv, TypeOK, Job
  <1>4. RowsHold'
    <2> SUFFICES ASSUME NEW i \in Jobs, NEW b \in Buckets, jobs'[i].phase = "counted"
                 PROVE  RowFits(i, b)'
      BY DEF RowsHold
    <2>1. CASE i # j
      <3>1. RowFits(i, b)
        BY <1>3, <2>1 DEF RowsHold
      <3>2. QED
        BY <1>1, <1>3, <2>1, <3>1, GroupsStay DEF RowFits
    <2>2. CASE i = j
      <3> DEFINE row == Grouped(d)[b]
      <3>1. row = IF b.day = d THEN ExactRow(b) ELSE NoRow
        BY DEF Grouped, ExactRow
      <3>2. CountOf(b) \in Nat /\ (CountOf(b) = 0 => UniqueUsersOf(b) = 0)
        BY GroupsAreFinite
      <3>3. row.count <= CountOf(b) /\ (row.count = 0 => row = NoRow)
        BY <3>1, <3>2 DEF ExactRow, NoRow
      <3>4. b.day = d => aggregates[b].count <= row.count
        BY <3>1 DEF TableHolds, ExactRow
      <3> HIDE DEF row
      <3>5. jobs'[j].rows[b] = row
        BY <1>3 DEF row
      <3>6. QED
        BY <1>1, <1>3, <2>2, <3>1, <3>3, <3>4, <3>5, GroupsStay DEF RowFits
    <2>3. QED
      BY <2>1, <2>2
  <1>5. QED
    BY <1>2, <1>4

LEMMA CountsOfWrite ==
  ASSUME Parameters, CountInv, NEW j \in Jobs, WriteAggregates(j)
  PROVE  TableHolds' /\ RowsHold'
  <1> USE DEF CountInv
  <1> DEFINE d == jobs[j].target
             rows == jobs[j].rows
  <1>1. /\ jobs[j] \in Job /\ jobs[j].phase = "counted"
        /\ aggregates' = Upserted(rows)
        /\ jobs' = [jobs EXCEPT ![j] = NoJob]
        /\ written' = written \union {d}
        /\ UNCHANGED <<events, late>>
    BY DEF WriteAggregates, TypeInv, TypeOK, NoJob
  <1>2. \A b \in Buckets :
          /\ RowFits(j, b)
          /\ aggregates'[b] = IF rows[b].count = 0 THEN aggregates[b] ELSE rows[b]
    BY <1>1 DEF RowsHold, Upserted
  <1>3. \A b \in Buckets : b.day # d => aggregates'[b] = aggregates[b]
    BY <1>2 DEF RowFits, NoRow
  <1>4. TableHolds'
    <2> SUFFICES ASSUME NEW b \in Buckets
                 PROVE  /\ aggregates'[b].count <= CountOf(b)
                        /\ aggregates'[b].count = 0 => aggregates'[b] = NoRow
                        /\ b.day \in written' /\ b \notin late => aggregates'[b] = ExactRow(b)
      BY <1>1, GroupsStay DEF TableHolds
    <2>1. CASE rows[b].count # 0
      <3>1. aggregates'[b] = rows[b]
        BY <1>2, <2>1
      <3>2. b.day = d
        BY <1>2, <2>1 DEF RowFits, NoRow
      <3>3. QED
        BY <1>2, <2>1, <3>1, <3>2 DEF RowFits
    <2>2. CASE rows[b].count = 0
      <3>1. aggregates'[b] = aggregates[b]
        BY <1>2, <2>2
      <3>2. ASSUME b.day = d, b \notin late
            PROVE  aggregates[b] = ExactRow(b)
        <4>1. rows[b] = ExactRow(b) /\ rows[b] = NoRow
          BY <1>2, <2>2, <3>2 DEF RowFits
        <4>2. CountOf(b) = 0
          BY <2>2, <4>1 DEF ExactRow
        <4>3. aggregates[b].count \in Nat
          BY DEF TypeInv, TypeOK, Aggregate
        <4>4. aggregates[b].count = 0
          BY <4>2, <4>3 DEF TableHolds
        <4>5. QED
          BY <4>1, <4>4 DEF TableHolds
      <3>3. QED
        BY <1>1, <3>1, <3>2 DEF TableHolds
    <2>3. QED
      BY <2>1, <2>2
  <1>5. RowsHold'
    <2> SUFFICES ASSUME NEW i \in Jobs, NEW b \in Buckets, jobs'[i].phase = "counted"
                 PROVE  RowFits(i, b)'
      BY DEF RowsHold
    <2>1. i # j /\ jobs'[i] = jobs[i] /\ jobs[i].phase = "counted"
      BY <1>1 DEF TypeInv, TypeOK, NoJob
    <2>2. RowFits(i, b)
      BY <2>1 DEF RowsHold
    <2>3. ASSUME b.day = jobs[i].target, i \notin overtaken'
          PROVE  aggregates'[b] = aggregates[b] /\ i \notin overtaken
      <3>1. jobs[i].target # d /\ i \notin overtaken
        BY <2>1, <2>3 DEF WriteAggregates
      <3>2. QED
        BY <1>3, <2>3, <3>1
    <2>4. QED
      BY <1>1, <2>1, <2>2, <2>3, GroupsStay DEF RowFits
  <1>6. QED
    BY <1>4, <1>5

LEMMA CountsOfJobStep ==
  ASSUME Parameters, CountInv, NEW j \in Jobs, Aggregation(j)
  PROVE  CountInv'
  <1>1. jobs \in [Jobs -> Job \union {NoJob}]
    BY DEF CountInv, TypeInv, TypeOK
  <1>2. CASE StartJob(j)
    BY <1>1, <1>2, CountsOfOthers, TypeOfJobStep DEF StartJob, ghosts, CountInv
  <1>3. CASE RetryJob(j)
    <2>1. jobs[j] \in Job
      BY <1>1, <1>3 DEF RetryJob, NoJob
    <2>2. jobs'[j].phase = "active" /\ \A i \in Jobs \ {j} : jobs'[i] = jobs[i]
      BY <1>1, <1>3, <2>1 DEF RetryJob, Job
    <2>3. QED
      BY <1>3, <2>2, CountsOfOthers, TypeOfJobStep DEF RetryJob, ghosts, CountInv
  <1>4. CASE CountEvents(j)
    BY <1>4, CountsOfSnapshot, TypeOfJobStep DEF CountInv
  <1>5. CASE WriteAggregates(j)
    BY <1>5, CountsOfWrite, TypeOfJobStep DEF CountInv
  <1>6. CASE FailJob(j)
    <2>1. jobs[j] \in Job
      BY <1>1, <1>6 DEF FailJob, NoJob
    <2>2. jobs'[j].phase # "counted" /\ \A i \in Jobs \ {j} : jobs'[i] = jobs[i]
      BY <1>1, <1>6, <2>1 DEF FailJob, Job, NoJob
    <2>3. QED
      BY <1>6, <2>2, CountsOfOthers, TypeOfJobStep DEF FailJob, CountInv
  <1>7. QED
    BY <1>2, <1>3, <1>4, <1>5, <1>6 DEF Aggregation

LEMMA CountInduction ==
  ASSUME Parameters
  PROVE  CountInv /\ [Next]_dailyVars => CountInv'
  <1> SUFFICES ASSUME CountInv, [Next]_dailyVars
               PROVE  CountInv'
    OBVIOUS
  <1>1. TypeInv'
    BY TypeInduction DEF CountInv
  <1>2. CASE UNCHANGED <<events, aggregates, jobs, written, late, overtaken>>
    BY <1>1, <1>2, TableStays, GroupsStay DEF CountInv, RowsHold, RowFits
  <1>3. ASSUME NEW q \in Readers, Metrics(q)
        PROVE  UNCHANGED <<events, aggregates, jobs, written, late, overtaken>>
    BY <1>3 DEF Metrics, BeginGrowth, BeginDaily, Begin, Reply, ghosts
  <1>4. CASE Midnight
    BY <1>2, <1>4 DEF Midnight
  <1>5. CASE UNCHANGED dailyVars
    BY <1>2, <1>5 DEF dailyVars
  <1>6. QED
    BY <1>2, <1>3, <1>4, <1>5, CountsOfInsert, CountsOfJobStep DEF Next

LEMMA CountsInvariant == ASSUME Parameters PROVE Spec => []CountInv
  <1>1. Init => CountInv
    BY CountInit
  <1>2. QED
    BY <1>1, CountInduction, PTL DEF Spec

\* However often a day is aggregated, by whichever jobs and retries, its rows
\* count no event twice and miss only events that came after a snapshot.
THEOREM CountsAreExact == ASSUME Parameters PROVE Spec => []AggregatesAreExact
  <1>1. CountInv => AggregatesAreExact
    BY DEF CountInv, TableHolds, AggregatesAreExact, ExactRow
  <1>2. QED
    BY <1>1, CountsInvariant, PTL

\* A count shrinks only when a job writes that another one, of the same day, has
\* overtaken since its snapshot.
THEOREM CountsGrow == ASSUME Parameters PROVE Spec => CountsNeverShrink
  <1>1. ASSUME CountInv, CountInv', [Next]_dailyVars,
               NEW b \in Buckets, aggregates'[b].count < aggregates[b].count
        PROVE  \E j \in overtaken : jobs[j].target = b.day /\ jobs'[j] = NoJob
    <2>1. aggregates[b].count \in Nat /\ aggregates'[b].count \in Nat
      BY <1>1 DEF CountInv, TypeInv, TypeOK, Aggregate
    <2>2. aggregates' # aggregates
      BY <1>1, <2>1
    <2>3. PICK j \in Jobs : WriteAggregates(j)
      BY <1>1, <2>2 DEF Next, dailyVars, InsertEvents, Aggregation, StartJob, RetryJob,
             CountEvents, FailJob, Metrics, BeginGrowth, BeginDaily, Begin, Reply, Midnight
    <2>4. /\ RowFits(j, b)
          /\ aggregates'[b] = IF jobs[j].rows[b].count = 0 THEN aggregates[b]
                                                          ELSE jobs[j].rows[b]
      BY <1>1, <2>3 DEF WriteAggregates, CountInv, RowsHold, Upserted
    <2>5. jobs[j].rows[b].count # 0 /\ aggregates'[b] = jobs[j].rows[b]
      BY <1>1, <2>1, <2>4
    <2>6. b.day = jobs[j].target
      BY <2>4, <2>5 DEF RowFits, NoRow
    <2>7. j \in overtaken
      BY <1>1, <2>1, <2>4, <2>5, <2>6 DEF RowFits
    <2>8. jobs'[j] = NoJob
      BY <1>1, <2>3 DEF WriteAggregates, CountInv, TypeInv, TypeOK
    <2>9. QED
      BY <2>6, <2>7, <2>8
  <1>2. CountInv /\ CountInv' /\ [Next]_dailyVars =>
          [\A b \in Buckets :
             aggregates'[b].count < aggregates[b].count
               => \E j \in overtaken : jobs[j].target = b.day /\ jobs'[j] = NoJob]_dailyVars
    BY <1>1
  <1>3. QED
    BY <1>2, CountsInvariant, PTL DEF Spec, CountsNeverShrink

-----------------------------------------------------------------------------
(* The metrics                                                             *)

\* What the first query of a reader found, it would find now, unless aggregates
\* were written meanwhile.
FirstQueriesHold ==
  \A q \in Readers :
    LET query == readers[q]
    IN  readers[q] # NoQuery =>
          /\ ValidRange(query.from, query.to)
          /\ q \notin torn /\ query.op = "growth" =>
               query.first = SumCounts(query.workspace, query.names, query.from, query.to)
          /\ q \notin torn /\ query.op = "daily" =>
               query.first =
                 Cardinality(DatesIn(query.workspace, query.names, query.from, query.to))

ReplyInv == TypeInv /\ FirstQueriesHold

LEMMA QueriesStay ==
  ASSUME UNCHANGED aggregates
  PROVE  \A w, names, from, to :
           /\ RowsIn(w, names, from, to)' = RowsIn(w, names, from, to)
           /\ SumCounts(w, names, from, to)' = SumCounts(w, names, from, to)
           /\ DatesIn(w, names, from, to)' = DatesIn(w, names, from, to)
  <1> SUFFICES ASSUME NEW w, NEW names, NEW from, NEW to
               PROVE  /\ RowsIn(w, names, from, to)' = RowsIn(w, names, from, to)
                      /\ SumCounts(w, names, from, to)' = SumCounts(w, names, from, to)
                      /\ DatesIn(w, names, from, to)' = DatesIn(w, names, from, to)
    OBVIOUS
  <1>1. RowsIn(w, names, from, to)' = RowsIn(w, names, from, to)
    BY DEF RowsIn
  <1>2. QED
    BY <1>1 DEF SumCounts, DatesIn

LEMMA RepliesOfMetrics ==
  ASSUME Parameters, ReplyInv, NEW q \in Readers, Metrics(q)
  PROVE  FirstQueriesHold'
  <1> USE DEF ReplyInv
  <1>1. readers \in [Readers -> Query \union {NoQuery}]
    BY DEF TypeInv, TypeOK
  <1>2. ASSUME NEW op \in {"growth", "daily"}, NEW w \in Workspaces, NEW a \in Asked,
               NEW first \in Nat, Begin(q, op, w, a, first), ValidRange(a.from, a.to),
               op = "growth" => first = SumCounts(w, a.names, a.from, a.to),
               op = "daily" => first = Cardinality(DatesIn(w, a.names, a.from, a.to))
        PROVE  FirstQueriesHold'
    <2>1. /\ readers'[q] = [op |-> op, workspace |-> w, names |-> a.names,
                            from |-> a.from, to |-> a.to, first |-> first]
          /\ \A p \in Readers \ {q} : readers'[p] = readers[p]
          /\ UNCHANGED <<aggregates, torn>>
      BY <1>1, <1>2 DEF Begin, ghosts
    <2>2. QED
      BY <1>2, <2>1, QueriesStay DEF FirstQueriesHold
  <1>3. CASE BeginGrowth(q)
    <2>1. PICK w \in Workspaces, a \in Asked :
            /\ ValidRange(a.from, a.to)
            /\ Begin(q, "growth", w, a, SumCounts(w, a.names, a.from, a.to))
      BY <1>3 DEF BeginGrowth
    <2>2. SumCounts(w, a.names, a.from, a.to) \in Nat
      BY SumsAreNaturals DEF TypeInv, TypeOK
    <2>3. QED
      BY <1>2, <2>1, <2>2
  <1>4. CASE BeginDaily(q)
    <2>1. PICK w \in Workspaces, a \in Asked :
            /\ ValidRange(a.from, a.to)
            /\ Begin(q, "daily", w, a, Cardinality(DatesIn(w, a.names, a.from, a.to)))
      BY <1>4 DEF BeginDaily
    <2>2. Cardinality(DatesIn(w, a.names, a.from, a.to)) \in Nat
      BY SumsAreNaturals DEF TypeInv, TypeOK
    <2>3. QED
      BY <1>2, <2>1, <2>2
  <1>5. CASE Reply(q)
    <2>1. /\ readers'[q] = NoQuery
          /\ \A p \in Readers \ {q} : readers'[p] = readers[p] /\ (p \in torn' <=> p \in torn)
          /\ UNCHANGED aggregates
      BY <1>1, <1>5 DEF Reply
    <2>2. QED
      BY <2>1, QueriesStay DEF FirstQueriesHold
  <1>6. QED
    BY <1>3, <1>4, <1>5 DEF Metrics

LEMMA ReplyInduction ==
  ASSUME Parameters
  PROVE  ReplyInv /\ [Next]_dailyVars => ReplyInv'
  <1> SUFFICES ASSUME ReplyInv, [Next]_dailyVars
               PROVE  FirstQueriesHold'
    BY TypeInduction DEF ReplyInv
  <1>1. CASE UNCHANGED <<aggregates, readers, torn>>
    BY <1>1, QueriesStay DEF ReplyInv, FirstQueriesHold
  <1>2. CASE \E j \in Jobs : WriteAggregates(j)
    <2>1. UNCHANGED readers /\ \A q \in Readers : readers[q] # NoQuery => q \in torn'
      BY <1>2 DEF WriteAggregates
    <2>2. QED
      BY <2>1 DEF ReplyInv, FirstQueriesHold
  <1>3. CASE \E q \in Readers : Metrics(q)
    BY <1>3, RepliesOfMetrics
  <1>4. QED
    BY <1>1, <1>2, <1>3 DEF Next, dailyVars, InsertEvents, Aggregation, StartJob, RetryJob,
         CountEvents, FailJob, Midnight, ghosts

\* The totals of two ranges, one right after the other, are the total of both.
LEMMA RangesAdd ==
  ASSUME Parameters, aggregates \in [Buckets -> Aggregate], NEW w, NEW names,
         NEW from \in Int, NEW mid \in Int, NEW to \in Int, from <= mid, mid <= to
  PROVE  SumCounts(w, names, mid, to) + SumCounts(w, names, from, mid - 1)
           = SumCounts(w, names, from, to)
  <1> DEFINE before == RowsIn(w, names, from, mid - 1)
             after  == RowsIn(w, names, mid, to)
             n      == [b \in Buckets |-> aggregates[b].count]
  <1>1. \A b \in Buckets : b.day \in Int /\ n[b] \in Nat
    <2> SUFFICES ASSUME NEW b \in Buckets PROVE b.day \in Int /\ n[b] \in Nat
      OBVIOUS
    <2>1. b.day \in Int
      BY DEF Buckets, Days, Parameters
    <2>2. aggregates[b] \in Aggregate
      OBVIOUS
    <2>3. QED
      BY <2>1, <2>2 DEF Aggregate
  <1>2. before \subseteq Buckets /\ after \subseteq Buckets
    BY DEF RowsIn
  <1>3. before \intersect after = {}
    BY <1>1, <1>2 DEF RowsIn
  <1>4. RowsIn(w, names, from, to) = before \union after
    BY <1>1 DEF RowsIn
  <1>5. IsFiniteSet(before) /\ IsFiniteSet(after)
    BY SumsAreNaturals
  <1>6. SumCounts(w, names, from, to) = Total(before \union after, n)
    BY <1>4 DEF SumCounts
  <1>7. SumCounts(w, names, mid, to) = Total(after, n)
    BY DEF SumCounts
  <1>8. SumCounts(w, names, from, mid - 1) = Total(before, n)
    BY DEF SumCounts
  <1>9. \A b \in before \union after : n[b] \in Nat
    BY <1>1, <1>2
  <1> HIDE DEF before, after, n
  <1>10. Total(before \union after, n) = Total(before, n) + Total(after, n)
    BY <1>3, <1>5, <1>9, TotalAdds
  <1>11. Total(before, n) \in Nat /\ Total(after, n) \in Nat
    BY <1>5, <1>9, TotalOfFinite
  <1>12. QED
    BY <1>6, <1>7, <1>8, <1>10, <1>11

\* Numbering a finite set of days from zero, in their order, leaves no gap.
LEMMA RanksAreDense ==
  ASSUME NEW D, D \subseteq Int, IsFiniteSet(D)
  PROVE  [d \in D |-> Cardinality({c \in D : c < d})] \in Bijection(D, 0..(Cardinality(D) - 1))
  <1> DEFINE Below(d) == {c \in D : c < d}
             rank == [d \in D |-> Cardinality(Below(d))]
             Ranks == 0..(Cardinality(D) - 1)
  <1>1. Cardinality(D) \in Nat
    BY FS_CardinalityType
  <1>2. \A d \in D : IsFiniteSet(Below(d)) /\ Cardinality(Below(d)) \in Nat
    BY FS_Subset, FS_CardinalityType
  <1>3. ASSUME NEW d \in D
        PROVE  Cardinality(Below(d)) < Cardinality(D)
    <2>1. Below(d) \in SUBSET D /\ Below(d) # D
      OBVIOUS
    <2>2. Cardinality(Below(d)) <= Cardinality(D) /\ Cardinality(Below(d)) # Cardinality(D)
      BY <2>1, FS_Subset
    <2>3. QED
      BY <1>1, <1>2, <2>2
  <1>4. rank \in [D -> Ranks]
    BY <1>1, <1>2, <1>3
  <1>5. ASSUME NEW c \in D, NEW d \in D, c < d
        PROVE  Cardinality(Below(c)) < Cardinality(Below(d))
    <2>1. Below(c) \in SUBSET Below(d) /\ c \in Below(d) /\ c \notin Below(c)
      <3>1. c \in Int /\ d \in Int
        OBVIOUS
      <3>2. \A x \in D : x < c => x < d
        BY <1>5, <3>1
      <3>3. Below(c) \in SUBSET Below(d)
        BY <3>2
      <3>4. c \in Below(d)
        BY <1>5
      <3>5. ~(c < c)
        BY <3>1
      <3>6. QED
        BY <3>3, <3>4, <3>5
    <2>2. /\ Cardinality(Below(c)) <= Cardinality(Below(d))
          /\ Cardinality(Below(c)) # Cardinality(Below(d))
      BY <1>2, <2>1, FS_Subset
    <2>3. QED
      BY <1>2, <2>2
  <1>6. ASSUME NEW c \in D, NEW d \in D, rank[c] = rank[d]
        PROVE  c = d
    <2>1. ~(c < d) /\ ~(d < c)
      BY <1>2, <1>5, <1>6
    <2>2. QED
      BY <2>1
  <1>7. rank \in Injection(D, Ranks)
    BY <1>4, <1>6, Fun_IsInj
  <1>8. IsFiniteSet(Ranks) /\ Cardinality(Ranks) = Cardinality(D)
    BY <1>1, FS_Interval
  <1>9. rank \in Surjection(D, Ranks)
    BY <1>7, <1>8, FS_Injection
  <1>10. QED
    BY <1>7, <1>9 DEF Bijection

\* How many days a page has.
LEMMA PagesAreFull ==
  ASSUME Parameters, aggregates \in [Buckets -> Aggregate], NEW query,
         NEW limit \in Nat, NEW offset \in Nat
  PROVE  LET size == Clamp(limit, 1, MaxLimit)
             days == Cardinality(DatesIn(query.workspace, query.names, query.from, query.to))
         IN  Cardinality(Page(query, limit, offset)) = Clamp(days - offset, 0, size)
  <1> DEFINE D     == DatesIn(query.workspace, query.names, query.from, query.to)
             size  == Clamp(limit, 1, MaxLimit)
             days  == Cardinality(D)
             rank  == [d \in D |-> Cardinality({c \in D : c < d})]
             last  == IF offset + size < days THEN offset + size - 1 ELSE days - 1
             page  == {d \in D : offset <= rank[d] /\ rank[d] < offset + size}
  <1>1. IsFiniteSet(D) /\ days \in Nat
    BY SumsAreNaturals
  <1>2. D \subseteq Int
    BY DEF DatesIn, RowsIn, Buckets, Days, Parameters
  <1>3. size \in Nat
    BY DEF Clamp, MaxLimit
  <1>4. Page(query, limit, offset) = page
    BY DEF Page
  <1>5. rank \in Bijection(D, 0..(days - 1))
    BY <1>1, <1>2, RanksAreDense
  <1> HIDE DEF D, size, days, rank
  <1>6. /\ rank \in [D -> 0..(days - 1)]
        /\ \A c, d \in D : rank[c] = rank[d] => c = d
        /\ \A n \in 0..(days - 1) : \E d \in D : rank[d] = n
    <2> DEFINE Ranks == 0..(days - 1)
    <2>1. rank \in Bijection(D, Ranks)
      BY <1>5
    <2> HIDE DEF Ranks
    <2>2. /\ rank \in [D -> Ranks]
          /\ \A c, d \in D : rank[c] = rank[d] => c = d
          /\ \A n \in Ranks : \E d \in D : rank[d] = n
      BY <2>1, Fun_BijectionProperties
    <2>3. QED
      BY <2>2 DEF Ranks
  <1> DEFINE f == [d \in page |-> rank[d]]
  <1>7. f \in Bijection(page, offset..last)
    <2>1. f \in [page -> offset..last]
      BY <1>1, <1>3, <1>6
    <2>2. \A c, d \in page : f[c] = f[d] => c = d
      BY <1>6
    <2>3. ASSUME NEW n \in offset..last
          PROVE  \E d \in page : f[d] = n
      <3>1. n \in 0..(days - 1) /\ offset <= n /\ n < offset + size
        BY <1>1, <1>3
      <3>2. QED
        BY <1>6, <3>1
    <2>4. QED
      BY <2>1, <2>2, <2>3, Fun_IsBij
  <1>8. IsFiniteSet(page)
    BY <1>1, FS_Subset
  <1>9. Cardinality(offset..last) = Cardinality(page)
    <2>1. ExistsBijection(page, offset..last)
      BY <1>7 DEF ExistsBijection
    <2>2. QED
      BY <1>8, <2>1, FS_Bijection
  <1>10. Cardinality(offset..last) = Clamp(days - offset, 0, size)
    <2>1. last \in Int
      BY <1>1, <1>3
    <2>2. Cardinality(offset..last) = IF offset > last THEN 0 ELSE last - offset + 1
      BY <2>1, FS_Interval
    <2>3. QED
      BY <1>1, <1>3, <2>2 DEF Clamp
  <1>11. QED
    BY <1>4, <1>9, <1>10 DEF size, days, D

\* Both queries of a reply speak of the same table, unless an aggregation was
\* written in between.
THEOREM RepliesAgree == ASSUME Parameters PROVE Spec => []RepliesAreSnapshots
  <1>1. Init => ReplyInv
    BY TypeInit DEF Init, ReplyInv, FirstQueriesHold
  <1>2. ReplyInv => RepliesAreSnapshots
    <2> SUFFICES ASSUME ReplyInv, NEW q \in Readers, q \notin torn
                 PROVE  LET query == readers[q]
                        IN  /\ query.op = "growth" =>
                                 query.first + PreviousTotal(query) =
                                   SumCounts(query.workspace, query.names,
                                             query.from - ((query.to - query.from) + 1),
                                             query.to)
                            /\ query.op = "daily" =>
                                 \A limit, offset \in 0..MaxDay :
                                   Cardinality(Page(query, limit, offset)) =
                                     Clamp(query.first - offset, 0, Clamp(limit, 1, MaxLimit))
      BY DEF RepliesAreSnapshots
    <2> DEFINE query == readers[q]
    <2>1. aggregates \in [Buckets -> Aggregate] /\ query \in Query \union {NoQuery}
      BY DEF ReplyInv, TypeInv, TypeOK
    <2>2. ASSUME query.op = "growth"
          PROVE  query.first + PreviousTotal(query) =
                   SumCounts(query.workspace, query.names,
                             query.from - ((query.to - query.from) + 1), query.to)
      <3>1. query \in Query
        BY <2>1, <2>2 DEF NoQuery
      <3>2. query.from \in Int /\ query.to \in Int
        BY <3>1 DEF Query
      <3>3. query.from <= query.to
        BY <2>2 DEF ReplyInv, FirstQueriesHold, NoQuery, ValidRange
      <3>4. query.first = SumCounts(query.workspace, query.names, query.from, query.to)
        BY <2>2 DEF ReplyInv, FirstQueriesHold, NoQuery
      <3> DEFINE start == query.from - ((query.to - query.from) + 1)
      <3>5. start \in Int /\ start <= query.from /\ PreviousFrom(query) = start
        BY <3>2, <3>3 DEF PreviousFrom
      <3> HIDE DEF start
      <3>6. QED
        BY <2>1, <3>2, <3>3, <3>4, <3>5, RangesAdd DEF PreviousTotal, start
    <2>3. ASSUME query.op = "daily", NEW limit \in 0..MaxDay, NEW offset \in 0..MaxDay
          PROVE  Cardinality(Page(query, limit, offset)) =
                   Clamp(query.first - offset, 0, Clamp(limit, 1, MaxLimit))
      <3>1. query.first =
              Cardinality(DatesIn(query.workspace, query.names, query.from, query.to))
        BY <2>3 DEF ReplyInv, FirstQueriesHold, NoQuery
      <3>2. QED
        BY <2>1, <3>1, PagesAreFull DEF Parameters
    <2>4. QED
      BY <2>2, <2>3
  <1>3. QED
    BY <1>1, <1>2, ReplyInduction, PTL DEF Spec

\* The distinct users of a range are never more than its active users, once its
\* days are aggregated and nothing was late.
THEOREM ActiveUsersSuffice == ASSUME Parameters PROVE Spec => []ActiveUsersCoverEveryone
  <1>1. ASSUME CountInv, NEW w \in Workspaces, NEW a \in Asked,
               \A b \in [workspace : {w}, name : a.names, day : a.from..a.to] :
                 b.day \in written /\ b \notin late
        PROVE  Cardinality(UNION {UsersOf(b) : b \in [workspace : {w}, name : a.names,
                                                      day : a.from..a.to]})
                 <= SumUniqueUsers(w, a.names, a.from, a.to)
    <2> DEFINE buckets == [workspace : {w}, name : a.names, day : a.from..a.to]
               users   == UNION {UsersOf(b) : b \in buckets}
               rows    == RowsIn(w, a.names, a.from, a.to)
               n       == [b \in Buckets |-> aggregates[b].uniqueUsers]
    <2>1. a.names \subseteq EventNames /\ a.from \in Int /\ a.to \in Int
      BY DEF Parameters, Filters
    <2>2. buckets \subseteq Buckets
      <3>1. \A b \in buckets : b.day \in Days
        BY <1>1 DEF CountInv, TypeInv, TypeOK
      <3>2. QED
        BY <2>1, <3>1 DEF Buckets
    <2>3. \A b \in buckets : aggregates[b] = ExactRow(b)
      BY <1>1, <2>2 DEF CountInv, TableHolds
    <2>4. rows \subseteq buckets
      BY <2>1 DEF RowsIn, Buckets, Days, Parameters
    <2>5. \A b \in buckets : n[b] = Cardinality(UsersOf(b)) /\ n[b] \in Nat
      <3> SUFFICES ASSUME NEW b \in buckets
                   PROVE  n[b] = Cardinality(UsersOf(b)) /\ n[b] \in Nat
        OBVIOUS
      <3>1. n[b] = UniqueUsersOf(b)
        <4>1. b \in Buckets /\ aggregates[b] = ExactRow(b)
          BY <2>2, <2>3
        <4>2. n[b] = aggregates[b].uniqueUsers
          BY <4>1
        <4> HIDE DEF n
        <4>3. QED
          BY <4>1, <4>2 DEF ExactRow
      <3>2. UniqueUsersOf(b) \in Nat
        BY GroupsAreFinite
      <3>3. QED
        BY <3>1, <3>2 DEF UniqueUsersOf
    <2>6. ASSUME NEW b \in buckets, UsersOf(b) # {}
          PROVE  b \in rows
      <3>1. n[b] # 0
        BY <2>5, <2>6, GroupsAreFinite, FS_EmptySet
      <3>2. aggregates[b] # NoRow
        BY <2>2, <3>1 DEF NoRow
      <3>3. QED
        BY <2>1, <2>2, <3>2 DEF RowsIn, Days, Parameters
    <2> DEFINE g == [b \in buckets |-> CHOOSE h \in Surjection(1..n[b], UsersOf(b)) : TRUE]
    <2>7. ASSUME NEW b \in buckets
          PROVE  g[b] \in Surjection(1..n[b], UsersOf(b))
      <3>1. ExistsBijection(1..n[b], UsersOf(b))
        BY <2>5, GroupsAreFinite, FS_CardinalityType
      <3>2. \E h : h \in Surjection(1..n[b], UsersOf(b))
        BY <3>1 DEF ExistsBijection, Bijection
      <3>3. QED
        BY <3>2
    <2> HIDE DEF g, n, rows, buckets
    <2>8. \A b \in buckets : /\ g[b] \in [1..n[b] -> UsersOf(b)]
                             /\ \A u \in UsersOf(b) : \E k \in 1..n[b] : g[b][k] = u
      BY <2>7 DEF Surjection
    <2> DEFINE pairs == Pairs(rows, n)
               f == [p \in pairs |-> g[p[1]][p[2]]]
    <2>9. f \in Surjection(pairs, users)
      <3>1. \A p \in pairs : p[1] \in rows /\ p[2] \in 1..n[p[1]]
        BY DEF Pairs
      <3>2. f \in [pairs -> users]
        <4>1. ASSUME NEW p \in pairs PROVE f[p] \in users
          <5>1. p[1] \in buckets /\ p[2] \in 1..n[p[1]]
            BY <2>4, <3>1
          <5>2. g[p[1]][p[2]] \in UsersOf(p[1])
            BY <2>8, <5>1
          <5>3. QED
            BY <5>1, <5>2
        <4>2. QED
          BY <4>1
      <3>3. ASSUME NEW u \in users
            PROVE  \E p \in pairs : f[p] = u
        <4>1. PICK b \in buckets : u \in UsersOf(b)
          OBVIOUS
        <4>2. PICK k \in 1..n[b] : g[b][k] = u
          BY <2>8, <4>1
        <4>3. <<b, k>> \in pairs
          BY <2>6, <4>1 DEF Pairs
        <4>4. f[<<b, k>>] = u
          BY <4>2, <4>3
        <4>5. QED
          BY <4>3, <4>4
      <3>4. QED
        BY <3>2, <3>3, Fun_IsSurj
    <2>10. IsFiniteSet(rows)
      <3>1. aggregates \in [Buckets -> Aggregate]
        BY <1>1 DEF CountInv, TypeInv, TypeOK
      <3>2. QED
        BY <3>1, SumsAreNaturals DEF rows
    <2>11. IsFiniteSet(pairs)
      BY <2>4, <2>5, <2>10, TotalOfFinite
    <2>12. Cardinality(users) <= Cardinality(pairs)
      BY <2>9, <2>11, FS_Surjection
    <2>13. Cardinality(pairs) = SumUniqueUsers(w, a.names, a.from, a.to)
      BY DEF SumUniqueUsers, Total, Pairs, rows, n
    <2>14. QED
      BY <2>12, <2>13 DEF buckets
  <1>2. CountInv => ActiveUsersCoverEveryone
    BY <1>1 DEF ActiveUsersCoverEveryone
  <1>3. QED
    BY <1>2, CountsInvariant, PTL

-----------------------------------------------------------------------------
(* No day is forgotten                                                     *)

\* Someone is still to aggregate the day, now or in another attempt.
Pending(d) ==
  \E j \in Jobs : jobs[j] # NoJob /\ (jobs[j].phase = "retry" \/ jobs[j].target = d)

\* The work of a day is done, or known to be late, or somebody has it.
Settled(d) == d \in written \/ d + 1 \in delayed \/ Pending(d)

ScheduleInv ==
  /\ TypeInv
  /\ next <= today + 1
  /\ next = today + 1 => Settled(today - 1)
  /\ DaysAreSkippedOnlyWhenDelayed

LEMMA ScheduleInit ==
  ASSUME Parameters, Init
  PROVE  ScheduleInv
  <1>1. TypeInv
    BY TypeInit
  <1>2. today = 1 /\ next = 1
    BY DEF Init
  <1>3. QED
    BY <1>1, <1>2 DEF ScheduleInv, DaysAreSkippedOnlyWhenDelayed

\* A step within a day.
LEMMA ScheduleStays ==
  ASSUME ScheduleInv, TypeInv', UNCHANGED today,
         written \subseteq written', delayed \subseteq delayed',
         \/ UNCHANGED next /\ (Pending(today - 1) => Settled(today - 1)')
         \/ next' = today + 1 /\ Settled(today - 1)'
  PROVE  ScheduleInv'
  <1>1. today \in Int /\ next \in Int /\ next' \in Int
    BY DEF ScheduleInv, TypeInv, TypeOK, Days
  <1>2. DaysAreSkippedOnlyWhenDelayed'
    BY DEF ScheduleInv, DaysAreSkippedOnlyWhenDelayed
  <1>3. next' <= today' + 1
    BY <1>1 DEF ScheduleInv
  <1>4. next' = today' + 1 => Settled(today - 1)'
    BY DEF ScheduleInv, Settled
  <1>5. QED
    BY <1>2, <1>3, <1>4 DEF ScheduleInv

LEMMA ScheduleOfJobStep ==
  ASSUME Parameters, ScheduleInv, NEW j \in Jobs, Aggregation(j)
  PROVE  ScheduleInv'
  <1> DEFINE yesterday == today - 1
  <1>1. /\ TypeInv' /\ today \in Int
        /\ jobs \in [Jobs -> Job \union {NoJob}]
    BY TypeOfJobStep DEF ScheduleInv, TypeInv, TypeOK, Days
  <1>2. Target = yesterday
    BY DEF Target, DayOffset, Clamp
  \* It is enough to look at the job of the step.
  <1>3. ASSUME UNCHANGED today, \A i \in Jobs \ {j} : jobs'[i] = jobs[i],
               \/ yesterday \in written' \/ yesterday + 1 \in delayed'
               \/ /\ jobs'[j] # NoJob
                  /\ jobs'[j].phase = "retry" \/ jobs'[j].target = yesterday
               \/ jobs[j] = NoJob \/ (jobs[j].phase # "retry" /\ jobs[j].target # yesterday),
               written \subseteq written', delayed \subseteq delayed'
        PROVE  Pending(yesterday) => Settled(yesterday)'
    BY <1>3 DEF Pending, Settled
  <1>4. CASE StartJob(j)
    <2>1. /\ jobs'[j].target = yesterday /\ jobs'[j] # NoJob
          /\ next' = today + 1 /\ UNCHANGED <<today, written, delayed>>
      BY <1>1, <1>2, <1>4 DEF StartJob, ghosts, NoJob
    <2>2. Settled(today - 1)'
      BY <2>1 DEF Settled, Pending
    <2>3. QED
      BY <1>1, <2>1, <2>2, ScheduleStays
  <1>5. CASE RetryJob(j)
    <2>1. jobs[j] \in Job
      BY <1>1, <1>5 DEF RetryJob, NoJob
    <2>2. /\ jobs'[j].target = yesterday /\ jobs'[j].phase = "active"
          /\ \A i \in Jobs \ {j} : jobs'[i] = jobs[i]
          /\ UNCHANGED <<today, next, written, delayed>>
      BY <1>1, <1>2, <1>5, <2>1 DEF RetryJob, Job, ghosts
    <2>3. jobs'[j] # NoJob
      BY <2>2 DEF NoJob
    <2>4. QED
      BY <1>1, <1>3, <2>2, <2>3, ScheduleStays
  <1>6. CASE CountEvents(j)
    <2>1. jobs[j] \in Job /\ jobs[j].phase = "active"
      BY <1>1, <1>6 DEF CountEvents, NoJob
    <2>2. /\ jobs'[j].target = jobs[j].target /\ jobs'[j].phase = "counted"
          /\ \A i \in Jobs \ {j} : jobs'[i] = jobs[i]
          /\ UNCHANGED <<today, next, written, delayed>>
      BY <1>1, <1>6, <2>1 DEF CountEvents, Job
    <2>3. jobs'[j] # NoJob
      BY <2>2 DEF NoJob
    <2>4. QED
      BY <1>1, <1>3, <2>1, <2>2, <2>3, ScheduleStays
  <1>7. CASE WriteAggregates(j)
    <2>1. /\ jobs[j].phase = "counted" /\ jobs[j].target \in written'
          /\ \A i \in Jobs \ {j} : jobs'[i] = jobs[i]
          /\ written \subseteq written' /\ UNCHANGED <<today, next, delayed>>
      BY <1>1, <1>7 DEF WriteAggregates
    <2>2. QED
      BY <1>1, <1>3, <2>1, ScheduleStays
  <1>8. CASE FailJob(j)
    <2>1. jobs[j] \in Job
      BY <1>1, <1>8 DEF FailJob, NoJob
    <2>2. /\ \A i \in Jobs \ {j} : jobs'[i] = jobs[i]
          /\ delayed \subseteq delayed' /\ UNCHANGED <<today, next, written>>
      BY <1>1, <1>8 DEF FailJob
    <2>3. CASE jobs[j].tries < Attempts
      <3>1. jobs'[j].phase = "retry"
        BY <1>1, <1>8, <2>1, <2>3 DEF FailJob, Job
      <3>2. jobs'[j] # NoJob
        BY <3>1 DEF NoJob
      <3>3. QED
        BY <1>1, <1>3, <2>2, <3>1, <3>2, ScheduleStays
    <2>4. CASE ~(jobs[j].tries < Attempts)
      <3>1. jobs[j].tries = Attempts
        BY <2>1, <2>4 DEF Job, Parameters
      <3>2. today \in delayed'
        BY <1>8, <3>1 DEF FailJob
      <3>3. yesterday + 1 = today
        BY <1>1
      <3>4. QED
        BY <1>1, <1>3, <2>2, <3>2, <3>3, ScheduleStays
    <2>5. QED
      BY <2>3, <2>4
  <1>9. QED
    BY <1>4, <1>5, <1>6, <1>7, <1>8 DEF Aggregation

LEMMA ScheduleInduction ==
  ASSUME Parameters
  PROVE  ScheduleInv /\ [Next]_dailyVars => ScheduleInv'
  <1> SUFFICES ASSUME ScheduleInv, [Next]_dailyVars
               PROVE  ScheduleInv'
    OBVIOUS
  <1>1. TypeInv' /\ today \in Int /\ next \in Int
    BY TypeInduction DEF ScheduleInv, TypeInv, TypeOK, Days
  <1>2. CASE UNCHANGED <<today, next, jobs, written, delayed>>
    BY <1>1, <1>2 DEF ScheduleInv, Settled, Pending, DaysAreSkippedOnlyWhenDelayed
  <1>3. CASE Midnight
    <2>1. /\ today' = today + 1 /\ UNCHANGED <<next, written>>
          /\ delayed' = delayed \union
               {d \in {today} : next <= today \/ \E j \in Jobs : jobs[j] # NoJob}
      BY <1>3 DEF Midnight
    <2>2. next' <= today' + 1 /\ next' # today' + 1
      BY <1>1, <2>1 DEF ScheduleInv
    <2>3. today - 1 \in written \/ today \in delayed'
      <3>1. CASE next <= today
        BY <2>1, <3>1
      <3>2. CASE next = today + 1
        <4>1. Settled(today - 1) /\ (today - 1) + 1 = today
          BY <1>1, <3>2 DEF ScheduleInv
        <4>2. QED
          BY <2>1, <4>1 DEF Settled, Pending
      <3>3. QED
        BY <1>1, <3>1, <3>2 DEF ScheduleInv
    <2>4. DaysAreSkippedOnlyWhenDelayed'
      <3> SUFFICES ASSUME NEW d \in 0..(today' - 2)
                   PROVE  d \in written' \/ d + 1 \in delayed'
        BY DEF DaysAreSkippedOnlyWhenDelayed
      <3>1. CASE d = today - 1
        BY <1>1, <2>1, <2>3, <3>1
      <3>2. CASE d # today - 1
        <4>1. d \in 0..(today - 2)
          BY <1>1, <2>1, <3>2
        <4>2. QED
          BY <2>1, <4>1 DEF ScheduleInv, DaysAreSkippedOnlyWhenDelayed
      <3>3. QED
        BY <3>1, <3>2
    <2>5. QED
      BY <1>1, <2>2, <2>4 DEF ScheduleInv
  <1>4. ASSUME NEW q \in Readers, Metrics(q)
        PROVE  UNCHANGED <<today, next, jobs, written, delayed>>
    BY <1>4 DEF Metrics, BeginGrowth, BeginDaily, Begin, Reply, ghosts
  <1>5. QED
    BY <1>2, <1>3, <1>4, ScheduleOfJobStep DEF Next, dailyVars, InsertEvents

\* Every day is aggregated the day after, unless that day ended with the work
\* not done, for any number of days, jobs and attempts.
THEOREM NoDayForgotten == ASSUME Parameters PROVE Spec => []DaysAreSkippedOnlyWhenDelayed
  <1>1. Init => ScheduleInv
    BY ScheduleInit
  <1>2. ScheduleInv => DaysAreSkippedOnlyWhenDelayed
    BY DEF ScheduleInv
  <1>3. QED
    BY <1>1, <1>2, ScheduleInduction, PTL DEF Spec

=============================================================================
