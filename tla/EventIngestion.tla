--------------------------- MODULE EventIngestion ---------------------------
(***************************************************************************)
(* EventsService.ingestFromApiKey and the cleanup job, for one workspace.  *)
(* A request turns its batch into idempotency keys, then in one READ       *)
(* COMMITTED transaction claims them with INSERT ... ON CONFLICT DO UPDATE *)
(* WHERE expired, checks the daily limit, inserts the events of the keys   *)
(* it claimed and adds them to the day's usage.  The claiming statement    *)
(* takes the key rows one after the other in the order of the batch and    *)
(* keeps them locked to the end, those it does not claim too.              *)
(*                                                                         *)
(* The cleanup deletes in one statement the rows a snapshot found expired, *)
(* locking one after the other; a row it had to wait for is matched by id  *)
(* again, its expiry is not.                                               *)
(*                                                                         *)
(* A key stands for header and event: the batch is free of repeated keys   *)
(* (uniqueByIdempotencyKey).  Time is counted in ticks of one clock.       *)
(***************************************************************************)
EXTENDS Naturals, FiniteSets, Sequences, SequencesExt

CONSTANTS
  Keys,        \* idempotency keys
  Requests,    \* slots for ingest requests in flight at the same time
  Cleanup,     \* the cleanup job
  TTL,         \* ticks a key stays active: idempotencyTtlHours
  DayLength,   \* ticks of a UTC day
  MaxPerDay,   \* maxEventsPerWorkspacePerDay
  BatchSize,   \* rows the cleanup deletes at most in one run
  MaxTime      \* bound on the clock

ASSUME Parameters ==
  /\ IsFiniteSet(Keys) /\ IsFiniteSet(Requests)
  /\ Cleanup \notin Requests
  /\ TTL \in Nat /\ DayLength \in Nat \ {0} /\ MaxPerDay \in Nat
  /\ BatchSize \in Nat \ {0} /\ MaxTime \in Nat

Procs == Requests \union {Cleanup}
Times == 0..MaxTime
Day(t) == t \div DayLength
Days  == {Day(t) : t \in Times}

VARIABLES
  now,        \* the clock
  expiresAt,  \* committed rows of event_idempotency_keys: those in its domain
  usage,      \* workspace_daily_usage.events_inserted of each day
  pc,         \* where each process is
  todo,       \* keys whose rows its statement has yet to visit
  locks,      \* keys whose rows its transaction has locked
  claimed,    \* keys the request claimed; rows the cleanup has deleted
  started,    \* `now` of the transaction
  expiry,     \* expiresAt of the request, computed before its transaction
  window,     \* ghost: when the idempotency window of a key's last events ends
  robbed      \* ghost: keys whose row the cleanup deleted before that

vars == <<now, expiresAt, usage, pc, todo, locks, claimed, started, expiry,
          window, robbed>>

Labels == {"idle", "begin", "claim", "commit", "delete"}

TypeOK ==
  /\ now \in Times
  /\ DOMAIN expiresAt \subseteq Keys
  /\ \A k \in DOMAIN expiresAt : expiresAt[k] \in 0..(MaxTime + TTL)
  /\ usage \in [Days -> Nat]
  /\ pc \in [Procs -> Labels]
  /\ todo \in [Procs -> Seq(Keys)]
  /\ locks \in [Procs -> SUBSET Keys]
  /\ claimed \in [Procs -> SUBSET Keys]
  /\ \A p \in Procs : claimed[p] \subseteq locks[p]
  /\ \A p \in Procs : pc[p] = "idle" => todo[p] = <<>> /\ locks[p] = {}
  /\ started \in [Procs -> Times]
  /\ expiry \in [Procs -> 0..(MaxTime + TTL)]
  /\ window \in [Keys -> 0..(MaxTime + TTL)]
  /\ robbed \subseteq Keys

Init ==
  /\ now = 0
  /\ expiresAt = <<>>
  /\ usage = [d \in Days |-> 0]
  /\ pc = [p \in Procs |-> "idle"]
  /\ todo = [p \in Procs |-> <<>>]
  /\ locks = [p \in Procs |-> {}]
  /\ claimed = [p \in Procs |-> {}]
  /\ started = [p \in Procs |-> 0]
  /\ expiry = [p \in Procs |-> 0]
  /\ window = [k \in Keys |-> 0]
  /\ robbed = {}

-----------------------------------------------------------------------------
(* Helpers                                                                 *)

Goto(p, label) == pc' = [pc EXCEPT ![p] = label]

\* A slip: the connection goes back to the pool with its transaction open.
FinishKeepsLocks(p) ==
  /\ Goto(p, "idle")
  /\ todo' = [todo EXCEPT ![p] = <<>>]
  /\ claimed' = [claimed EXCEPT ![p] = {}]
  /\ started' = [started EXCEPT ![p] = 0]
  /\ expiry' = [expiry EXCEPT ![p] = 0]
  /\ UNCHANGED locks

\* The process is done and its transaction over; its locks are released.
Finish(p) ==
  /\ Goto(p, "idle")
  /\ todo' = [todo EXCEPT ![p] = <<>>]
  /\ locks' = [locks EXCEPT ![p] = {}]
  /\ claimed' = [claimed EXCEPT ![p] = {}]
  /\ started' = [started EXCEPT ![p] = 0]
  /\ expiry' = [expiry EXCEPT ![p] = 0]

\* Nothing that is committed changes.
NoCommit == UNCHANGED <<expiresAt, usage, window, robbed>>

LockedByOther(p, k) == \E q \in Procs \ {p} : k \in locks[q]

\* The statement of p visits its next row, waiting for the row's lock.
Visit(p, claims) ==
  LET k == Head(todo[p])
  IN  /\ todo[p] # <<>>
      /\ ~LockedByOther(p, k)
      /\ todo' = [todo EXCEPT ![p] = Tail(@)]
      /\ locks' = [locks EXCEPT ![p] = @ \union {k}]
      /\ claimed' = [claimed EXCEPT ![p] = @ \union {j \in {k} : claims}]

-----------------------------------------------------------------------------
(* ingestFromApiKey                                                        *)

BeginIngest(r) ==
  \E batch \in SetToAllKPermutations(Keys) \ {<<>>} :
    /\ pc[r] = "idle"
    /\ Goto(r, "begin")
    /\ todo' = [todo EXCEPT ![r] = batch]
    /\ expiry' = [expiry EXCEPT ![r] = now + TTL]
    /\ UNCHANGED <<now, locks, claimed, started>>
    /\ NoCommit

\* The pool hands out a connection.
StartTransaction(r) ==
  /\ pc[r] = "begin"
  /\ Goto(r, "claim")
  /\ started' = [started EXCEPT ![r] = now]
  /\ UNCHANGED <<now, todo, locks, claimed, expiry>>
  /\ NoCommit

\* A slip: a row is active at the moment it expires.
ClaimableLater(r, k) == k \in DOMAIN expiresAt => expiresAt[k] < started[r]

\* A slip: the upsert has no WHERE.
AlwaysClaimable(r, k) == TRUE

\* No row, or one that has expired by the time the transaction began.
Claimable(r, k) == k \in DOMAIN expiresAt => expiresAt[k] <= started[r]

ClaimKey(r) ==
  /\ pc[r] = "claim"
  /\ Visit(r, Claimable(r, Head(todo[r])))
  /\ UNCHANGED <<now, pc, started, expiry>>
  /\ NoCommit

\* A slip: the limit is on the batch, not on the day.
BatchWithinLimit(r) == Cardinality(claimed[r]) <= MaxPerDay

WithinLimit(r) == usage[Day(started[r])] + Cardinality(claimed[r]) <= MaxPerDay

\* A slip: the limit's error ends neither the transaction nor the request.
CheckLimitHangs(r) ==
  /\ pc[r] = "claim"
  /\ todo[r] = <<>>
  /\ claimed[r] = {} \/ WithinLimit(r)
  /\ Goto(r, "commit")
  /\ UNCHANGED <<now, todo, locks, claimed, started, expiry>>
  /\ NoCommit

\* All keys visited: getForDay, unless there is nothing to insert.
\* EVENT_LIMIT_EXCEEDED rolls the claims back.
CheckLimit(r) ==
  /\ pc[r] = "claim"
  /\ todo[r] = <<>>
  /\ IF claimed[r] = {} \/ WithinLimit(r)
       THEN Goto(r, "commit") /\ UNCHANGED <<todo, locks, claimed, started, expiry>>
       ELSE Finish(r)
  /\ UNCHANGED now
  /\ NoCommit

\* A slip: the upsert does nothing to a row that is there.
CommitKeepsExpiry(r) ==
  LET new == claimed[r]
      day == Day(started[r])
  IN  /\ pc[r] = "commit"
      /\ expiresAt' = [k \in new \union DOMAIN expiresAt |->
                         IF k \in DOMAIN expiresAt THEN expiresAt[k] ELSE expiry[r]]
      /\ usage' = [usage EXCEPT ![day] = @ + Cardinality(new)]
      /\ window' = [k \in Keys |-> IF k \in new THEN expiry[r] ELSE window[k]]
      /\ robbed' = robbed \ new
      /\ Finish(r)
      /\ UNCHANGED now

\* bulkInsert, incrementForDay (which waits for others' increments and adds
\* to what they committed) and COMMIT.
Commit(r) ==
  LET new == claimed[r]
      day == Day(started[r])
  IN  /\ pc[r] = "commit"
      /\ expiresAt' = [k \in new \union DOMAIN expiresAt |->
                         IF k \in new THEN expiry[r] ELSE expiresAt[k]]
      /\ usage' = [usage EXCEPT ![day] = @ + Cardinality(new)]
      /\ window' = [k \in Keys |-> IF k \in new THEN expiry[r] ELSE window[k]]
      /\ robbed' = robbed \ new
      /\ Finish(r)
      /\ UNCHANGED now

-----------------------------------------------------------------------------
(* ExpiredIdempotencyKeysCleanupProcessor.run                              *)

Expired == {k \in DOMAIN expiresAt : expiresAt[k] <= now}

\* The oldest BatchSize expired rows, to be deleted in any order.
Doomed(S) ==
  /\ S \subseteq Expired
  /\ Cardinality(S) <= BatchSize
  /\ Cardinality(S) = BatchSize \/ S = Expired
  /\ \A j \in S, k \in Expired \ S : expiresAt[j] <= expiresAt[k]

BeginCleanup ==
  \E order \in SetToAllKPermutations(Keys) \ {<<>>} :
    /\ pc[Cleanup] = "idle"
    /\ Doomed(ToSet(order))
    /\ Goto(Cleanup, "delete")
    /\ todo' = [todo EXCEPT ![Cleanup] = order]
    /\ UNCHANGED <<now, locks, claimed, started, expiry>>
    /\ NoCommit

\* The id still matches, whatever has become of the expiry.
DeleteRow ==
  /\ pc[Cleanup] = "delete"
  /\ Visit(Cleanup, TRUE)
  /\ UNCHANGED <<now, pc, started, expiry>>
  /\ NoCommit

CommitCleanup ==
  /\ pc[Cleanup] = "delete"
  /\ todo[Cleanup] = <<>>
  /\ expiresAt' = [k \in DOMAIN expiresAt \ claimed[Cleanup] |-> expiresAt[k]]
  /\ robbed' = robbed \union {k \in claimed[Cleanup] : window[k] > now}
  /\ Finish(Cleanup)
  /\ UNCHANGED <<now, usage, window>>

-----------------------------------------------------------------------------
(* PostgreSQL and the environment                                          *)

WaitsFor(p, q) == p # q /\ todo[p] # <<>> /\ pc[p] # "begin" /\ Head(todo[p]) \in locks[q]

\* p is part of a cycle: each one in S waits for one in S, and is waited for.
Deadlocked(p) ==
  \E S \in SUBSET Procs :
    /\ p \in S
    /\ \A q \in S : (\E s \in S : WaitsFor(q, s)) /\ (\E s \in S : WaitsFor(s, q))

\* PostgreSQL aborts a transaction of the cycle.
AbortDeadlock(p) ==
  /\ Deadlocked(p)
  /\ Finish(p)
  /\ UNCHANGED now
  /\ NoCommit

\* The process dies, or its connection does: its transaction is rolled back.
Crash(p) ==
  /\ pc[p] # "idle"
  /\ Finish(p)
  /\ UNCHANGED now
  /\ NoCommit

Tick ==
  /\ now < MaxTime
  /\ now' = now + 1
  /\ UNCHANGED <<pc, todo, locks, claimed, started, expiry>>
  /\ NoCommit

-----------------------------------------------------------------------------

Ingest(r) ==
  \/ StartTransaction(r)
  \/ ClaimKey(r)
  \/ CheckLimit(r)
  \/ Commit(r)

Clean == DeleteRow \/ CommitCleanup

Next ==
  \/ \E r \in Requests : BeginIngest(r) \/ Ingest(r)
  \/ BeginCleanup
  \/ Clean
  \/ \E p \in Procs : AbortDeadlock(p) \/ Crash(p)
  \/ Tick

Spec == Init /\ [][Next]_vars

\* The event loop and the database run every statement that can run.  A row
\* lock is granted in the order it was asked for, so one that is released
\* again and again is granted in the end; so is the abort of a deadlock.
FairSpec ==
  /\ Spec
  /\ \A r \in Requests : SF_vars(Ingest(r))
  /\ SF_vars(Clean)
  /\ WF_vars(\E p \in Procs : AbortDeadlock(p))

-----------------------------------------------------------------------------
(* Properties                                                              *)

\* A key row remembers the events it stands for as long as their window
\* lasts, whatever is claimed, rolled back or deadlocked meanwhile, unless the
\* cleanup robbed it.
ActiveRowsRemember ==
  \A k \in Keys \ robbed :
    window[k] > now => k \in DOMAIN expiresAt /\ expiresAt[k] = window[k]

\* A retry never inserts an event a second time before the window of the
\* first one is over, however the two requests overlap, unless the cleanup
\* robbed the key.
ReplaysInsertNothing ==
  [][\A r \in Requests, k \in Keys :
       /\ pc[r] = "commit" /\ pc'[r] = "idle" /\ window' # window
       /\ k \in claimed[r] \ robbed
       => window[k] <= now]_vars

\* Concurrent requests may each pass the check of the daily limit before any
\* of them adds to the usage, but the excess is bounded: a day never counts
\* more events than the limit times the requests in flight at once.
OvershootIsBounded ==
  \A d \in Days : usage[d] <= MaxPerDay * Cardinality(Requests)

\* No request waits forever for the rows of another, or of the cleanup.
EveryIngestEnds ==
  \A r \in Requests : pc[r] # "idle" ~> pc[r] = "idle"

\* The batch of each request and the time it arrived, from what is left of it.
Asked ==
  [r \in Requests |->
     IF pc[r] = "idle"
       THEN [keys |-> {}, at |-> 0]
       ELSE [keys |-> ToSet(todo[r]) \union locks[r], at |-> expiry[r] - TTL]]

Promise == INSTANCE Deduplication WITH forgotten <- robbed, asked <- Asked

\* However requests, cleanup, crashes and deadlocks interleave, a batch is stored as
\* if in one step: all of it or nothing, and of its events those that are new as of
\* some moment between its arrival and its end.  No event is lost.
ImplementsDeduplication == Promise!Spec

\* "Max events inserted per workspace per UTC day." (configuration.ts:65)
DailyLimit == \A d \in Days : usage[d] <= MaxPerDay

\* "Deletes expired idempotency-key rows in small batches."
\* (expired-idempotency-keys.processor.ts:11): the rows of active keys stay.
CleanupDeletesExpired ==
  [][\A k \in DOMAIN expiresAt : k \notin DOMAIN expiresAt' => expiresAt[k] <= now]_vars

=============================================================================
