# TLA+ models of the analytics backend and its dashboard

The NestJS backend under `src/backend` keeps its state in PostgreSQL and runs
almost every operation as a chain of awaited queries, most of them outside a
transaction. The dashboard under `src/dashboard` keeps a token pair in React
state and in localStorage, and refreshes it from several requests at once. What
is hard to test in both is what concurrent requests, crashes, expiry, background
jobs and late answers do between two of those steps. These modules model that:
one action per query or event, for all the components whose state such an
interleaving can spoil.

## Components

| component | state | operations | what is hard |
|---|---|---|---|
| Workspace members (`modules/workspaces`) | `workspaces`, `workspace_members` | create, change role, remove, leave, transfer; `WorkspaceGuard` reads the caller's role on admission | checks and writes are separate queries; the role is never read again; transfers deadlock; create may crash halfway |
| Workspace invites (`modules/workspaces`) | `workspace_invites`, `workspace_members` | create, revoke, accept (one READ COMMITTED transaction) | accept races accept, revoke, expiry and removal |
| Auth sessions (`modules/auth`) | `users`, `refresh_tokens` | register, login, refresh, logout | refresh and logout find a row, then delete it by id |
| Event ingestion (`modules/events`, `modules/cost`) | `event_idempotency_keys`, `events`, `workspace_daily_usage` | ingest a batch | retries and overlapping batches, row locks, deadlocks, limit checked before it is charged |
| Cleanup job (`modules/jobs/cleanup`) | `event_idempotency_keys` | delete expired rows in one statement | races the renewal of a key |
| Event controller, schema registry (`modules/events`) | none | check a body and its events | one bad event refuses the batch |
| API keys (`modules/api-keys`) | `api_keys` | create, list, resolve (and mark used), revoke | revocation against requests in flight |
| Datasources (`modules/datasources`) | `datasources` | create, test, sample, sync | status written before and after a network call; crashes; a server that falls silent |
| Jobs and aggregation (`modules/jobs`) | BullMQ queues, `daily_event_aggregates` | schedule, aggregate yesterday | retries after midnight, two jobs for one day, late events |
| Metrics (`modules/metrics`) | reads `daily_event_aggregates` | sums, growth, pages of daily usage | two queries for one answer; date arithmetic |
| Configuration, durations | environment | parsing | rounding, fallbacks |
| Dashboard session (`src/dashboard`) | tokens in React state and localStorage | sign in, load, refresh on demand, logout | parallel refreshes, closures over an old pair, several tabs, late or lost answers |
| Users, health, logging, filters, Swagger, rendering | none of their own | | |

Interaction: register calls `createDefaultWorkspaceForNewUser` inside its
transaction; accepting an invite inserts a member row; every workspace route
passes `WorkspaceGuard`, which reads a member row; the API key guard gives an
ingest request its workspace; ingestion and cleanup share the key table; the
aggregation reads the events and the metrics read the aggregates; the dashboard's
tabs call register, login and refresh. On the server all of it meets in
PostgreSQL and nowhere else: the services keep nothing in memory between two
requests.

What makes each correct, in short: a workspace keeps an owner and nobody uses a
role they do not have; an invite admits its addressee once, and nobody after it
was revoked; a refresh token is used once and a logout ends its session; an
event is inserted once per idempotency window and a day stays within its limit;
only a live key brings events, and to its own workspace; a day's aggregates count
each event once; a datasource does not stay SYNCING; a page that refreshes its
tokens keeps a session, and a logout is final.

## Modules

| module | models |
|---|---|
| `MembershipRules` | the documented rules about roles, each call one atomic step (abstract) |
| `WorkspaceMembers` | the membership handlers, query by query |
| `WorkspaceInvites` | createInvite, revokeInvite, acceptInvite for one workspace |
| `AuthSessions` | register, login, refresh, logout |
| `Deduplication` | what a client that retries its batches is promised, each batch stored in one atomic step (abstract) |
| `EventIngestion` | ingestFromApiKey and the cleanup job for one workspace |
| `Datasources` | create, testConnection, sampleQuery, syncNow and the customer's server |
| `ApiKeys` | creation, revocation and ApiKeyGuard |
| `EventController` | what a request to /v1/events must satisfy (pure operators) |
| `DailyAggregates` | the repeated aggregation job and the metrics |
| `EventPipeline` | composes the last three: from the key of a request to the metrics |
| `DashboardSession` | the tabs of one browser, composed with `AuthSessions` |
| `MC*` | instances for TLC, with their symmetry |
| `WorkspaceMembersProofs`, `WorkspaceInvitesProofs`, `AuthSessionsProofs`, `EventIngestionProofs`, `DatasourcesProofs`, `DailyAggregatesProofs`, `EventPipelineProofs`, `DashboardSessionProofs` | theorems |

Four of them are specifications others implement: `WorkspaceMembers` with one
request at a time implements `MembershipRules`; `EventIngestion` implements
`Deduplication`; `DashboardSession` implements
`AuthSessions`, whose requests are those of the tabs (`Auth == INSTANCE
AuthSessions WITH Requests <- Calls, pc <- serving, call <- asked`); and
`EventPipeline` implements `DailyAggregates`, whose events are what the requests
store. All four are proved. The first two are results about the code. The last two
hold by the way the modules are composed and are a means: what is proved of the
part for any environment then holds in the composition.

The modules share one form. A *request slot* `r` is idle or carries one call;
`pc[r]` names its next query, `call[r]` holds what it asked for and what it
must remember. A handler's early returns end the request (`Finish`). A read
and the decision taken on it are one action, because nothing can come between
them in one event loop turn; the next query is another action, because
everything can. Statements of a transaction are separate actions whose writes
become visible with the last of them; a row lock is a guard on the others.
`Crash(r)` may strike before every query and rolls an open transaction back.
Variables marked *ghost* in the modules record history for the properties and
guard nothing.

Under "A slip" a module holds a variant of the definition that follows it, with a
plausible mistake in it. Nothing uses these variants in the specification: put
in the place of the original, each one breaks the property it is listed with in
`PROJECT.json`.

Correspondence, module by module (`PROJECT.json` has the lines):

- **WorkspaceMembers.** `Admit` is `WorkspaceGuard`, and `RouteRoles` what
  `WorkspaceRolesGuard` asks of the caller; `call[r].role` is
  `workspaceContext.role`. `FindTarget`, `CountOwners` and `Write` are the queries of updateMemberRole and removeMember, the last two
  also those of leaveWorkspace. `FindActor`, `FindNewOwner`, `Promote`,
  `Demote` are transferOwnership; `held` is the row lock of its first UPDATE,
  and `AbortDeadlock` what PostgreSQL does when transfers wait for each other
  in a cycle. `BeginCreate` and `AddOwner` are createWorkspace's two saves.
  `Join` is what an accepted invite does to the rows.
- **WorkspaceInvites.** `FindUser`, `FindMember`, `FindPending`,
  `InsertInvite` are createInvite; `FindById`, `DeleteById` revokeInvite;
  `ReadInvite`, `ReadMember`, `InsertMember`, `CommitJoined`,
  `CommitAlreadyMember` the transaction of acceptInvite. `MemberRowChanges` is
  whatever WorkspaceMembers does to a row meanwhile.
- **AuthSessions.** `InsertUser` is register's transaction with UNIQUE (email);
  `IssueTokenPair` the insert of issueTokenPair; `FindByHashWithUser` and
  `DeleteById` the two queries refresh and logout share. A *session* is the
  chain of tokens one login or registration gave rise to; it is named by its
  first token and is not stored by the code.
- **EventIngestion.** `BeginIngest` computes keys and expiry,
  `StartTransaction` takes `now`, `ClaimKey` is one row of INSERT .. ON CONFLICT
  .. WHERE expires_at <= now, `CheckLimit` getForDay and its comparison,
  `Commit` the inserts, the usage and COMMIT. `BeginCleanup` is the snapshot of
  the cleanup's statement, `DeleteRow` one row of its DELETE.
- **Datasources.** `Begin` is the controller and its guard,
  `FindByWorkspaceAndId` the read all three operations start with, `MarkSyncing`
  syncNow's first write. `Connect` and `Query` are client.connect and
  client.query; `server` is the customer's PostgreSQL server, which is up, down or
  silent and changes at will. `WriteOutcome` is the updateStatus after success
  or in the catch block, `WriteFails` its failure. `SHOW server_version as
  version`, testConnection's query (datasources.service.ts:111), is not a
  statement PostgreSQL parses, so a server that answers refuses it:
  `Accepts("test")` is false, and no test reaches CONNECTED.
- **ApiKeys.** `CreateForWorkspace`; `BeginRevoke`, `FindActiveByIdAndWorkspace`,
  `Revoke` are revokeForWorkspace; `BeginIngest`, `FindActiveByHash`, `MarkUsed`
  are ApiKeyGuard. `keyCall[r]` is what the guard puts on the request.
- **EventController.** `Accepted` is EventsController.ingest up to the call of
  the service: `RequestOK`, `NormalizeBodyToEvents`, `BodyOK`, then `EventOK` of
  each event with `ValidateOrThrow` of the registry over the three schemas.
- **DailyAggregates.** `StartJob`, `RetryJob`, `CountEvents`, `WriteAggregates`,
  `FailJob` are an attempt of the aggregation job: the day is computed when
  the attempt starts, `CountEvents` is the snapshot of INSERT .. SELECT ..
  GROUP BY, `WriteAggregates` its commit. `Midnight` changes the day. BullMQ
  is external: one iteration is due a day, an attempt that fails is retried, a
  slot of `Jobs` holds an iteration until it is done or given up.
  `BeginGrowth`, `BeginDaily` and `Reply` are the two queries of growthRate and
  dailyUsage; the other metrics are one query, `SumCounts` or `SumUniqueUsers`.
- **EventPipeline.** `Ingest` is the handler with the context the guard
  made: it applies `Accepted`, and `Store` adds those events of the batch that are
  new, any subset of them, because which are new is the subject of
  `EventIngestion`. `AccessStep` and `DailyStep` are the steps of the parts.
- **DashboardSession.** `Submit` is handleLogin and handleCreate; `Mount` and
  `Reload` run the bootstrap effect, `Effects` the effects of a render (storing the
  pair, loading the workspaces after a sign-in), `Logout` handleLogout, `Leave` the
  redirect that ends it. `Click` starts a handler, which is a sequence of
  stages of parallel requests; `Answer` is the reply to one of them, `BeginRefresh`
  and `Deliver` the two halves of withRefresh, `Lose` an answer that never arrives,
  `Proceed` the next stage or the finally block. `ServeQuery`, `ServeTokens` and
  `ServerCrash` are the steps of `AuthSessions` for these requests.
  `AccessExpires` lets the access token of a pair run out.

## PostgreSQL as modelled

Every statement sees the commits before it (READ COMMITTED, the default the
code does not change). UPDATE and DELETE wait for a locked row and then match it
again, on the conditions about that row only: the cleanup's `expires_at <=
now()` is a condition inside the CTE and is not evaluated again. INSERT waits
for an uncommitted row with the same unique key. ON CONFLICT DO UPDATE locks the
conflicting row even if its WHERE is false. A deadlock ends with one of
its transactions aborted.

## Runs

| run | instance | shows |
|---|---|---|
| `members` | 3 users, 1 workspace, 2 requests | role changes that were not overtaken obey the rules atomically; lost owners are lost for good |
| `members_serial` | 3 users, 2 workspaces, 1 request | without concurrency the handlers implement `MembershipRules` and keep an owner, crashes included |
| `members_last_owner` | as `members`, while every caller still has the role the guard saw | **violated**: two owners leave at once, each after counting two, and none is left |
| `invites` | 2 users, 2 invites, 2 requests | used invites have a member; spent ones stay spent; revoked ones admit nobody unless they were accepted during the revocation; duplicate invites need overlapping creations |
| `auth` | 2 users, 3 tokens, 2 requests | unraced sessions have one token and end with logout; dead tokens stay dead |
| `auth_one_time` | 1 user, 3 tokens, 2 requests | **violated**: two refreshes exchange one token twice |
| `ingestion` | 2 keys, 2 requests, the cleanup, clock 0..1 | batches are stored as if in one step (`Deduplication`); retries insert nothing in the window; bounded overshoot of the limit; every request ends |
| `ingestion_daily_limit` | 2 keys, 2 requests, limit 1 | **violated**: the limit is exceeded |
| `ingestion_cleanup` | 1 key, 2 requests | **violated**: the cleanup deletes a renewed key |
| `datasources` | 2 workspaces, 1 datasource, 2 requests, clock 1..2 | SYNCING is in flight or was interrupted, and ends; last_sync goes back only by an overtaken sync |
| `dashboard` | 1 user, 2 token pairs, 2 tabs, 1 handler of up to two parallel requests | a page keeps a usable refresh token through parallel refreshes, and so does localStorage for the next page; a quiet logout is final; a page that shows it loads has a handler at work |
| `pipeline` | 2 workspaces, 1 key, 2 requests, 3 bodies, 2 event names, 2 users, 3 days, 2 jobs, 1 reader, 2 ids of events | aggregates are exact, counts do not shrink, no day is forgotten, replies of two queries agree, only live keys ingest, bad batches leave nothing |

The violated properties quote a comment, a message or a document of the
repository; `PROJECT.json` lists them under findings with both places. For each
one a passing property next to it says what still holds: requests that were not
overtaken, sessions that were not raced, keys that were not robbed, an overshoot
of at most the limit times the requests in flight.

`members_last_owner` shows the double count: u1 and u2 own the workspace, both
leave, both count two owners, both rows go (`SoleOwnersStay`). The constraint
`RolesCurrent` keeps stale roles out of this run: without it TLC finds a
shorter trace in which one of the two was admitted before it became an owner and
counted nothing. The model contains two more races of the membership handlers,
which no run exhibits; `overtaken` excepts them. In one, u1 transfers to u2, who
leaves between the search for the target and the transaction: nobody is
promoted and u1 is demoted. In the other, an admin updates a member who is made
an owner between the admin's read of the role and the write. A workspace that
loses its owners in one of these ways never gets one again (`StrandedForever`).
`KeepsAnOwner`, which says that no owner is lost, is checked where it holds, with
one request at a time.

**Exceptions.** Where the code lets a race through and no document says that it must
not, the property does not leave the race out of the model. It excepts exactly what
the race touches, by a ghost variable (`overtaken`, `raced`, `outrun`, `interrupted`,
`delayed`, `late`, `torn`, `strayed`, `signedOut`), and says that nothing else
goes wrong. Such a property delimits a hazard; it does not say that the
hazard is absent. The hazards in `PROJECT.json` concerned have a note.

**Bounds.** Slots are reused, so two of them give any number of requests of
which two overlap; each of the races above needs two. Three users are an
actor, a target and a bystander, who may be the other owner. One workspace is
enough with two requests because handlers never touch another's rows;
`members_serial` has two. Two invites allow two for one address. Three tokens
are a login and two exchanges. Two keys in both orders make a deadlock; the
clock takes two values, with a window and a day of one tick each, so that keys
expire, are renewed at the exact boundary and the day changes. `MaxTime` bounds
the clock, the ids that can be used (`Workspaces`, `Invites`, `Tokens`) bound
creation; nothing else is bounded. One datasource is enough because no
handler touches another's row, two workspaces allow one to ask for the other's. In
`dashboard` a stage has two parallel requests, which stand for the four of
handleLoad: already the second finds the refresh token used. One handler at
a time can hold both; two tabs can hold the same pair. Two pairs are a login and
one refresh. So this run has no overlapping handlers of one page and no session
forked into two pairs. For those the properties rest on the proofs (`LoadingEnds`,
`SessionKept`, `StorageKept`), which have any number of slots and pairs. In `pipeline` the 5 attempts of the code are 2, which is one
retry; two job slots let a retry meet the next day's iteration; `MaxDay` 2 gives
a day before, the first day and the day after, so one day can be skipped. The
constraint `Bounded` keeps requests that race, and revocations, on the first day
before anything is aggregated, and afterwards admits one request at a time and
metrics while none runs: the key table and the job do not touch the same rows, and
each race is explored in full with the other part at rest.

**Deadlock.** It is checked where the system cannot stop: in `auth` logins end
when the tokens of the instance are used up but requests with old tokens go on,
and `ingestion` always accepts another request, as do `datasources`, `dashboard`
(a tab can always be reloaded) and `pipeline`. `WorkspaceMembers` and
`WorkspaceInvites` may stop: a workspace whose creation crashed, or that
everybody has left, admits no request, and once that has happened to all ids
of the instance nothing is left to do.

**Fairness.** `EventIngestion` and `Datasources` have a liveness property. In
`EventIngestion`, `FairSpec` assumes strong fairness of each request's next
statement and of the cleanup's: the event loop runs every handler that can run, and PostgreSQL grants a row lock in
the order of the queue, so a statement whose lock is free again and again gets
it; and weak fairness of the abort of a deadlock, which `deadlock_timeout`
guarantees. New requests, crashes and the clock are not assumed to happen.
In `Datasources`, `FairSpec` assumes weak fairness of each request's handler:
connecting ends within `connectionTimeoutMillis` (5000 ms) whatever the server
does, and the event loop runs what can run. A query has no such limit, so a
server that falls silent over one keeps its request: `SyncingEnds` excepts it
(`Stalled`) instead of assuming that it answers.

## Proofs

`tlapm` checks every theorem for all values of the constants.

`WorkspaceMembersProofs` (assumption: `Users` is finite, used by the counting of
owners):

- `Invariance`, `TypeCorrect`. `IInv` adds to the types what each request
  knows. A request that was not overtaken still has the role the guard saw, its
  target is the one it read, there is a second owner if it counted them, and a
  transfer holds its lock exactly if the target's row is there. Without these
  facts the type invariant says nothing of a request halfway through, and the
  step that writes could not be shown to obey the rules.
- `UnovertakenAtomicity`: from `IInv` every writing step is the rule of
  `MembershipRules` for that caller and target, or belongs to an overtaken
  request.
- `StrandedWorkspaces`: only a request that the guard admitted as an owner
  writes the owner role.
- `SerialRefinement` and `SerialKeepsAnOwner`: with one slot nobody is
  overtaken, so the first implements `MembershipRules` (the refinement mapping
  is the identity on `role`) and the second follows from the rules alone.

`AuthSessionsProofs` (assumption: `NoToken` is no token):

- `Invariance`, `TypeCorrect`. `IInv` adds that an issued row names an issued
  session, that a request acts on an issued token and on its session, and the two session
  properties themselves, which are inductive together with it.
- `SingleSessions`, `LogoutEndsSessions`, `DeadTokens`: the three properties of
  the run.
- `SerialOneTimeUse`: with one slot a refresh token is exchanged once at most.
  `SerialInv` adds that what was exchanged is deleted, and that a request about
  to delete finds its row.

`WorkspaceInvitesProofs` (assumptions: the founder is a user, invited roles are
roles and not the owner's):

- `Invariance`, `TypeCorrect`. `IInv` adds that an invite still to be used has
  admitted nobody and a revoked one is gone (`RowsOK`), what a request knows of
  the invite it names (`CallOK`), and that what createInvite has checked still holds
  unless it was overtaken (`ChecksHold`).
- `UsedInvitesHaveMembers`, `RevokedInvites`, `SpentInvites`, `Duplicates`: the four
  properties of the run. The first two rest on the
  transaction: its member row and its mark on the invite appear together, and a
  revocation it meets is known to have raced it.

`EventIngestionProofs` (assumption `Parameters`: finitely many keys and requests,
lengths and limits that are numbers):

- `Invariance`, `TypeCorrect`. `IInv` adds that a row lock has one holder
  (`LocksExclude`) and that what a request has claimed was expired and stays so
  until it commits (`ClaimsAreExpired`).
- `RowsRemember`, `Replays`: from these two, a key whose window runs cannot be
  claimed, unless the cleanup has taken its row away.
- `Overshoot`: a counting argument. The requests that have passed the check
  for a day and not yet committed (`Adding(d)`) each add at most the limit, and the
  one that checked last has seen what the day was then. So the usage of the day
  and what one of them adds stay within the limit times one more than the requests
  outside `Adding(d)` (`Reserved(d)`): each commit moves one request out and may use
  up one limit.
- `Deduplicates`: `EventIngestion` implements `Deduplication`. The batch of a
  request is what its statement has yet to visit and what it has locked; it arrived
  one window before its `expiry`; a key is forgotten when the cleanup robbed it. Every
  statement before the commit is a stutter, the commit is `Store`, a crash, an abort
  or the limit's error is `Refuse`. `Store` judges the batch as of the start of the
  transaction, which `BatchInv` makes possible: the start lies between arrival and
  commit (`RequestsTimely`), a row holds the window of its key (`RowsAreWindows`), and
  what was not claimed had an active row then, which the lock has kept
  (`SkippedAreActive`). So no new event is dropped. That no old one is stored
  again is `ClaimsAreExpired`. A batch never becomes empty on the way
  (`BatchesRemain`).

`DatasourcesProofs` (assumptions: the clock has a tick, no workspace is called
"none"):

- `TypeCorrect`, `SyncingInFlight`: `OnlySyncsMark` says that only a sync is at the
  step that marks the row.
- `Invariance`, `LastSyncForward`: `TimesPassed` and `ReadsAreFresh` add that no time
  in a row or a call lies in the future, and that a request nobody has overtaken
  knows a time at least as late as its row's.

`DailyAggregatesProofs` (assumption `Parameters`: at least one day and one attempt,
finitely many event ids and event names, and ranges of integers, in any order,
that metrics are asked for):

- `TypeCorrect`. `TypeInv` adds that the first day is past, that a job waiting for
  a retry has an attempt left, and that a snapshot was taken of the day of every job
  that has counted (`JobsFit`); finiteness makes every count a number.
- `CountsAreExact`, `CountsGrow`. `CountInv` says of the table (`TableHolds`), and
  of the rows a job has counted and not written (`RowsHold`), that they never count
  more than there is and are exact where no event came after a snapshot; and that
  a job nobody has overtaken counts at least what the table does. Without the part
  about the rows in flight nothing is known of the table after their write.
- `RepliesAgree`. `FirstQueriesHold`: unless aggregates were written meanwhile, the
  first query of a reader would give today what it gave then. The rest is about the
  operators: a range and the one before it together are the double range
  (`RangesAdd`), the ranks of its days have no gaps (`RanksAreDense`), so a page holds as many days
  as are left, up to its limit (`PagesAreFull`).
- `ActiveUsersSuffice`: the pairs that `SumUniqueUsers` counts, of a row and one of
  its unique users, map onto the people of the range.
- `NoDayForgotten`: once today's iteration has been taken, yesterday is
  aggregated, or still has a job that will come to it, or today counts as delayed
  (`ScheduleInv`). A retry is such a job whatever its old target, because
  it computes its day anew.

A sum over rows is defined in the model as the cardinality of the set of pairs of a
row and one of its units (`Total`): sums then follow from the library's theorems on
finite sets, without induction. TLC compares it with the fold of the community
modules (`TotalIsSum` in `MCEventPipeline`).

`EventPipelineProofs` (assumptions: a body carries a sequence of events with names,
days and users of the instance, and one event if it is a single one; `Parameters` of
`DailyAggregates`):

- `LiveKeys`: a request the guard let pass acts for its key as
  the table has it, but for a revocation since (`ContextsHold`); the
  events that appear in a step have the workspace of the request.
- `BadBatches`: an event that does not conform fails `Accepted` in every shape of
  body.
- `PipelineAggregates`: every step of the pipeline is a step of `DailyAggregates` or
  leaves its variables alone. `TypeCorrect`, `CountsAreExact`, `CountsGrow`,
  `RepliesAgree`, `ActiveUsersSuffice` and `NoDayForgotten` carry the results above
  over to the composition.
- `RequestsStoreEvents`: what a request stores has the type of a row of the table. So
  the type in `InsertEvents` is no hidden guard. `KeysOwned` adds that a key in use
  has a workspace.

`DashboardSessionProofs` (assumption: `NoPair` and `Failed` are no tokens):

- `RotationForksNoSession`: a property of `AuthSessions`, inherited. By the way
  the modules are composed every step is a step of `AuthSessions` or leaves the
  server alone (the lemma `ServerRefines`), so its invariant holds here as well
  (`ServerInvariant`): a request presents a token that was issued.
- `TypeCorrect`: the handlers are sequences of stages whatever is clicked.
- `LoadingEnds`, `FinalLogout`. `BrowserInv` adds that nothing is in flight after a
  quiet logout (`NothingLeft`), that an active handler has a request out
  (`ActiveRunsAsk`), and that a page with something to save has a pair
  (`UnsavedPairs`). By the first no answer can sign the browser in; by the second
  nothing in flight means no handler that could send a request; by the third no
  effect of a page starts one.
- `SessionKept`, `StorageKept`. `SessionInv` adds five facts. What the server does for a call is
  what the call waits for, or the call was dropped and its pair has strayed
  (`CallsMatch`). Only issued pairs are held, by localStorage, pages, handlers,
  requests or the server (`HeldPairsIssued`). A pair on its way is good and nobody
  has it yet (`RepliesAreFresh`). And if the pair of a page is no longer good, one
  request has got past the server's delete and is to bring the next
  (`PagesAreRescued`): a request that merely waits for the server would not do, since
  of several with one pair all but one may be refused. The same holds of the pair
  in localStorage, or a page has yet to store another (`StorageIsRescued`). This
  needs that a request never outlives its run (`RequestsHaveRuns`): the answer then
  reaches a page, which will store the pair, or the pair has strayed. Every step is a step of the
  browser, a question to the server, an answer received or a query served
  (`BrowserStep`, `AskStep`, `ReceiveStep`, `ServeStep`), and each of these four kinds
  preserves the five facts.

**Only model-checked.** Liveness under fairness (`EveryIngestEnds`, `SyncingEnds`),
which these provers do not reach, and the four violated properties. Every other
property of a passing run is a theorem.

## Not modelled

- Passwords, hashing and JWT signatures; a caller of logout is any account. The
  expiry of access tokens is in `DashboardSession` only; the expiry of refresh tokens
  (auth.service.ts:135), and the server's logout, which the dashboard never calls,
  are in `AuthSessions` only. A page whose refresh token expires loses its session
  whatever else happens, so the two session properties of the dashboard are about
  the lifetime of the token.
- What single handlers of the dashboard do when they end: `EndHandler` stands for the
  finally and catch blocks of all of them, and a slip in one is not seen. After a
  failed stage whose error is caught (`Proceed`) the next one starts when all requests
  of the stage are over, where `Promise.all` lets it start at the first rejection.
- Rate limiting and health (counters of a library, no state), error formatting,
  logging, mail delivery, names, read-only lists, rendering.
- Deletion of users and workspaces, which the API does not offer.
- The byte counter of the usage, and the length of a key made of a header.
- The path of `claimKeys` for a database without the unique index: the models
  take the schema of the migrations.
- Two processes that both run the cleanup job.
- Strings of dates: what `Date` makes of an impossible one such as 2026-02-30,
  and offsets that are not numbers. Days are numbers in the models.
- The settings that are constants of the models (limits, lengths of windows) or touch
  nothing modelled.

## Plan

What is left, in order:

1. `EventIngestion`: the fallback without the unique index.
2. Proofs: the rest of what the dashboard and the pipeline inherit from their parts
   (`DeadTokensStayDead` for the tabs).
3. Pure operators for durations, date ranges and configuration values, against
   reference definitions.
