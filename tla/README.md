# A verification project for tokio-shortlink

tokio-shortlink is a URL shortener: an axum HTTP service over MySQL (links,
users, visit logs) and Redis (cache, counters, a stream of visits, sessions,
rate limits), with background jobs inside the same process. The modules here
model its state and those who change it, TLC checks them on small instances, and
TLAPS proves the main results for every value of the constants. Paths are
relative to the repository's `src/`, so `services/tasks.rs` is
`src/services/tasks.rs` there.

To check a run: `tlc -config JobQueueSafety.cfg MCJobQueue.tla`.
To check proofs: `tlapm JobQueueProofs.tla`.

## 1. Inventory

| part | state | operations | interacts with |
|---|---|---|---|
| tickers (`services/tasks.rs`) | where each is between insert and try_send | tick, send, give back | `pending_set`, channel |
| job queue (`services/background_jobs.rs`, `state.rs`, `main.rs`) | channel, job in the dispatcher's hand, permits, `pending_set` | receive, acquire, get connection, run, remove | every handler that sends, the Redis pool |
| short codes and links (`services/shortlink.rs`, `models/link.rs`) | table `links`, its key `uk_short`, AUTO_INCREMENT | create, delete, purge | each other's locks, jobs |
| cache (`services/shortlink.rs`, `models/link.rs`) | `shortlink:{code}` | job of the create, redirect, delete | `links`, the channel |
| click counts (`models/link.rs`) | `shortlink_click:{code}`, `links.click_count` | set, increment, sync, unlink | SetClickCount, PushClickAndLog, SyncClick jobs, delete |
| visit logs (`models/link.rs`) | stream `visit_log`, table `visit_logs` | append, sync, delete | PushClickAndLog, SyncVisitLog jobs, delete, statistics |
| rate limiters (`middleware/*_rate_limiter.rs`) | a counter with expiry per IP, per user | count, set expiry, refuse | every route |
| login, registration (`services/users.rs`, `models/user.rs`) | counters `login_fail:uid`, `login_fail:ip_uid`, `register:ip`, table `users` | check, verify, count, clear | sessions |
| sessions (`models/session.rs`, `middleware/auth.rs`) | `session:{jti}`, `user_sessions:{id}` | create (a script), check | login, protected routes |
| statistics (`models/link.rs`) | none | count by local day | `visit_logs` |
| link listing (`models/link.rs`) | none | a query and a count | `links` |
| configuration, pools, handlers, routing | read-only after start-up | | |

What is hard here: everything that takes two commands to two stores or two
commands to one (INCR and EXPIRE, GET and SET, INSERT and XDEL, UNLINK and
COMMIT); every await between a read and its use (the check of a login counter
and the count a password hash later, the row of a redirect and the SET of its
cache); `TimeoutLayer` and closed client connections that drop a handler at any
await; transactions that wait for each other's rows and codes; jobs that run
long after the request that sent them; a channel, a pool and an alphabet with
limits; two stores that compare codes differently; and background work that has
to go on for ever. `PROJECT.json` lists each such place with the properties that
watch it.

What makes each part correct: scheduled jobs are single-flight and recur;
connections and permits are conserved; a code finds one link, and a delete
touches no other's visits; a redirect answers a committed link, and an expired
or deleted one only for a bounded time; a visit is logged at least once, a click
counted exactly once save in known cases; a rate limit closes its window and
bounds what it lets through; a login counter is not passed by more than the
requests under way and an account is unlocked again; the newest sessions of a
user live and an evicted one lets nobody in; each day of the statistics has its
visits.

## 2. Modules

| module | models | proofs |
|---|---|---|
| `JobQueue` | tickers, channel, dispatcher, workers, handlers that send, the Redis pool | `JobQueueProofs` |
| `ScheduledJobs` | what a scheduled job looks like from outside (abstract) | |
| `RateLimiter` | one key of either rate limiter, with time and cancellation | `RateLimiterProofs` |
| `VisitLog` | a visit from the redirect's job to `visit_logs`, sync and delete | `VisitLogProofs` |
| `ClickCount` | a click from the job's INCR to `links.click_count`, sync, delete, purge, expiry | `StatisticsProofs` |
| `LinkCache` | one code in its spellings: row, cache, create and its job, redirects, delete, purge, time | `LinkCacheProofs` |
| `LinkTable` | many links: candidates and their encoding, creates, deletes and the purge as transactions | `LinkTableProofs` |
| `Accounts` | login to one account and registration, with their counters | `AccountsProofs` |
| `Sessions` | the sessions of one user: script, token, check of `jwt_auth`, restarts | `SessionsProofs` |
| `NewestSessions` | what the sessions of a user look like from outside (abstract) | |
| `DailyStats` | one request for the statistics of a link | `StatisticsProofs` |
| `MC...` | constants of the instances TLC checks | |

Each action of a module is one step of the code that others can see: a command
to Redis, a statement or COMMIT in MySQL, an operation on the channel, the
semaphore or `pending_set`, a check that uses what was read before. `map` in
`PROJECT.json` gives the lines. An operator commented "Slip" is a plausible
mistake in the action after it. The slips are in no specification; each is there
to be put in the action's place to see a property fail.

The modules meet where one uses what another shows. `VisitLog` and `ClickCount`
have one sync job at a time because of `JobQueue` (`SingleFlight`), and go on as
long as it does. A delete is in four modules: `LinkTable` has its rows and
locks, `VisitLog`, `ClickCount` and `LinkCache` have what can come between its
statements in the state each of them is about.

**JobQueue.** `pending` is `pending_set`; `ticker[k] = "sending"` is the tick
between `insert` and `try_send`; `held` is the job between `recv` and the
permit; a worker is a permit and the task that has it. A worker goes from
"connecting" (in `redis_pool.get`) to "running", for a scheduled job on to
"finishing" (over, claim not yet given back) and then "leaving" (connection and
permit about to be dropped). A tick that finds its kind pending changes nothing
and so is not an action. A redirect holds its connection from `StartRedirect`
to its end; `EndWithoutJob` covers the ways a handler ends early and the
handlers and middlewares that only borrow a connection. A full channel makes
`try_send` fail and the `.expect()` after it panic (`Panic`): the client's
connection is closed, and may come back (`Reconnect`). `Outage` and `Recover`
are Redis seen through the pool. With `phaseBar` the module implements
`ScheduledJobs`.

**RateLimiter.** `count` and `ttl` are the key; `seen` what the request's INCR
returned. `Tick` lets time pass for the key and the requests; no request
stays longer than the global timeout (`MaxFlight`). `age` and `admits` are
history. The user limiter is the same code with another key.

**VisitLog.** The stream is a set with ids in order of arrival. The sync job is
`ReadBatch`, then `InsertLog` and `DeleteEntry` for each entry, until a read
finds nothing. `SyncFails` is an error or a restart at any point; `Refused` are
visits whose row MySQL does not take. `DeleteRows` locks the table until its
transaction ends.

**ClickCount.** `key` tells an absent counter, one with the ttl of
`SET NX EX`, and one without (made by INCR, or by the sync's SET). A scan
returns every key that is there from its beginning to its end (`owed`) and
perhaps others, each once: that Redis may return a key twice changes nothing
but the number of GETs. `raced` and `dropped` remember the codes that lost
clicks, and how.

**LinkCache.** Links are made one after another with the same code, each in a
spelling (`CodeOf`) that differs from the others' by case at most; to MySQL
there is one row, to Redis a key per spelling. `lpc` is a create and its job;
the job looks at nothing when it runs. A redirect asks for a spelling (`Asked`),
hits the cache, or misses, reads the row, checks the time, and fills the key of
its spelling with the ttl it computed. `dpc` is the delete's transaction with
the UNLINK inside, which knows the spelling of the row only.

**LinkTable.** A code is the sequence of its digits in base 62 and `Encode` is
`encode_base62`; `Fold` is MySQL's comparison. `links` are the committed rows,
`row` and `at` the open transaction of each create: a candidate collides with a
committed code (`NextCandidate`, error 1062), waits for a code another
transaction has set or is deleting (`Waits`), or is set. `hit` are the rows a
delete has deleted and locks. `CommitDelete` is the rest of the delete in one
step. Locks a refused statement leaves behind (the shared lock of a failed
duplicate check) are left out: what they do is refuse or delay a request, as
`CreateFails`, `DeleteFails` and the time-outs do. The purge takes its rows one
by one, which no other statement can tell.

**Accounts.** `count` and `ttl` are the keys; `pc` tells which commands a
request has behind it, from the check of the account's counter to the last
EXPIRE or DEL, or from the check of the register counter to the INSERT.
`Check`, `Incr`, `Expire` and `Delete` are the commands, one step each. That a
password is right or wrong, and an e-mail new or taken, is either way at any
time. `Cancel` drops a request between any two commands.

**Sessions.** `exp` is what is left of a token, `key` of its session; `list` is
the Redis list. `CreateSession` is the whole script. `Sign` computes the
expiry before it, as the code does. `req` is one protected request and where it
is in `jwt_auth`. `Restart` brings another `user_token_limit` and fails what
was under way. `made`, `due`, `low` and `top` are history. A limit of 0, which
would evict the session just made, is excluded by the assumption; the ttl does
not change with a restart. With the sessions whose key is there as the open ones
and the request that has passed EXISTS as accepted, the module implements
`NewestSessions`, which has no tokens, list or time: sessions close oldest first,
by themselves or one for a new one when there are as many as the limit, and a
request is let through with one that is open.

**DailyStats.** An instant is a number; a zone is an offset that changes once, by
no more than a day (`Zones`: no zone ever did otherwise, those that crossed the
date line included). The table is any finite set of instants. `Utc` is chrono's `from_local_datetime` with none, one or two results; the
first day is computed from the instant, as the code does, and the rows are
grouped by the day `CONVERT_TZ` gives. The request is one step: it reads once.

## 3. Runs

Passing runs, with what they show and why the bounds suffice:

| run | shows | bounds |
|---|---|---|
| `JobQueueSafety` | single-flight, claims and connections conserved, only failed gets abandon a claim, refinement | two kinds of job against each other on two workers, a redirect and a create that compete for channel and pool, one outage: every pair of actors meets, every error path is taken |
| `JobQueueProgress` | the channel drains, outages or not; a scheduled job in it is run and its claim given back, or its task got no connection | a worker and a connection, where waiting for each other would be easiest; a channel of two, so that order matters; requests that may send for ever |
| `RateLimiterSafety` | without cancellation an expiry is on its way and every window closes; with it, the sliding bound holds and no deadline moves | four requests, two cancellations, requests up to two ticks long, counter up to 5; the bound is reached less one |
| `VisitLogSync` | no visit lost, duplicates bounded, entries before a refused one leave | three visits of two links, the second refused, batches of two, two failures |
| `ClickCountSync` | where clicks go; the scan reaches every counter | two clicks of one link, so that one can come between the sync's commands on the other, a second key to scan, one failure |
| `LinkCacheSafety` | what is cached and answered | two links with ttl 2 and 3 around a cap of 2, in two spellings, a redirect of each, delay 1, time to 5: the second link comes after the first is deleted, purged or expired, while a key of the first is still there |
| `LinkTable` | a code finds one link; a delete wipes no other's visits; nobody waits for ever | the alphabet "0ABab"; three ids, two creates and two deletes at once, two candidates, and the custom code "a", which collides with the first candidate "A"; one link expires, two are visited; one failure |
| `Accounts` | counters, registrations and locks | two requests at once, each a login or a registration again and again; the account's limit is 2 and the others' 1; two addresses for the logins, one for the registrations; one cancellation; the overshoot is reached |
| `Sessions` | which sessions live and who gets in; refinement | four logins, limits 1 and 2 with restarts between them, ttl 2: a list fills, shrinks to a lower limit one login at a time, and holds expired sessions; a login takes up to one tick, the leeway is one; logins are symmetric; a refinement as well as invariants |
| `DailyStats` | the days listed and their visits | days of four ticks, 14 instants, periods up to four days (one past the maximum), offsets -1, 0, 1 that change at any instant, one visit: a visit on each side of every boundary |

Runs that refute what a comment, a configuration or a test says (`findings` in
`PROJECT.json` has the quotations):

| run | refuted | because |
|---|---|---|
| `JobQueueOutage` | a scheduled job runs at every interval | a failed `get()` leaves the claim behind for good |
| `ShortCodes` | 100 candidates find a free code | the lower-case candidates are taken by upper-case codes: from the 144th automatic create on, 100 in a row |

`ShortCodes` is `LinkTable` with the real alphabet and 100 candidates, one
create after another. It rests on MySQL's default collation of utf8mb4, which
`create_table.sql` leaves in force.

More places where the code does less than a comment or a test says need no run
of their own, for a passing property gives the exact measure, or the behaviour is
that of a single order of steps, plain to see in the module:

- A request that ends between INCR and EXPIRE leaves a counter that never
  expires, and the key is refused for good (tests/rate_limit.rs:57-69 wait for
  the window to end). `WindowClosesUncancelled`, and `LockEnds` in `Accounts`, say
  that nothing else does; the same holds for a locked account.
- A click between the GET and the SET 0 of the sync is counted nowhere. It is one
  of the two ways a click is lost (`Accounted`).
- The comment at `models/link.rs:389` deletes synced entries "to avoid syncing
  again"; a failure between INSERT and XDEL syncs one again, at most one per
  failure (`SurplusBounded`).
- A delete is said to remove the visit logs (`models/link.rs:563`) and the cache
  (516). Visits still queued or in the stream are written after it
  (`VisitLog`). A redirect that has read the row, the job of the create, and a
  key of another spelling answer the deleted link until their ttl is over: by
  `StaleBounded` not longer than the link's own expiry and the delay. Once none
  of them has it, it stays away (`GoneForGood`).
- An expired link is answered from the cache after its expiry (the ttl is
  computed before the wait that precedes the SET), by at most the delay of the
  write (`StaleBounded`). A refill is not capped at `redis_max_ttl`.
- A full channel panics a handler that has done its work (shortlink.rs:123, 179,
  218). Its connection comes back (`ConnsConserved`).
- "At most 3 tokens" (tests/token_auth.rs:59): after the limit was lowered the
  list loses one session per login and no more, so more stay
  (`LiveBounded` has the largest limit so far).
- A lock lasts from the first failure, so an account that fails slowly is locked
  for less than `USER_LOGIN_FAIL_TTL`.
- Days are 24 hours to chrono: when the offset has changed within the period a
  day more or less is listed (`DaysListed`). When the first midnight does not
  exist or comes twice the request fails with 500 (`RefusedOnlyAtSwitch`).
  tests/stats.rs:49 compares today in UTC with today in Asia/Shanghai, which
  differ for eight hours of each day.

The type invariants (`TypeOK`, in `JobQueue` with the capacities) are proved, for
every instance, and need no run (`StatsTypeOK` in `DailyStats`).

Deadlock checking is off where the system does stop: in `JobQueueOutage`, where
the only kind is pending, nobody has it, and no request is made; in `Sessions`,
`LinkTable`, `ShortCodes` and `DailyStats`, where the logins, ids or the one
request are used up.

Bounds that stand in for the unbounded: `MaxOutages`, `MaxFailures`,
`MaxCancels`, `MaxFails`, `MaxCount`, `MaxTime`, `MaxId`, the history's `MaxAge`,
and the finite sets of visits, links, logins and requests. `MaxFlight` is real
(the global timeout). `MaxDelay` is an assumption: the code gives a job no
deadline, so the results of `LinkCache` say by how much lateness becomes
staleness, not that either is bounded.

## 4. Fairness

- `JobQueue`: the tickers fire for ever, tokio runs every task that can go on,
  a handler ends (`TimeoutLayer`), Redis comes back. Nothing makes anybody send
  a request. The semaphore is fair, but nothing needs that: one dispatcher waits.
- `QueueDrains`, `SentIsRun` and `ClaimSettles` hold under that fairness with
  outages and with any load: a failed `get()` is one of their outcomes. That
  a job recurs (`Recurs`) does not: `JobQueueOutage` shows that one outage stops
  a kind for good. `OnlyFailedGetsAbandon` says that nothing else does.
- `VisitLog` and `ClickCount`: the sync job is started again and again, which is
  true as long as none of its tasks fails to get a connection; a delete
  transaction ends. Failures are never forced.
- `Accounts`: a handler that has begun takes its next step or ends (tokio runs it,
  `TimeoutLayer` ends it), and time passes for a key that has an expiry. No
  request has to come.
- `LinkTable`: a create or delete that has begun goes on. One that waits for a
  lock goes on when it is free or times out (`innodb_lock_wait_timeout`, set from
  `mysql_lock_wait_timeout_s`, and the global timeout), so that neither step is
  forced by itself. Nothing makes a request fail, a link expire or be visited.
- `RateLimiter`, `LinkCache`, `Sessions` and `DailyStats` state safety only.

## 5. Proofs

All for every value of the constants that satisfies the modules' assumptions.

- **JobQueue.** `NoConcurrentRuns` is not inductive. `OneCopy` (at most one copy
  of a job among ticker, channel, dispatcher and workers) and `ClaimCoversWork`
  (its kind is pending while there is one) are, together with `TypeOK`: `Claim`
  keeps `OneCopy` because a kind with a copy is pending, and `Release` keeps
  `ClaimCoversWork` because there was only the one copy. `SingleFlight`
  follows, as do `ClaimsReturned` and the step simulation of `Implements`.
  `AbandonedByFailedGets` looks at each way a copy leaves: to the next holder,
  with its claim, or by a failed `get()`.
  `PoolConserved` needs finite sets: each action moves one connection.
- **RateLimiter.** `DeadlineNeverMoves` rests on: only a request that made the
  key has seen 1, and while its EXPIRE is to come the key has no deadline.
  `ExpiryComes` and `EveryWindowCloses` (as long as nothing was cancelled) rest
  on: a key without a deadline has that request in flight; the age of a key is
  its time in flight, and then a window less the ttl. `SlidingWindowIsBounded`
  counts claims: those let through in the last window, and those in flight that
  still may be, by the age of their INCR. `WindowInv` says that the claims no
  older than the counter are at most its count and at most the limit; that the
  older ones are one less than the limit, since the request that opened
  their window is a window old when its counter goes; and the same when there is
  no counter. A step adds a claim only with a count, exchanges two of the same
  age, or makes all of them a tick older, so that no sum is ever computed.
- **VisitLog.** `NoVisitLost` from: what the sync job deletes from the stream it
  has inserted (`current` has a row, or its link is deleted). `SurplusIsBounded`
  from `MarksInv`, which counts a mark for each row too many and one for each
  visit still in the stream with a row of its own that the job is not about to
  delete: only a failure makes a mark, and the INSERT of a row too many puts that
  row's in the place of the visit's.
- **ClickCount.** `ClicksAccounted` from: while no click raced and no counter
  was dropped, the counter still has what the sync read. `NeverOvercounted`
  from: what MySQL has and what the sync holds or the counter has are together
  never more than the clicks. `OvercountIsBounded` adds failures: a counter never
  has more than the clicks of its link, so a failure after the UPDATE adds at
  most these once more (`Backed`).
- **LinkCache.** The invariant has three parts: row, cache, redirects and past
  know only committed links; a create and its job, and a redirect that fills,
  are at most `MaxDelay` late; the cache ends at most `MaxDelay` after its link,
  under every spelling. From it: what redirects answer, and that a settled link
  stays away.
- **LinkTable.** `EncodingIsInjective`, for every alphabet: first that the
  recursive function is what its definition says, then that the number can be
  read back from the digits, each from a least counterexample, which exists since
  the natural numbers are well-founded. `CodesFindTheirLinks` from `RowsInv`
  (each create has a row of its own) and `KeyInv` (a code that was set, committed
  or not, is nobody else's), where a candidate that is set neither collides nor
  waits. `DeletesWipeTheirOwn` from these and `HitInv` (a delete holds what it
  has deleted): its codes stay its own until it ends.
- **Accounts.** `ExpiryComes` is inductive as it stands, also across logins that
  delete a counter between another's INCR and EXPIRE. `OvershootIsBounded` from
  `OvershootInv`: the counter and the requests that have passed its check and not
  yet raised it are together within the bound. `RegistrationsAreBounded` from
  `RowsInv`: the users made and those on their way are as many as the counter
  says, and as many as could be under way when it last expired.
- **Sessions.** `AdmittedSessionWasLive` from: no step makes the session of a
  token that was answered. `LiveTokensDecode` from `AgesInv`: a token is older
  than its session by what the login took, under the assumption that this is
  not more than the leeway and the tick it counts to. `LiveSessionsAreBounded` from
  `ListInv`. `NewestSessionsLive` from `NewestInv`: the list is the end of
  the history, it has lost none while it was shorter than the smallest limit, and
  what it holds lives until it expires. `EvictionsMakeRoom` adds `OrderInv`
  (sessions expire in the order they were made): when the head of the list is
  live everything behind it is. `ImplementsNewest` is the step simulation: the
  live sessions are an end of the list and of the history, so what a tick closes
  is older than what it leaves, and a login closes the oldest or none.
- **DailyStats.** `EachDayHasItsVisits` from: a local midnight that comes once
  parts the days, so that no visit before it is of its day or a later one
  (`NothingCutOff`); for any length of the day and any table. `OnlySwitchesRefuse`
  from `MidnightOnce`: away from the switch one of the two candidates is the
  midnight and the other is not. `DaysAskedAreListed` needs that the offset
  changes by no more than a day. `StatisticsProofs` extends
  `ClickCount` and `DailyStats` both, which is why the latter's specification is
  named `StatsSpec`.

Only model-checked: liveness (`QueueDrains`, `SentIsRun`, `ClaimSettles`,
`StreamDrains`, `CountersDrain`, `LockEnds`, `RequestsEnd`), which is out of
the provers' reach here. Every invariant and every other action property of
the passing runs, and both refinements, are proved.

## 6. Not modelled, and what is left

- Link listing (`find_links`): one SELECT and one COUNT from the same
  conditions, without a transaction; nothing keeps the results. Its `date_from`
  and `date_to` are compared without the conversion to UTC the comment at
  handlers/shortlink.rs:63-65 promises, a matter of one expression.
- HTTP handlers and validation, configuration, routing: no state after
  start-up. The bounds they check are assumptions on the constants.
- Pools: the Redis pool is in `JobQueue`; the MySQL pool is seen as statements
  that fail or wait.
- Start-up and shutdown: a queued job that is lost at shutdown is `XaddFails` and
  `IncrFails`.
- Password hashing, JWT encoding, logging: libraries and wording.

What could come next: `JobQueue` composed with `ClickCount` and `VisitLog`, so
that "at most one sync" is derived and not cited, and a proof that each of the two
still has its properties there; a counter whose code is used again by a later
link.
