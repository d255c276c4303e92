------------------------------ MODULE JobQueue ------------------------------
(***************************************************************************)
(* The background job machinery of the service: three tickers              *)
(* (services/tasks.rs) and the request handlers (services/shortlink.rs)    *)
(* put jobs on one bounded channel (main.rs); one dispatcher takes them    *)
(* off and starts a task for each under a semaphore                        *)
(* (services/background_jobs.rs); every task takes a connection from the   *)
(* Redis pool that the redirect handlers use too.  pending_set             *)
(* (state.rs) is meant to keep at most one copy of a scheduled job alive.  *)
(*                                                                         *)
(* What a job does to Redis and MySQL is left to LinkCache, ClickCount and *)
(* VisitLog: here a job only runs and ends.                                *)
(***************************************************************************)
EXTENDS Integers, Sequences, FiniteSets

CONSTANTS
    ScheduledJobKind, \* enum ScheduledJobKind; a kind also names the job it sends
    Redirects,       \* GET /s/{code} requests, one job each; hold a connection
    Creates,         \* POST /shorten requests, one job each
    QueueCap,        \* bg_redis_queue_cap
    MaxConcurrency,  \* bg_redis_max_concurrency, the semaphore's permits
    PoolSize,        \* redis_pool_size
    MaxOutages,      \* bound: how often Redis becomes unreachable
    NoJob            \* what the dispatcher or a worker holds when it has none

Requests == Redirects \union Creates
\* enum BackgroundJob: PushClickAndLog of a redirect and SetClickCount of a
\* create are named by the request that sends them.
BackgroundJob == ScheduledJobKind \union Requests
\* A worker is a permit of the semaphore and the task that holds it.
Workers == 1..MaxConcurrency

ASSUME CapsAssumption ==
    /\ QueueCap \in Nat \ {0}
    /\ MaxConcurrency \in Nat \ {0}
    /\ PoolSize \in Nat \ {0}
    /\ MaxOutages \in Nat

ASSUME JobsAssumption ==
    /\ Redirects \intersect Creates = {}
    /\ Requests \intersect ScheduledJobKind = {}
    /\ NoJob \notin BackgroundJob

VARIABLES
    queue,      \* the channel between bg_redis_tx and rx
    held,       \* job received by the dispatcher, waiting for a permit
    wpc,        \* where each worker is
    wjob,       \* the job it works on
    pending,    \* AppState.pending_set
    ticker,     \* where each ticker is: between ticks, or about to send
    rpc,        \* where each request is
    idleConns,  \* connections in the Redis pool nobody holds
    redisUp,    \* whether the pool can hand out a working connection
    outages     \* outages so far

workerVars == <<wpc, wjob>>
redisVars  == <<redisUp, outages>>
vars == <<queue, held, wpc, wjob, pending, ticker, rpc, idleConns, redisUp, outages>>

WorkerStates  == {"idle", "connecting", "running", "finishing", "leaving"}
RequestStates == {"idle", "sending", "panicked"}

Init ==
    /\ queue = <<>>
    /\ held = NoJob
    /\ wpc = [w \in Workers |-> "idle"]
    /\ wjob = [w \in Workers |-> NoJob]
    /\ pending = {}
    /\ ticker = [k \in ScheduledJobKind |-> "waiting"]
    /\ rpc = [r \in Requests |-> "idle"]
    /\ idleConns = PoolSize
    /\ redisUp = TRUE
    /\ outages = 0

-----------------------------------------------------------------------------
(* The tickers                                                             *)

\* Slip: what insert() answers is not looked at.
ClaimUnchecked(k) ==
    /\ ticker[k] = "waiting"
    /\ pending' = pending \union {k}
    /\ ticker' = [ticker EXCEPT ![k] = "sending"]
    /\ UNCHANGED <<queue, held, workerVars, rpc, idleConns, redisVars>>

\* A tick whose pending_set.insert succeeds.  A tick that finds the kind
\* pending goes on to the next tick and changes nothing.
Claim(k) ==
    /\ ticker[k] = "waiting"
    /\ k \notin pending
    /\ pending' = pending \union {k}
    /\ ticker' = [ticker EXCEPT ![k] = "sending"]
    /\ UNCHANGED <<queue, held, workerVars, rpc, idleConns, redisVars>>

\* Slip: the claim is given back when the send succeeds too.
SubmitUnclaims(k) ==
    /\ ticker[k] = "sending"
    /\ Len(queue) < QueueCap
    /\ queue' = Append(queue, k)
    /\ pending' = pending \ {k}
    /\ ticker' = [ticker EXCEPT ![k] = "waiting"]
    /\ UNCHANGED <<held, workerVars, rpc, idleConns, redisVars>>

\* try_send finds room.
Submit(k) ==
    /\ ticker[k] = "sending"
    /\ Len(queue) < QueueCap
    /\ queue' = Append(queue, k)
    /\ ticker' = [ticker EXCEPT ![k] = "waiting"]
    /\ UNCHANGED <<held, workerVars, pending, rpc, idleConns, redisVars>>

\* Slip: the failed send is logged and the claim kept.
UnclaimForgets(k) ==
    /\ ticker[k] = "sending"
    /\ Len(queue) >= QueueCap
    /\ ticker' = [ticker EXCEPT ![k] = "waiting"]
    /\ UNCHANGED <<queue, held, workerVars, pending, rpc, idleConns, redisVars>>

\* try_send finds the channel full: the claim is given back.
Unclaim(k) ==
    /\ ticker[k] = "sending"
    /\ Len(queue) >= QueueCap
    /\ pending' = pending \ {k}
    /\ ticker' = [ticker EXCEPT ![k] = "waiting"]
    /\ UNCHANGED <<queue, held, workerVars, rpc, idleConns, redisVars>>

-----------------------------------------------------------------------------
(* The dispatcher and the workers                                          *)

\* Slip: jobs kept on a stack.
ReceiveNewest ==
    /\ held = NoJob
    /\ queue # <<>>
    /\ held' = queue[Len(queue)]
    /\ queue' = SubSeq(queue, 1, Len(queue) - 1)
    /\ UNCHANGED <<workerVars, pending, ticker, rpc, idleConns, redisVars>>

\* rx.recv(); only then is a permit asked for.
Receive ==
    /\ held = NoJob
    /\ queue # <<>>
    /\ held' = Head(queue)
    /\ queue' = Tail(queue)
    /\ UNCHANGED <<workerVars, pending, ticker, rpc, idleConns, redisVars>>

\* Slip: the claim is given back where the task is spawned.
DispatchReleases(w) ==
    /\ held # NoJob
    /\ wpc[w] = "idle"
    /\ wpc' = [wpc EXCEPT ![w] = "connecting"]
    /\ wjob' = [wjob EXCEPT ![w] = held]
    /\ held' = NoJob
    /\ pending' = pending \ {held}
    /\ UNCHANGED <<queue, ticker, rpc, idleConns, redisVars>>

\* acquire_owned() gives a permit and the task is spawned.
Dispatch(w) ==
    /\ held # NoJob
    /\ wpc[w] = "idle"
    /\ wpc' = [wpc EXCEPT ![w] = "connecting"]
    /\ wjob' = [wjob EXCEPT ![w] = held]
    /\ held' = NoJob
    /\ UNCHANGED <<queue, pending, ticker, rpc, idleConns, redisVars>>

\* redis_pool.get() gives the task its connection.
Connect(w) ==
    /\ wpc[w] = "connecting"
    /\ redisUp
    /\ idleConns > 0
    /\ idleConns' = idleConns - 1
    /\ wpc' = [wpc EXCEPT ![w] = "running"]
    /\ UNCHANGED <<queue, held, wjob, pending, ticker, rpc, redisVars>>

\* redis_pool.get() fails: the wait for an idle connection timed out, or none
\* can be made.  The task returns: the job is dropped, the permit is free and
\* pending_set is left as it is.
ConnectFails(w) ==
    /\ wpc[w] = "connecting"
    /\ ~redisUp \/ idleConns = 0
    /\ wpc' = [wpc EXCEPT ![w] = "idle"]
    /\ wjob' = [wjob EXCEPT ![w] = NoJob]
    /\ UNCHANGED <<queue, held, pending, ticker, rpc, idleConns, redisVars>>

\* Slip: the claim is given back before the job's last await.
RunScheduledReleases(w) ==
    /\ wpc[w] = "running"
    /\ wjob[w] \in ScheduledJobKind
    /\ wpc' = [wpc EXCEPT ![w] = "finishing"]
    /\ pending' = pending \ {wjob[w]}
    /\ UNCHANGED <<queue, held, wjob, ticker, rpc, idleConns, redisVars>>

\* A scheduled job has run, to its end or to an error that is only logged;
\* the kind is still pending.
RunScheduled(w) ==
    /\ wpc[w] = "running"
    /\ wjob[w] \in ScheduledJobKind
    /\ wpc' = [wpc EXCEPT ![w] = "finishing"]
    /\ UNCHANGED <<queue, held, wjob, pending, ticker, rpc, idleConns, redisVars>>

\* Slip: clear() for remove().
ReleaseAll(w) ==
    /\ wpc[w] = "finishing"
    /\ pending' = {}
    /\ wpc' = [wpc EXCEPT ![w] = "leaving"]
    /\ UNCHANGED <<queue, held, wjob, ticker, rpc, idleConns, redisVars>>

\* pending_set.remove() at the end of a scheduled job.
Release(w) ==
    /\ wpc[w] = "finishing"
    /\ pending' = pending \ {wjob[w]}
    /\ wpc' = [wpc EXCEPT ![w] = "leaving"]
    /\ UNCHANGED <<queue, held, wjob, ticker, rpc, idleConns, redisVars>>

\* A request's job has run; it has no claim to give back.
RunRequestJob(w) ==
    /\ wpc[w] = "running"
    /\ wjob[w] \in Requests
    /\ wpc' = [wpc EXCEPT ![w] = "leaving"]
    /\ UNCHANGED <<queue, held, wjob, pending, ticker, rpc, idleConns, redisVars>>

\* Slip: the permit is forgotten, not dropped.
LeaveKeepsPermit(w) ==
    /\ wpc[w] = "leaving"
    /\ idleConns' = idleConns + 1
    /\ wpc' = [wpc EXCEPT ![w] = "gone"]
    /\ UNCHANGED <<queue, held, wjob, pending, ticker, rpc, redisVars>>

\* The task ends: its connection and its permit are dropped.
Leave(w) ==
    /\ wpc[w] = "leaving"
    /\ idleConns' = idleConns + 1
    /\ wpc' = [wpc EXCEPT ![w] = "idle"]
    /\ wjob' = [wjob EXCEPT ![w] = NoJob]
    /\ UNCHANGED <<queue, held, pending, ticker, rpc, redisVars>>

-----------------------------------------------------------------------------
(* The request handlers                                                    *)

\* get_long_url has its connection, which it holds to its end.
StartRedirect(r) ==
    /\ rpc[r] = "idle"
    /\ redisUp
    /\ idleConns > 0
    /\ idleConns' = idleConns - 1
    /\ rpc' = [rpc EXCEPT ![r] = "sending"]
    /\ UNCHANGED <<queue, held, workerVars, pending, ticker, redisVars>>

\* create_shortlink has committed its transaction; it holds no connection.
StartCreate(r) ==
    /\ rpc[r] = "idle"
    /\ rpc' = [rpc EXCEPT ![r] = "sending"]
    /\ UNCHANGED <<queue, held, workerVars, pending, ticker, idleConns, redisVars>>

\* Leaving a handler, by return, panic or cancellation, drops its connection.
ConnsAfter(r) == idleConns + (IF r \in Redirects THEN 1 ELSE 0)

\* The handler ends before its try_send: an unknown or expired link, an error,
\* or the global timeout that drops it at an await.  The handlers that take a
\* connection for a while and never send, delete_links and the middlewares,
\* look the same.
EndWithoutJob(r) ==
    /\ rpc[r] = "sending"
    /\ rpc' = [rpc EXCEPT ![r] = "idle"]
    /\ idleConns' = ConnsAfter(r)
    /\ UNCHANGED <<queue, held, workerVars, pending, ticker, redisVars>>

\* try_send finds room and the request is answered.
Enqueue(r) ==
    /\ rpc[r] = "sending"
    /\ Len(queue) < QueueCap
    /\ queue' = Append(queue, r)
    /\ rpc' = [rpc EXCEPT ![r] = "idle"]
    /\ idleConns' = ConnsAfter(r)
    /\ UNCHANGED <<held, workerVars, pending, ticker, redisVars>>

\* Slip: the connection was taken out of the pool's care.
PanicKeepsConn(r) ==
    /\ rpc[r] = "sending"
    /\ Len(queue) >= QueueCap
    /\ rpc' = [rpc EXCEPT ![r] = "panicked"]
    /\ UNCHANGED <<queue, held, workerVars, pending, ticker, idleConns, redisVars>>

\* try_send finds the channel full: .expect() panics the handler.
Panic(r) ==
    /\ rpc[r] = "sending"
    /\ Len(queue) >= QueueCap
    /\ rpc' = [rpc EXCEPT ![r] = "panicked"]
    /\ idleConns' = ConnsAfter(r)
    /\ UNCHANGED <<queue, held, workerVars, pending, ticker, redisVars>>

\* The client whose connection the panic closed makes another request.
Reconnect(r) ==
    /\ rpc[r] = "panicked"
    /\ rpc' = [rpc EXCEPT ![r] = "idle"]
    /\ UNCHANGED <<queue, held, workerVars, pending, ticker, idleConns, redisVars>>

-----------------------------------------------------------------------------
(* Redis, seen through the pool                                            *)

Outage ==
    /\ redisUp
    /\ outages < MaxOutages
    /\ redisUp' = FALSE
    /\ outages' = outages + 1
    /\ UNCHANGED <<queue, held, workerVars, pending, ticker, rpc, idleConns>>

Recover ==
    /\ ~redisUp
    /\ redisUp' = TRUE
    /\ UNCHANGED <<queue, held, workerVars, pending, ticker, rpc, idleConns, outages>>

-----------------------------------------------------------------------------
TickerStep(k)  == Claim(k) \/ Submit(k) \/ Unclaim(k)
WorkerStep(w)  == \/ Connect(w) \/ ConnectFails(w) \/ RunScheduled(w)
                  \/ Release(w) \/ RunRequestJob(w) \/ Leave(w)
HandlerEnds(r) == EndWithoutJob(r) \/ Enqueue(r) \/ Panic(r)

Next ==
    \/ \E k \in ScheduledJobKind : TickerStep(k)
    \/ Receive
    \/ \E w \in Workers : Dispatch(w) \/ WorkerStep(w)
    \/ \E r \in Redirects : StartRedirect(r)
    \/ \E r \in Creates : StartCreate(r)
    \/ \E r \in Requests : HandlerEnds(r) \/ Reconnect(r)
    \/ Outage \/ Recover

Spec == Init /\ [][Next]_vars

\* The tickers fire for ever, tokio runs every task that can go on, a handler
\* ends (TimeoutLayer sees to it) and an outage is repaired.  Nobody has to
\* make a request or an outage.
Fairness ==
    /\ \A k \in ScheduledJobKind : WF_vars(TickerStep(k))
    /\ WF_vars(Receive)
    /\ WF_vars(\E w \in Workers : Dispatch(w))
    /\ \A w \in Workers : WF_vars(WorkerStep(w))
    /\ \A r \in Requests : WF_vars(HandlerEnds(r))
    /\ WF_vars(Recover)

FairSpec == Spec /\ Fairness

-----------------------------------------------------------------------------
(* Where a copy of a scheduled job can be                                  *)

Sending(k)   == ticker[k] = "sending"
\* A worker has the job until it has given the claim back.
At(k, w) == wjob[w] = k /\ wpc[w] \in {"connecting", "running", "finishing"}
Running(k, w) == wjob[w] = k /\ wpc[w] \in {"running", "finishing"}

Outstanding(k) ==
    \/ Sending(k)
    \/ \E i \in 1..Len(queue) : queue[i] = k
    \/ held = k
    \/ \E w \in Workers : At(k, w)

\* Claimed, and nobody is going to give it back.
Abandoned(k) == k \in pending /\ ~Outstanding(k)

\* Who holds a connection of the pool: the tasks past their get() and the
\* redirects that have not ended.
WorkersConnected   == {w \in Workers : wpc[w] \in {"running", "finishing", "leaving"}}
RedirectsConnected == {r \in Redirects : rpc[r] = "sending"}

-----------------------------------------------------------------------------
(* Properties                                                              *)

\* Every variable has its type; the channel never exceeds its capacity and a
\* worker has a job exactly when it is busy (background_jobs.rs:47-66).
TypeOK ==
    /\ queue \in Seq(BackgroundJob) /\ Len(queue) <= QueueCap
    /\ held \in BackgroundJob \union {NoJob}
    /\ wpc \in [Workers -> WorkerStates]
    /\ wjob \in [Workers -> BackgroundJob \union {NoJob}]
    /\ \A w \in Workers : wpc[w] = "idle" <=> wjob[w] = NoJob
    /\ pending \subseteq ScheduledJobKind
    /\ ticker \in [ScheduledJobKind -> {"waiting", "sending"}]
    /\ rpc \in [Requests -> RequestStates]
    /\ idleConns \in Nat
    /\ redisUp \in BOOLEAN
    /\ outages \in 0..MaxOutages

\* pending_set is there so that two runs of one scheduled job never overlap: a
\* second click sync beside the first would add the same counts twice.  No two
\* workers are ever inside the same kind of job, although the ticker, the
\* dispatcher and the workers share no lock (tasks.rs:16-22 against
\* background_jobs.rs:106-138).
NoConcurrentRuns ==
    \A k \in ScheduledJobKind : \A v, w \in Workers :
        Running(k, v) /\ Running(k, w) => v = w

\* Why: of every kind there is at most one copy among its ticker, the channel,
\* the dispatcher and the workers ...
OneCopy ==
    \A k \in ScheduledJobKind :
        /\ Sending(k) => /\ \A i \in 1..Len(queue) : queue[i] # k
                         /\ held # k
                         /\ \A w \in Workers : ~At(k, w)
        /\ \A i \in 1..Len(queue) : queue[i] = k =>
                         /\ \A j \in 1..Len(queue) : queue[j] = k => i = j
                         /\ held # k
                         /\ \A w \in Workers : ~At(k, w)
        /\ held = k   => \A w \in Workers : ~At(k, w)
        /\ \A v, w \in Workers : At(k, v) /\ At(k, w) => v = w

\* ... and while there is one the kind stays claimed, so that no tick can make
\* another (the remove comes after the job's last await, not before).
ClaimCoversWork ==
    \A k \in ScheduledJobKind : Outstanding(k) => k \in pending

\* Nobody but its ticker or the worker that has finished it takes a kind out
\* of pending_set, and a claim given back leaves no copy of the job behind.
ClaimReturned ==
    [][\A k \in pending \ pending' : Outstanding(k) /\ ~Outstanding(k)']_vars

\* No path out of a handler or a job, the panics and the failed get included,
\* leaks a connection or returns one twice.
ConnsConserved ==
    idleConns + Cardinality(WorkersConnected) + Cardinality(RedirectsConnected) = PoolSize

\* Only a task that gets no connection leaves a claim behind that nobody will
\* give back (background_jobs.rs:61-64); no other path of a ticker, a task or a
\* handler does, the failed try_send included.
OnlyFailedGetsAbandon ==
    [][\A k \in ScheduledJobKind :
         ~Abandoned(k) /\ Abandoned(k)'
             => \E w \in Workers : wpc[w] = "connecting" /\ wjob[w] = k]_vars

\* A full channel is not full for good, whatever the outages: the dispatcher
\* waits for a permit, a worker for a connection, a redirect holds one while
\* it sends, and yet they never all wait for each other.
QueueDrains == []<>(Len(queue) < QueueCap)

\* A scheduled job on the channel is run, however many jobs the requests send,
\* unless its task gets no connection (background_jobs.rs:47-66).
SentIsRun ==
    \A k \in ScheduledJobKind :
        (\E i \in 1..Len(queue) : queue[i] = k) ~> Abandoned(k) \/ \E w \in Workers : Running(k, w)

\* A claim is given back, by its ticker or its task, or left behind by a task
\* that got no connection: no job hangs between them.
ClaimSettles ==
    \A k \in ScheduledJobKind : k \in pending ~> k \notin pending \/ Abandoned(k)

\* A scheduled job runs again and again: its *_sync_interval is "the interval
\* at which the task is executed" (config.rs:73-78).
Recurs ==
    \A k \in ScheduledJobKind : []<>(\E w \in Workers : Running(k, w))

-----------------------------------------------------------------------------
(* What the scheduled jobs look like from outside                          *)

Phase(k) ==
    IF k \notin pending THEN "idle"
    ELSE IF Abandoned(k) THEN "abandoned"
    ELSE IF \E w \in Workers : Running(k, w) THEN "running"
    ELSE "claimed"

phaseBar == [k \in ScheduledJobKind |-> Phase(k)]

Abstract == INSTANCE ScheduledJobs WITH Kinds <- ScheduledJobKind, phase <- phaseBar

\* The machinery implements one small state machine per kind: claimed, run
\* once, given back; or dropped before it starts; never run twice on a claim.
ImplementsScheduledJobs == Abstract!Spec
=============================================================================
