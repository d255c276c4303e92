--------------------------- MODULE JobQueueProofs ---------------------------
(***************************************************************************)
(* Proofs about JobQueue, for every set of requests, capacity, number of   *)
(* workers and pool size.                                                  *)
(***************************************************************************)
EXTENDS JobQueue, FiniteSetTheorems, TLAPS

LEMMA TypeInit == Init => TypeOK
BY CapsAssumption, JobsAssumption DEF Init, TypeOK, WorkerStates, RequestStates, BackgroundJob

\* The step of the type invariant, action by action.
LEMMA TypeStep == TypeOK /\ [Next]_vars => TypeOK'
<1> SUFFICES ASSUME TypeOK, [Next]_vars PROVE TypeOK'
  OBVIOUS
<1> USE CapsAssumption, JobsAssumption DEF TypeOK, WorkerStates, RequestStates,
        BackgroundJob, Requests, workerVars, redisVars
<1>1. ASSUME NEW k \in ScheduledJobKind, TickerStep(k) PROVE TypeOK'
  <2>1. CASE Claim(k)    BY <2>1 DEF Claim
  <2>2. CASE Submit(k)   BY <2>2 DEF Submit
  <2>3. CASE Unclaim(k)  BY <2>3 DEF Unclaim
  <2> QED BY <1>1, <2>1, <2>2, <2>3 DEF TickerStep
<1>2. CASE Receive
  BY <1>2 DEF Receive
<1>3. ASSUME NEW w \in Workers, Dispatch(w) PROVE TypeOK'
  BY <1>3 DEF Dispatch
<1>4. ASSUME NEW w \in Workers, WorkerStep(w) PROVE TypeOK'
  BY <1>4 DEF WorkerStep, Connect, ConnectFails, RunScheduled, Release, RunRequestJob, Leave
<1>5. ASSUME NEW r \in Redirects, StartRedirect(r) PROVE TypeOK'
  BY <1>5 DEF StartRedirect
<1>6. ASSUME NEW r \in Creates, StartCreate(r) PROVE TypeOK'
  BY <1>6 DEF StartCreate
<1>7. ASSUME NEW r \in Requests, HandlerEnds(r) PROVE TypeOK'
  <2>1. CASE EndWithoutJob(r)  BY <2>1 DEF EndWithoutJob, ConnsAfter
  <2>2. CASE Enqueue(r)        BY <2>2 DEF Enqueue, ConnsAfter
  <2>3. CASE Panic(r)          BY <2>3 DEF Panic, ConnsAfter
  <2> QED BY <1>7, <2>1, <2>2, <2>3 DEF HandlerEnds
<1>8. ASSUME NEW r \in Requests, Reconnect(r) PROVE TypeOK'
  BY <1>8 DEF Reconnect
<1>9. CASE Outage
  <2>1. outages' \in 0..MaxOutages
    BY <1>9 DEF Outage
  <2> QED BY <2>1, <1>9 DEF Outage
<1>10. CASE Recover
  BY <1>10 DEF Recover
<1>11. CASE UNCHANGED vars
  BY <1>11 DEF vars
<1> QED
  BY <1>1, <1>2, <1>3, <1>4, <1>5, <1>6, <1>7, <1>8, <1>9, <1>10, <1>11 DEF Next

\* Every variable keeps its type, and the channel its capacity.
THEOREM TypeCorrect == Spec => []TypeOK
<1>1. QED BY TypeInit, TypeStep, PTL DEF Spec

-----------------------------------------------------------------------------
(* At most one run of a scheduled job.  Neither OneCopy nor ClaimCoversWork  *)
(* is inductive alone: a tick adds a copy, and only the claim keeps it from  *)
(* being the second.                                                         *)

IInv == TypeOK /\ OneCopy /\ ClaimCoversWork

LEMMA CopyInit == Init => OneCopy /\ ClaimCoversWork
BY CapsAssumption, JobsAssumption
DEF Init, OneCopy, ClaimCoversWork, Outstanding, Sending, At, BackgroundJob, Requests

LEMMA CopyStep == IInv /\ [Next]_vars => OneCopy' /\ ClaimCoversWork'
<1> SUFFICES ASSUME IInv, [Next]_vars PROVE OneCopy' /\ ClaimCoversWork'
  OBVIOUS
<1> USE JobsAssumption DEF IInv, OneCopy, ClaimCoversWork, Outstanding, Sending, At,
        TypeOK, WorkerStates, BackgroundJob, Requests, workerVars, redisVars
<1>1. ASSUME NEW k \in ScheduledJobKind, Claim(k) PROVE OneCopy' /\ ClaimCoversWork'
  BY <1>1 DEF Claim
<1>2. ASSUME NEW k \in ScheduledJobKind, Submit(k) PROVE OneCopy' /\ ClaimCoversWork'
  BY <1>2 DEF Submit
<1>3. ASSUME NEW k \in ScheduledJobKind, Unclaim(k) PROVE OneCopy' /\ ClaimCoversWork'
  BY <1>3 DEF Unclaim
<1>4. CASE Receive
  BY <1>4 DEF Receive
<1>5. ASSUME NEW w \in Workers, Dispatch(w) PROVE OneCopy' /\ ClaimCoversWork'
  BY <1>5 DEF Dispatch
<1>6. ASSUME NEW w \in Workers, Connect(w) PROVE OneCopy' /\ ClaimCoversWork'
  BY <1>6 DEF Connect
<1>7. ASSUME NEW w \in Workers, ConnectFails(w) PROVE OneCopy' /\ ClaimCoversWork'
  BY <1>7 DEF ConnectFails
<1>8. ASSUME NEW w \in Workers, RunScheduled(w) PROVE OneCopy' /\ ClaimCoversWork'
  BY <1>8 DEF RunScheduled
<1>9. ASSUME NEW w \in Workers, Release(w) PROVE OneCopy' /\ ClaimCoversWork'
  BY <1>9 DEF Release
<1>10. ASSUME NEW w \in Workers, RunRequestJob(w) \/ Leave(w) PROVE OneCopy' /\ ClaimCoversWork'
  BY <1>10 DEF RunRequestJob, Leave
<1>11. ASSUME NEW r \in Requests, Enqueue(r) PROVE OneCopy' /\ ClaimCoversWork'
  BY <1>11 DEF Enqueue
<1>12. CASE UNCHANGED <<queue, held, wpc, wjob, pending, ticker>>
  BY <1>12
<1> QED
  BY <1>1, <1>2, <1>3, <1>4, <1>5, <1>6, <1>7, <1>8, <1>9, <1>10, <1>11, <1>12
  DEF Next, TickerStep, WorkerStep, HandlerEnds, StartRedirect, StartCreate, EndWithoutJob,
      Panic, Reconnect, Outage, Recover, vars

LEMMA IInvStep == IInv /\ [Next]_vars => IInv'
BY TypeStep, CopyStep DEF IInv

LEMMA Invariance == Spec => []IInv
<1>1. Init => IInv
  BY TypeInit, CopyInit DEF IInv
<1> QED BY <1>1, IInvStep, PTL DEF Spec

LEMMA OneRunner == IInv => NoConcurrentRuns
BY DEF IInv, OneCopy, NoConcurrentRuns, Running, At

\* Two workers never run the same scheduled job at the same time
\* (background_jobs.rs:106-138), however the tickers, the dispatcher and the
\* workers interleave.
THEOREM SingleFlight == Spec => []NoConcurrentRuns
<1>1. QED BY Invariance, OneRunner, PTL

\* While a copy of a scheduled job is anywhere between its ticker and the end
\* of its run, its kind is in pending_set, and there is only one copy.
THEOREM ClaimsCover == Spec => [](OneCopy /\ ClaimCoversWork)
<1>1. IInv => OneCopy /\ ClaimCoversWork
  BY DEF IInv
<1> QED BY Invariance, <1>1, PTL

\* No scheduled job is ever in two places among its ticker, the channel, the
\* dispatcher and the workers.
THEOREM OneCopyOnly == Spec => []OneCopy
<1>1. QED BY ClaimsCover, PTL

\* A claim is given back by its ticker or by the worker that has run it, and
\* no copy of the job is left when it is.
LEMMA ReturnStep ==
    IInv /\ [Next]_vars => \A k \in pending \ pending' : Outstanding(k) /\ ~Outstanding(k)'
<1> SUFFICES ASSUME IInv, IInv', [Next]_vars, NEW k \in ScheduledJobKind,
                    k \in pending, k \notin pending'
             PROVE  Outstanding(k) /\ ~Outstanding(k)'
  BY IInvStep DEF IInv, TypeOK
<1>1. ~Outstanding(k)'
  BY DEF IInv, ClaimCoversWork
<1>2. \/ Unclaim(k)
      \/ \E w \in Workers : Release(w) /\ wjob[w] = k
  BY JobsAssumption DEF Next, TickerStep, WorkerStep, HandlerEnds, Claim, Submit, Unclaim, Receive, Dispatch,
     Connect, ConnectFails, RunScheduled, Release, RunRequestJob, Leave, StartRedirect,
     StartCreate, EndWithoutJob, Enqueue, Panic, Reconnect, Outage, Recover, vars
<1>3. Outstanding(k)
  BY <1>2 DEF Unclaim, Release, Outstanding, Sending, At
<1> QED BY <1>1, <1>3

THEOREM ClaimsReturned == Spec => ClaimReturned
<1>1. IInv /\ [Next]_vars => [\A k \in pending \ pending' : Outstanding(k) /\ ~Outstanding(k)']_vars
  BY ReturnStep
<1> QED BY <1>1, Invariance, PTL DEF Spec, ClaimReturned

\* Receiving moves a copy and makes or drops none.
LEMMA ReceiveFrame ==
    ASSUME IInv, Receive, NEW j \in ScheduledJobKind
    PROVE  Outstanding(j)' <=> Outstanding(j)
<1> USE JobsAssumption DEF IInv, TypeOK, Receive, BackgroundJob, Requests, workerVars
<1>1. ASSUME NEW i \in 1..Len(queue), queue[i] = j
      PROVE  held' = j \/ \E n \in 1..Len(queue') : queue'[n] = j
  <2>1. CASE i = 1
    BY <1>1, <2>1
  <2>2. CASE i # 1
    <3>1. i - 1 \in 1..Len(queue') /\ queue'[i - 1] = j
      BY <1>1, <2>2
    <3> QED BY <3>1
  <2> QED BY <2>1, <2>2
<1>2. held' = j => \E i \in 1..Len(queue) : queue[i] = j
  OBVIOUS
<1>3. ASSUME NEW n \in 1..Len(queue'), queue'[n] = j
      PROVE  \E i \in 1..Len(queue) : queue[i] = j
  <2>1. n + 1 \in 1..Len(queue) /\ queue[n + 1] = j
    BY <1>3
  <2> QED BY <2>1
<1> QED BY <1>1, <1>2, <1>3 DEF Outstanding, Sending, At

\* A claim is left with nobody to give it back only by a task that was waiting
\* for its connection.
LEMMA AbandonStep ==
    ASSUME IInv, [Next]_vars, NEW k \in ScheduledJobKind, ~Abandoned(k), Abandoned(k)'
    PROVE  \E w \in Workers : wpc[w] = "connecting" /\ wjob[w] = k
<1> USE JobsAssumption DEF IInv, TypeOK, BackgroundJob, Requests, workerVars, redisVars,
        Abandoned, Outstanding, Sending, At
<1>1. ASSUME NEW j \in ScheduledJobKind, Claim(j) PROVE FALSE
  BY <1>1 DEF Claim
<1>2. ASSUME NEW j \in ScheduledJobKind, Submit(j) PROVE FALSE
  <2>1. queue'[Len(queue) + 1] = j /\ Len(queue) + 1 \in 1..Len(queue')
    BY <1>2 DEF Submit
  <2>2. \A i \in 1..Len(queue) : i \in 1..Len(queue') /\ queue'[i] = queue[i]
    BY <1>2 DEF Submit
  <2> QED BY <1>2, <2>1, <2>2 DEF Submit
<1>3. ASSUME NEW j \in ScheduledJobKind, Unclaim(j) PROVE FALSE
  BY <1>3 DEF Unclaim
<1>4. CASE Receive
  <2>1. pending' = pending
    BY <1>4 DEF Receive
  <2> QED BY <1>4, <2>1, ReceiveFrame
<1>5. ASSUME NEW w \in Workers, Dispatch(w) PROVE FALSE
  BY <1>5 DEF Dispatch
<1>6. ASSUME NEW w \in Workers, ConnectFails(w)
      PROVE  wpc[w] = "connecting" /\ wjob[w] = k
  BY <1>6 DEF ConnectFails
<1>7. ASSUME NEW w \in Workers,
             Connect(w) \/ RunScheduled(w) \/ Release(w) \/ RunRequestJob(w) \/ Leave(w)
      PROVE  FALSE
  BY <1>7 DEF Connect, RunScheduled, Release, RunRequestJob, Leave
<1>8. ASSUME NEW r \in Requests, Enqueue(r) PROVE FALSE
  <2>1. \A i \in 1..Len(queue) : i \in 1..Len(queue') /\ queue'[i] = queue[i]
    BY <1>8 DEF Enqueue
  <2> QED BY <1>8, <2>1 DEF Enqueue
<1>9. CASE UNCHANGED <<queue, held, wpc, wjob, pending, ticker>>
  BY <1>9
<1> QED
  BY <1>1, <1>2, <1>3, <1>4, <1>5, <1>6, <1>7, <1>8, <1>9
  DEF Next, TickerStep, WorkerStep, HandlerEnds, StartRedirect, StartCreate, EndWithoutJob,
      Panic, Reconnect, Outage, Recover, vars

\* Nothing but a failed get leaves a claim behind.
THEOREM AbandonedByFailedGets == Spec => OnlyFailedGetsAbandon
<1>1. IInv /\ [Next]_vars
        => [\A k \in ScheduledJobKind :
              ~Abandoned(k) /\ Abandoned(k)'
                  => \E w \in Workers : wpc[w] = "connecting" /\ wjob[w] = k]_vars
  BY AbandonStep
<1> QED BY <1>1, Invariance, PTL DEF Spec, OnlyFailedGetsAbandon

-----------------------------------------------------------------------------
(* JobQueue implements ScheduledJobs.                                        *)

\* A kind whose claim, copies and run are where they were has the same phase.
LEMMA PhaseFrame ==
    ASSUME NEW k \in ScheduledJobKind,
           k \in pending' <=> k \in pending,
           Outstanding(k)' <=> Outstanding(k),
           (\E w \in Workers : Running(k, w))' <=> \E w \in Workers : Running(k, w)
    PROVE  Phase(k)' = Phase(k)
BY DEF Phase, Abandoned

\* Moving one phase and keeping the others is a move of ScheduledJobs.
LEMMA PhaseMove ==
    ASSUME NEW k \in ScheduledJobKind, NEW from, NEW to,
           Phase(k) = from, Phase(k)' = to,
           \A j \in ScheduledJobKind \ {k} : Phase(j)' = Phase(j)
    PROVE  Abstract!Move(k, from, to)
BY DEF Abstract!Move, phaseBar

LEMMA AbstractInit == Init => Abstract!Init
BY DEF Init, Abstract!Init, phaseBar, Phase, Abandoned

LEMMA AbstractStep == IInv /\ [Next]_vars => [Abstract!Next]_phaseBar
<1> SUFFICES ASSUME IInv, [Next]_vars PROVE [Abstract!Next]_phaseBar
  OBVIOUS
<1> DEFINE Kept == \A j \in ScheduledJobKind : Phase(j)' = Phase(j)
           Moves(k) == \/ Abstract!Take(k)   \/ Abstract!Drop(k) \/ Abstract!Start(k)
                       \/ Abstract!Finish(k) \/ Abstract!Abandon(k)
<1>1. Kept => UNCHANGED phaseBar
  BY DEF phaseBar
<1>2. ASSUME NEW k \in ScheduledJobKind, Moves(k) PROVE Abstract!Next
  BY <1>2 DEF Abstract!Next
<1> USE JobsAssumption DEF TypeOK, BackgroundJob, Requests, workerVars, redisVars, WorkerStates
<1> HIDE DEF Kept, Moves
<1>3. ASSUME NEW k \in ScheduledJobKind, Claim(k) PROVE Moves(k)
  <2>1. Phase(k) = "idle" /\ Phase(k)' = "claimed"
    BY <1>3 DEF Claim, Phase, Abandoned, Outstanding, Sending, At, Running, IInv, ClaimCoversWork
  <2>2. ASSUME NEW j \in ScheduledJobKind \ {k} PROVE Phase(j)' = Phase(j)
    BY <1>3 DEF Claim, Phase, Abandoned, Outstanding, Sending, At, Running, IInv
  <2> QED BY <2>1, <2>2, PhaseMove DEF Moves, Abstract!Take
<1>4. ASSUME NEW k \in ScheduledJobKind, Submit(k) PROVE Kept
  BY <1>4 DEF Submit, Kept, Phase, Abandoned, Outstanding, Sending, At, Running, IInv
<1>5. ASSUME NEW k \in ScheduledJobKind, Unclaim(k) PROVE Moves(k)
  <2>1. Phase(k) = "claimed" /\ Phase(k)' = "idle"
    BY <1>5 DEF Unclaim, Phase, Abandoned, Outstanding, Sending, At, Running, IInv, ClaimCoversWork, OneCopy
  <2>2. ASSUME NEW j \in ScheduledJobKind \ {k} PROVE Phase(j)' = Phase(j)
    BY <1>5 DEF Unclaim, Phase, Abandoned, Outstanding, Sending, At, Running, IInv
  <2> QED BY <2>1, <2>2, PhaseMove DEF Moves, Abstract!Drop
<1>6. CASE Receive
  <2> SUFFICES ASSUME NEW j \in ScheduledJobKind PROVE Phase(j)' = Phase(j)
    BY <1>1 DEF Kept
  <2> QED BY <1>6, ReceiveFrame, PhaseFrame DEF Receive, Running
<1>7. ASSUME NEW w \in Workers, Dispatch(w) PROVE Kept
  BY <1>7 DEF Dispatch, Kept, Phase, Abandoned, Outstanding, Sending, At, Running, IInv
<1>8. ASSUME NEW w \in Workers, NEW k \in ScheduledJobKind, Connect(w), wjob[w] = k
       PROVE  Moves(k)
  <2>1. Phase(k) = "claimed" /\ Phase(k)' = "running"
    BY <1>8 DEF Connect, Phase, Abandoned, Outstanding, Sending, At, Running, IInv, ClaimCoversWork, OneCopy
  <2>2. ASSUME NEW j \in ScheduledJobKind \ {k} PROVE Phase(j)' = Phase(j)
    BY <1>8 DEF Connect, Phase, Abandoned, Outstanding, Sending, At, Running, IInv
  <2> QED BY <1>8, <2>1, <2>2, PhaseMove DEF Moves, Abstract!Start
<1>9. ASSUME NEW w \in Workers, NEW k \in ScheduledJobKind, ConnectFails(w), wjob[w] = k
       PROVE  Moves(k)
  <2>1. Phase(k) = "claimed" /\ Phase(k)' = "abandoned"
    BY <1>9 DEF ConnectFails, Phase, Abandoned, Outstanding, Sending, At, Running, IInv, ClaimCoversWork, OneCopy
  <2>2. ASSUME NEW j \in ScheduledJobKind \ {k} PROVE Phase(j)' = Phase(j)
    BY <1>9 DEF ConnectFails, Phase, Abandoned, Outstanding, Sending, At, Running, IInv
  <2> QED BY <1>9, <2>1, <2>2, PhaseMove DEF Moves, Abstract!Abandon
<1>10. ASSUME NEW w \in Workers, NEW k \in ScheduledJobKind, Release(w), wjob[w] = k
       PROVE  Moves(k)
  <2>1. Phase(k) = "running" /\ Phase(k)' = "idle"
    BY <1>10 DEF Release, Phase, Abandoned, Outstanding, Sending, At, Running, IInv, ClaimCoversWork, OneCopy
  <2>2. ASSUME NEW j \in ScheduledJobKind \ {k} PROVE Phase(j)' = Phase(j)
    BY <1>10 DEF Release, Phase, Abandoned, Outstanding, Sending, At, Running, IInv
  <2> QED BY <1>10, <2>1, <2>2, PhaseMove DEF Moves, Abstract!Finish
<1>11. ASSUME NEW w \in Workers, Connect(w) \/ ConnectFails(w) \/ Release(w),
              wjob[w] \notin ScheduledJobKind
       PROVE  Kept
  BY <1>11 DEF Connect, ConnectFails, Release, Kept, Phase, Abandoned, Outstanding, Sending, At, Running, IInv
<1>12. ASSUME NEW w \in Workers, RunScheduled(w) \/ RunRequestJob(w) \/ Leave(w) PROVE Kept
  BY <1>12 DEF RunScheduled, RunRequestJob, Leave, Kept, Phase, Abandoned, Outstanding, Sending, At, Running, IInv
<1>13. ASSUME NEW r \in Requests, Enqueue(r) PROVE Kept
  BY <1>13 DEF Enqueue, Kept, Phase, Abandoned, Outstanding, Sending, At, Running, IInv
<1>14. CASE UNCHANGED <<queue, held, wpc, wjob, pending, ticker>>
  <2>1. Kept
    BY <1>14 DEF Kept, Phase, Abandoned, Outstanding, Sending, At, Running
  <2> QED BY <2>1, <1>1
<1> QED
  BY <1>1, <1>2, <1>3, <1>4, <1>5, <1>6, <1>7, <1>8, <1>9, <1>10, <1>11, <1>12, <1>13, <1>14
  DEF Next, TickerStep, WorkerStep, HandlerEnds, StartRedirect, StartCreate, EndWithoutJob,
      Panic, Reconnect, Outage, Recover, vars

\* Seen from outside, each kind of scheduled job goes through claim, one run
\* and release, or is dropped or abandoned before it starts; no step of the
\* machinery does anything else to it.
THEOREM Implements == Spec => ImplementsScheduledJobs
<1>1. Spec => Abstract!Init /\ [][Abstract!Next]_phaseBar
  BY AbstractInit, AbstractStep, Invariance, PTL DEF Spec
<1> QED BY <1>1 DEF ImplementsScheduledJobs, Abstract!Spec

-----------------------------------------------------------------------------
(* The connections of the pool.                                              *)

\* Only finitely many redirects hold a connection, even if Redirects is infinite.
ConnsInv == TypeOK /\ IsFiniteSet(RedirectsConnected) /\ ConnsConserved

LEMMA FiniteWorkers == IsFiniteSet(WorkersConnected)
<1>1. IsFiniteSet(Workers)
  BY CapsAssumption, FS_Interval DEF Workers
<1> QED BY <1>1, FS_Subset DEF WorkersConnected

LEMMA ConnsInit == Init => ConnsInv
<1> SUFFICES ASSUME Init PROVE ConnsInv
  OBVIOUS
<1>1. WorkersConnected = {} /\ RedirectsConnected = {}
  BY DEF Init, WorkersConnected, RedirectsConnected, Requests
<1> QED BY <1>1, TypeInit, FS_EmptySet, CapsAssumption DEF ConnsInv, ConnsConserved, Init

LEMMA ConnsStep == ConnsInv /\ [Next]_vars => ConnsInv'
<1> SUFFICES ASSUME ConnsInv, [Next]_vars PROVE ConnsInv'
  OBVIOUS
<1>t. TypeOK /\ TypeOK'
  BY TypeStep DEF ConnsInv
<1>f. IsFiniteSet(WorkersConnected) /\ IsFiniteSet(RedirectsConnected)
  BY FiniteWorkers DEF ConnsInv
<1>n. /\ Cardinality(WorkersConnected) \in Nat
      /\ Cardinality(RedirectsConnected) \in Nat
      /\ idleConns \in Nat /\ PoolSize \in Nat
  BY <1>f, <1>t, FS_CardinalityType, CapsAssumption DEF TypeOK
\* A worker takes a connection, or gives its own back.
<1>1. ASSUME NEW w \in Workers, Connect(w) PROVE ConnsInv'
  <2>1. /\ w \notin WorkersConnected
        /\ WorkersConnected' = WorkersConnected \union {w}
        /\ RedirectsConnected' = RedirectsConnected
    BY <1>1, <1>t DEF Connect, WorkersConnected, RedirectsConnected, TypeOK
  <2>2. Cardinality(WorkersConnected') = Cardinality(WorkersConnected) + 1
    BY <2>1, <1>f, FS_AddElement
  <2> QED BY <1>1, <2>1, <2>2, <1>n, <1>t DEF Connect, ConnsInv, ConnsConserved
<1>2. ASSUME NEW w \in Workers, Leave(w) PROVE ConnsInv'
  <2>1. /\ w \in WorkersConnected
        /\ WorkersConnected' = WorkersConnected \ {w}
        /\ RedirectsConnected' = RedirectsConnected
    BY <1>2, <1>t DEF Leave, WorkersConnected, RedirectsConnected, TypeOK
  <2>2. Cardinality(WorkersConnected') = Cardinality(WorkersConnected) - 1
    BY <2>1, <1>f, FS_RemoveElement
  <2> QED BY <1>2, <2>1, <2>2, <1>n, <1>t DEF Leave, ConnsInv, ConnsConserved
\* So does a redirect; a create has none.
<1>3. ASSUME NEW r \in Redirects, StartRedirect(r) PROVE ConnsInv'
  <2>1. /\ r \notin RedirectsConnected
        /\ RedirectsConnected' = RedirectsConnected \union {r}
        /\ WorkersConnected' = WorkersConnected
    BY <1>3, <1>t DEF StartRedirect, WorkersConnected, RedirectsConnected, TypeOK, Requests, workerVars
  <2>2. /\ Cardinality(RedirectsConnected') = Cardinality(RedirectsConnected) + 1
        /\ IsFiniteSet(RedirectsConnected')
    BY <2>1, <1>f, FS_AddElement
  <2> QED BY <1>3, <2>1, <2>2, <1>n, <1>t DEF StartRedirect, ConnsInv, ConnsConserved
<1>4. ASSUME NEW r \in Redirects, HandlerEnds(r) PROVE ConnsInv'
  <2> USE <1>4, <1>t DEF HandlerEnds, EndWithoutJob, Enqueue, Panic, ConnsAfter
  <2>1. /\ r \in RedirectsConnected
        /\ RedirectsConnected' = RedirectsConnected \ {r}
        /\ WorkersConnected' = WorkersConnected
    BY DEF WorkersConnected, RedirectsConnected, TypeOK, Requests, workerVars
  <2>2. /\ Cardinality(RedirectsConnected') = Cardinality(RedirectsConnected) - 1
        /\ IsFiniteSet(RedirectsConnected')
    BY <2>1, <1>f, FS_RemoveElement
  <2> QED BY <2>1, <2>2, <1>n DEF ConnsInv, ConnsConserved
<1>5. ASSUME NEW r \in Creates, StartCreate(r) \/ HandlerEnds(r) \/ Reconnect(r) PROVE ConnsInv'
  <2>1. UNCHANGED <<WorkersConnected, RedirectsConnected, idleConns>>
    BY <1>5, <1>t, JobsAssumption DEF StartCreate, HandlerEnds, EndWithoutJob, Enqueue, Panic, Reconnect,
       ConnsAfter, WorkersConnected, RedirectsConnected, TypeOK, Requests, workerVars
  <2> QED BY <2>1, <1>t DEF ConnsInv, ConnsConserved
<1>6. ASSUME NEW r \in Redirects, Reconnect(r) PROVE ConnsInv'
  <2>1. UNCHANGED <<WorkersConnected, RedirectsConnected, idleConns>>
    BY <1>6, <1>t DEF Reconnect, WorkersConnected, RedirectsConnected, TypeOK, Requests, workerVars
  <2> QED BY <2>1, <1>t DEF ConnsInv, ConnsConserved
\* The rest moves no connection.
<1>7. ASSUME NEW w \in Workers,
             Dispatch(w) \/ ConnectFails(w) \/ RunScheduled(w) \/ Release(w) \/ RunRequestJob(w)
      PROVE  ConnsInv'
  <2>1. UNCHANGED <<WorkersConnected, RedirectsConnected, idleConns>>
    BY <1>7, <1>t DEF Dispatch, ConnectFails, RunScheduled, Release, RunRequestJob,
       WorkersConnected, RedirectsConnected, TypeOK
  <2> QED BY <2>1, <1>t DEF ConnsInv, ConnsConserved
<1>8. CASE UNCHANGED <<wpc, rpc, idleConns>>
  <2>1. UNCHANGED <<WorkersConnected, RedirectsConnected, idleConns>>
    BY <1>8 DEF WorkersConnected, RedirectsConnected
  <2> QED BY <2>1, <1>t DEF ConnsInv, ConnsConserved
<1> QED
  BY <1>1, <1>2, <1>3, <1>4, <1>5, <1>6, <1>7, <1>8
  DEF Next, TickerStep, WorkerStep, Claim, Submit, Unclaim, Receive, Outage, Recover, vars,
      workerVars, Requests

\* However handlers and jobs end, every connection is either idle in the pool
\* or held by one of them.
THEOREM PoolConserved == Spec => []ConnsConserved
<1>1. ConnsInv => ConnsConserved
  BY DEF ConnsInv
<1> QED BY <1>1, ConnsInit, ConnsStep, PTL DEF Spec
=============================================================================
