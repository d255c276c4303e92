----------------------------- MODULE RateLimiter -----------------------------
(***************************************************************************)
(* The fixed-window rate limiter of middleware/ip_rate_limiter.rs and      *)
(* middleware/user_rate_limiter.rs, which differ only in the key: one      *)
(* Redis counter per IP address or user, INCR on every request, EXPIRE by  *)
(* the request that got 1, refusal above the limit.  Keys are independent, *)
(* so one is modelled.  INCR and EXPIRE are two commands: requests         *)
(* interleave between them, and a request can end between them.            *)
(***************************************************************************)
EXTENDS Integers, FiniteSets

CONSTANTS
    Requests,   \* requests on one key that can be in the middleware at once
    Limit,      \* ip_rate_limit or user_rate_limit
    Window,     \* ip_rate_limit_window or user_rate_limit_window, in ticks
    MaxFlight,  \* global_timeout_ms, in ticks: how long a request can take
    MaxCount,   \* bound: the counter stops at this value
    MaxCancels  \* bound: requests that end between two of their commands

ASSUME LimiterAssumption ==
    /\ Limit \in Nat \ {0}
    /\ Window \in Nat \ {0}
    /\ MaxFlight \in Nat
    /\ MaxCount \in Nat
    /\ MaxCancels \in Nat

VARIABLES
    count,    \* value of the key; 0 when there is none
    ttl,      \* ticks until the key expires; 0 when it has no expiry
    pc,       \* where each request is in the middleware
    seen,     \* what its INCR returned
    flight,   \* ticks since its INCR
    cancels,  \* requests cancelled so far
    age,      \* history: ticks since the INCR that made the key
    admits    \* history: requests let through, by the age of their INCR

vars == <<count, ttl, pc, seen, flight, cancels, age, admits>>

InFlight(r) == pc[r] # "idle"
RecentTicks == 0..(Window - 1)
\* The age no counter should reach: a window, and the time a request has to
\* set it.  The history stops there.
MaxAge == Window + MaxFlight

Init ==
    /\ count = 0
    /\ ttl = 0
    /\ pc = [r \in Requests |-> "idle"]
    /\ seen = [r \in Requests |-> 0]
    /\ flight = [r \in Requests |-> 0]
    /\ cancels = 0
    /\ age = 0
    /\ admits = [t \in RecentTicks |-> 0]

\* INCR, which makes the key if there is none.
Incr(r) ==
    /\ pc[r] = "idle"
    /\ count < MaxCount
    /\ count' = count + 1
    /\ seen' = [seen EXCEPT ![r] = count + 1]
    /\ flight' = [flight EXCEPT ![r] = 0]
    /\ pc' = [pc EXCEPT ![r] = "counted"]
    /\ age' = IF count = 0 THEN 0 ELSE age
    /\ UNCHANGED <<ttl, cancels, admits>>

\* Slip: EXPIRE XX, which changes only an expiry that is there.
ExpireXX(r) ==
    /\ pc[r] = "counted"
    /\ seen[r] = 1
    /\ ttl' = IF ttl > 0 THEN Window ELSE ttl
    /\ pc' = [pc EXCEPT ![r] = "timed"]
    /\ UNCHANGED <<count, seen, flight, cancels, age, admits>>

\* Slip: every request sets the expiry.
ExpireAlways(r) ==
    /\ pc[r] = "counted"
    /\ ttl' = IF count > 0 THEN Window ELSE ttl
    /\ pc' = [pc EXCEPT ![r] = "timed"]
    /\ UNCHANGED <<count, seen, flight, cancels, age, admits>>

\* The request that got 1 sets the expiry (of a key that is there).
Expire(r) ==
    /\ pc[r] = "counted"
    /\ seen[r] = 1
    /\ ttl' = IF count > 0 THEN Window ELSE ttl
    /\ pc' = [pc EXCEPT ![r] = "timed"]
    /\ UNCHANGED <<count, seen, flight, cancels, age, admits>>

\* Slip: the EXPIRE is not waited for.
CountedAtOnce(r) == InFlight(r)

\* Every other request has nothing to set.
Counted(r) == pc[r] = "timed" \/ (pc[r] = "counted" /\ seen[r] # 1)

\* Leaving the middleware forgets what the request knew.
Leave(r) ==
    /\ pc' = [pc EXCEPT ![r] = "idle"]
    /\ seen' = [seen EXCEPT ![r] = 0]
    /\ flight' = [flight EXCEPT ![r] = 0]

\* Slip: the limit compared with the count before the request's own.
AdmitOneMore(r) ==
    /\ Counted(r)
    /\ ~(seen[r] - 1 > Limit)
    /\ admits' = IF flight[r] \in RecentTicks
                 THEN [admits EXCEPT ![flight[r]] = @ + 1] ELSE admits
    /\ Leave(r)
    /\ UNCHANGED <<count, ttl, cancels, age>>

\* next.run(req)
Admit(r) ==
    /\ Counted(r)
    /\ ~(seen[r] > Limit)
    /\ admits' = IF flight[r] \in RecentTicks
                 THEN [admits EXCEPT ![flight[r]] = @ + 1] ELSE admits
    /\ Leave(r)
    /\ UNCHANGED <<count, ttl, cancels, age>>

\* 429 Too many requests
Refuse(r) ==
    /\ Counted(r)
    /\ seen[r] > Limit
    /\ Leave(r)
    /\ UNCHANGED <<count, ttl, cancels, age, admits>>

\* The request ends where it is: EXPIRE fails, the client goes away or
\* TimeoutLayer drops the handler at an await.
Cancel(r) ==
    /\ InFlight(r)
    /\ cancels < MaxCancels
    /\ cancels' = cancels + 1
    /\ Leave(r)
    /\ UNCHANGED <<count, ttl, age, admits>>

\* One tick: expiries come nearer, and Redis drops the key whose expiry has
\* come.  A request does not stay longer than the global timeout.
Tick ==
    /\ \A r \in Requests : InFlight(r) => flight[r] < MaxFlight
    /\ ttl' = IF ttl > 0 THEN ttl - 1 ELSE 0
    /\ count' = IF ttl = 1 THEN 0 ELSE count
    /\ age' = IF count = 0 \/ ttl = 1 THEN 0
              ELSE IF age < MaxAge THEN age + 1 ELSE age
    /\ flight' = [r \in Requests |-> IF InFlight(r) THEN flight[r] + 1 ELSE 0]
    /\ admits' = [t \in RecentTicks |-> IF t = 0 THEN 0 ELSE admits[t - 1]]
    /\ UNCHANGED <<pc, seen, cancels>>

Next ==
    \/ \E r \in Requests : Incr(r) \/ Expire(r) \/ Admit(r) \/ Refuse(r) \/ Cancel(r)
    \/ Tick

Spec == Init /\ [][Next]_vars

-----------------------------------------------------------------------------
(* Properties                                                              *)

\* Every variable has its type; no deadline is further off than a window
\* (ip_rate_limiter.rs:54).
TypeOK ==
    /\ count \in Nat
    /\ ttl \in 0..Window
    /\ pc \in [Requests -> {"idle", "counted", "timed"}]
    /\ seen \in [Requests -> Nat]
    /\ flight \in [Requests -> 0..MaxFlight]
    /\ cancels \in 0..MaxCancels
    /\ age \in 0..MaxAge
    /\ admits \in [RecentTicks -> Nat]

\* The requests let through that were counted in the last Window ticks.
Admitted == UNION {{t} \X (1..admits[t]) : t \in RecentTicks}

\* However requests interleave their two commands and however the windows
\* fall, the requests of any Window ticks that are admitted are fewer than
\* twice Limit: the end of one window, without the request that opened it, and
\* the start of the next (ip_rate_limiter.rs:44-66).
SlidingBound == Cardinality(Admitted) < 2 * Limit

\* Once a window has its deadline no later request moves it: only the request
\* that made the key sets the expiry (ip_rate_limiter.rs:52-54), so a client
\* that keeps asking is not locked out longer for it.
DeadlineFixed == [][ttl > 0 => ttl' <= ttl]_vars

\* A counter without an expiry has one on its way, unless a request was
\* cancelled: the request that made it has still to send its EXPIRE.
ExpiryOnItsWay ==
    cancels = 0 /\ count > 0 /\ ttl = 0
        => \E r \in Requests : pc[r] = "counted" /\ seen[r] = 1

\* A window closes: Window ticks after the deadline was set the counter is
\* gone and requests succeed again (tests/rate_limit.rs:57-69 and 130-142 wait
\* for the window and expect 200).
WindowCloses == age < MaxAge

\* It does as long as no request is cancelled between two of its commands,
\* late as its EXPIRE may be (ip_rate_limiter.rs:52-60).
WindowClosesUncancelled == cancels = 0 => WindowCloses
=============================================================================
