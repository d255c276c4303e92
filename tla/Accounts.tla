------------------------------ MODULE Accounts ------------------------------
(***************************************************************************)
(* Login to one account and registration (services/users.rs) with the      *)
(* counters that limit them (models/user.rs).  A counter is checked first  *)
(* and raised much later, when the password has been verified or hashed;   *)
(* whoever raises it to 1 sets its expiry; a login that succeeds deletes   *)
(* the counters of its account.  Requests interleave between any two of    *)
(* these commands.  What a login does to the sessions is in Sessions.      *)
(***************************************************************************)
EXTENDS Integers, FiniteSets

CONSTANTS
    Requests,    \* requests that can be under way at once
    Keys,        \* the counters
    UserKey,     \* login_fail:uid:<id of the account>
    IpKey,       \* login_fail:ip_uid:<ip>:<id>, by the request's address
    RegisterKey, \* register:ip:<ip>, by the request's address
    Limit,       \* user_login_fail_limit, ip_user_... or ip_register_limit
    Ttl,         \* user_login_fail_ttl, ip_user_... or ip_register_ttl, in ticks
    MaxCancels   \* bound: requests that end between two of their commands

ASSUME AccountsAssumption ==
    /\ IsFiniteSet(Requests)
    /\ UserKey \in Keys
    /\ IpKey \in [Requests -> Keys \ {UserKey}]
    /\ RegisterKey \in [Requests -> Keys \ {UserKey}]
    /\ \A r, s \in Requests : IpKey[r] # RegisterKey[s]
    /\ Limit \in [Keys -> Nat \ {0}]
    /\ Ttl \in [Keys -> Nat \ {0}]
    /\ MaxCancels \in Nat

VARIABLES
    count,   \* value of each key; 0 when there is none
    ttl,     \* ticks until it expires; 0 when it has no expiry
    pc,      \* where each request is
    seen,    \* what its last INCR returned
    cancels, \* requests cancelled so far
    rows     \* history: users inserted since the register key was made

vars == <<count, ttl, pc, seen, cancels, rows>>

Init ==
    /\ count = [k \in Keys |-> 0]
    /\ ttl = [k \in Keys |-> 0]
    /\ pc = [r \in Requests |-> "idle"]
    /\ seen = [r \in Requests |-> 0]
    /\ cancels = 0
    /\ rows = [k \in Keys |-> 0]

InFlight(r) == pc[r] # "idle"
Goto(r, from, to) == pc[r] = from /\ pc' = [pc EXCEPT ![r] = to]

-----------------------------------------------------------------------------
(* check_limit and incr_count                                              *)

\* Slip: one more than the limit.
CheckOneMore(r, k, from, to) ==
    /\ Goto(r, from, IF count[k] > Limit[k] THEN "idle" ELSE to)
    /\ UNCHANGED <<count, ttl, seen, cancels, rows>>

\* GET: at the limit the request is refused with 429.
Check(r, k, from, to) ==
    /\ Goto(r, from, IF count[k] >= Limit[k] THEN "idle" ELSE to)
    /\ UNCHANGED <<count, ttl, seen, cancels, rows>>

\* INCR, which makes the key if there is none.
Incr(r, k, from, to) ==
    /\ Goto(r, from, to)
    /\ count' = [count EXCEPT ![k] = @ + 1]
    /\ seen' = [seen EXCEPT ![r] = count[k] + 1]
    /\ UNCHANGED <<ttl, cancels, rows>>

\* Slip: EXPIRE XX, which changes only an expiry that is there.
ExpireXX(r, k, from, to) ==
    /\ seen[r] = 1
    /\ Goto(r, from, to)
    /\ ttl' = IF ttl[k] > 0 THEN [ttl EXCEPT ![k] = Ttl[k]] ELSE ttl
    /\ UNCHANGED <<count, seen, cancels, rows>>

\* EXPIRE by the request that got 1, if the key is still there.
Expire(r, k, from, to) ==
    /\ seen[r] = 1
    /\ Goto(r, from, to)
    /\ ttl' = IF count[k] > 0 THEN [ttl EXCEPT ![k] = Ttl[k]] ELSE ttl
    /\ UNCHANGED <<count, seen, cancels, rows>>

\* Slip: the EXPIRE is not waited for.
ExpireUnawaited(r, from, to) ==
    /\ Goto(r, from, to)
    /\ UNCHANGED <<count, ttl, seen, cancels, rows>>

\* Every other request has no expiry to set.
NoExpire(r, from, to) ==
    /\ seen[r] # 1
    /\ Goto(r, from, to)
    /\ UNCHANGED <<count, ttl, seen, cancels, rows>>

\* DEL
Delete(r, k, from, to) ==
    /\ Goto(r, from, to)
    /\ count' = [count EXCEPT ![k] = 0]
    /\ ttl' = [ttl EXCEPT ![k] = 0]
    /\ UNCHANGED <<seen, cancels, rows>>

-----------------------------------------------------------------------------
(* login, of a user that find_user found                                   *)

CheckUser(r) == Check(r, UserKey, "idle", "not_locked")
CheckIp(r) == Check(r, IpKey[r], "not_locked", "verifying")

\* The password is wrong: record_login_fail.
FailUser(r) == Incr(r, UserKey, "verifying", "user_counted")
ExpireUser(r) == Expire(r, UserKey, "user_counted", "user_recorded")
UserRecorded(r) == NoExpire(r, "user_counted", "user_recorded")
FailIp(r) == Incr(r, IpKey[r], "user_recorded", "ip_counted")
ExpireIp(r) == Expire(r, IpKey[r], "ip_counted", "idle")
IpRecorded(r) == NoExpire(r, "ip_counted", "idle")

\* The password is right and the session made: login_success.
ClearUser(r) == Delete(r, UserKey, "verifying", "user_cleared")
ClearIp(r) == Delete(r, IpKey[r], "user_cleared", "idle")

Login(r) ==
    \/ CheckUser(r) \/ CheckIp(r)
    \/ FailUser(r) \/ ExpireUser(r) \/ UserRecorded(r)
    \/ FailIp(r) \/ ExpireIp(r) \/ IpRecorded(r)
    \/ ClearUser(r) \/ ClearIp(r)

-----------------------------------------------------------------------------
(* register                                                                *)

CanRegister(r) == Check(r, RegisterKey[r], "idle", "may_register")

\* exists_by_email finds a user: 400.
EmailTaken(r) ==
    /\ Goto(r, "may_register", "idle")
    /\ UNCHANGED <<count, ttl, seen, cancels, rows>>

\* It finds none, and the password is hashed.
NewEmail(r) ==
    /\ Goto(r, "may_register", "hashed")
    /\ UNCHANGED <<count, ttl, seen, cancels, rows>>

\* Slip: the key of the login counter is raised.
RecordElsewhere(r) == Incr(r, IpKey[r], "hashed", "counted")

\* record_register
Record(r) == Incr(r, RegisterKey[r], "hashed", "counted")
ExpireRecord(r) == Expire(r, RegisterKey[r], "counted", "recorded")
Recorded(r) == NoExpire(r, "counted", "recorded")

\* The row is inserted, unless another request has inserted the e-mail since.
Insert(r) ==
    /\ Goto(r, "recorded", "idle")
    /\ rows' = [rows EXCEPT ![RegisterKey[r]] = @ + 1]
    /\ UNCHANGED <<count, ttl, seen, cancels>>
InsertRefused(r) ==
    /\ Goto(r, "recorded", "idle")
    /\ UNCHANGED <<count, ttl, seen, cancels, rows>>

Register(r) ==
    \/ CanRegister(r) \/ EmailTaken(r) \/ NewEmail(r)
    \/ Record(r) \/ ExpireRecord(r) \/ Recorded(r)
    \/ Insert(r) \/ InsertRefused(r)

-----------------------------------------------------------------------------
\* The request ends where it is: a command fails, the client goes away or
\* TimeoutLayer drops the handler at an await.
Cancel(r) ==
    /\ InFlight(r)
    /\ cancels < MaxCancels
    /\ cancels' = cancels + 1
    /\ pc' = [pc EXCEPT ![r] = "idle"]
    /\ UNCHANGED <<count, ttl, seen, rows>>

Expiring == {k \in Keys : ttl[k] = 1}

\* One tick: expiries come nearer, and Redis drops the keys whose expiry has
\* come.
Tick ==
    /\ \E k \in Keys : ttl[k] > 0
    /\ ttl' = [k \in Keys |-> IF ttl[k] > 0 THEN ttl[k] - 1 ELSE 0]
    /\ count' = [k \in Keys |-> IF k \in Expiring THEN 0 ELSE count[k]]
    /\ rows' = [k \in Keys |-> IF k \in Expiring THEN 0 ELSE rows[k]]
    /\ UNCHANGED <<pc, seen, cancels>>

Next ==
    \/ \E r \in Requests : Login(r) \/ Register(r) \/ Cancel(r)
    \/ Tick

\* A handler that has begun goes on; nobody has to send a request.
Fairness ==
    /\ \A r \in Requests : WF_vars(InFlight(r) /\ (Login(r) \/ Register(r)))
    /\ WF_vars(Tick)

Spec == Init /\ [][Next]_vars /\ Fairness

-----------------------------------------------------------------------------
(* Properties                                                              *)

\* Where a request still has to raise a counter it found below the limit.
ToCount(k) == {r \in Requests :
    \/ k = UserKey /\ pc[r] \in {"not_locked", "verifying"}
    \/ k = IpKey[r] /\ pc[r] \in {"verifying", "user_counted", "user_recorded"}
    \/ k = RegisterKey[r] /\ pc[r] \in {"may_register", "hashed"}}

\* Where it has raised a counter and not yet set its expiry.
ToExpire(k) == {r \in Requests :
    \/ k = UserKey /\ pc[r] = "user_counted"
    \/ k = IpKey[r] /\ pc[r] = "ip_counted"
    \/ k = RegisterKey[r] /\ pc[r] = "counted"}

\* Where it has been counted as a registration and not yet made its user.
ToInsert(k) == {r \in Requests :
    k = RegisterKey[r] /\ pc[r] \in {"counted", "recorded"}}

\* Every variable has its type (services/users.rs:33-191).
TypeOK ==
    /\ count \in [Keys -> Nat]
    /\ ttl \in [Keys -> Nat] /\ \A k \in Keys : ttl[k] <= Ttl[k]
    /\ pc \in [Requests ->
        {"idle", "not_locked", "verifying", "user_counted", "user_recorded",
         "ip_counted", "user_cleared", "may_register", "hashed", "counted",
         "recorded"}]
    /\ seen \in [Requests -> Nat]
    /\ cancels \in 0..MaxCancels
    /\ rows \in [Keys -> Nat]

\* The check comes long before the count, and all requests that are between
\* the two have passed: a counter can go past its limit, by the requests that
\* can be under way at once but one and no more, whatever is deleted, expires
\* or ends in between (users.rs:108-141, user.rs:122-155).
OvershootBounded ==
    \A k \in Keys : count[k] < Limit[k] + Cardinality(Requests)

\* The users one address makes while its counter lasts are as many as the
\* counter says, and those counted before it expired: fewer than the limit
\* and twice the requests under way (users.rs:50-74).
RegistrationsBounded ==
    \A k \in Keys : rows[k] < Limit[k] + 2 * Cardinality(Requests)

\* A counter without an expiry has one on its way, unless a request was
\* cancelled, also when a login has deleted the key in between and others
\* have made it again (user.rs:136-152, 222-229).
ExpiryOnItsWay ==
    cancels = 0 =>
        \A k \in Keys : count[k] > 0 /\ ttl[k] = 0
                            => \E r \in ToExpire(k) : seen[r] = 1

\* So nobody is locked out for ever: a counter at its limit goes below it
\* again, as long as no request is cancelled (user.rs:174 and 187 answer
\* "temporarily locked" and "try again later").
LockEnds ==
    \A k \in Keys :
        count[k] >= Limit[k] /\ cancels = 0
            ~> count[k] < Limit[k] \/ cancels > 0
=============================================================================
