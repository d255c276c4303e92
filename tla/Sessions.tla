------------------------------ MODULE Sessions ------------------------------
(***************************************************************************)
(* The sessions of one user: the script of models/session.rs that a login  *)
(* runs (services/users.rs), which keeps one key per session and a list of *)
(* them, and the check every protected request passes (middleware/auth.rs).*)
(* A session is named by its jti, and the login that makes it by the       *)
(* session.  The service can be restarted with another user_token_limit.   *)
(***************************************************************************)
EXTENDS Integers, Sequences, FiniteSets, SequencesExt

CONSTANTS
    Logins,    \* logins, and the sessions they make: a bound
    Limits,    \* values of user_token_limit
    Ttl,       \* user_token_ttl, in ticks
    MaxFlight, \* global_timeout_ms, in ticks: how long a login can take
    Leeway     \* ticks by which jsonwebtoken accepts a token too late

ASSUME SessionsAssumption ==
    /\ Limits \subseteq Nat \ {0}
    /\ Ttl \in Nat \ {0}
    /\ MaxFlight \in Nat
    /\ Leeway \in Nat

VARIABLES
    limit,   \* user_token_limit of the running service
    pc,      \* where each login is
    exp,     \* ticks until its token expires
    key,     \* ticks until session:<jti> expires; 0 when there is none
    list,    \* user_sessions:<user>, oldest first
    req,     \* where a request is in jwt_auth, and whose token it brings
    wasLive, \* history: whether the session was there when it came
    made,    \* history: the sessions in the order they were made
    due,     \* history: ticks until the session would expire by itself
    low,     \* history: the smallest limit so far
    top      \* history: the largest limit so far

vars == <<limit, pc, exp, key, list, req, wasLive, made, due, low, top>>

Init ==
    /\ limit \in Limits
    /\ pc = [s \in Logins |-> "none"]
    /\ exp = [s \in Logins |-> 0]
    /\ key = [s \in Logins |-> 0]
    /\ list = <<>>
    /\ req = <<"none">>
    /\ wasLive = FALSE
    /\ made = <<>>
    /\ due = [s \in Logins |-> 0]
    /\ low = limit
    /\ top = limit

Live(s) == key[s] > 0

-----------------------------------------------------------------------------
(* login, once the password was right                                      *)

\* The token's expiry is computed and the session is named.
Sign(s) ==
    /\ pc[s] = "none"
    /\ pc' = [pc EXCEPT ![s] = "signed"]
    /\ exp' = [exp EXCEPT ![s] = Ttl]
    /\ UNCHANGED <<limit, key, list, req, wasLive, made, due, low, top>>

\* Slip: the popped session is not deleted.
ScriptKeepsKey(s, pushed, over) ==
    /\ pc[s] = "signed"
    /\ pc' = [pc EXCEPT ![s] = "made"]
    /\ list' = IF over THEN Tail(pushed) ELSE pushed
    /\ key' = [key EXCEPT ![s] = Ttl]
    /\ made' = Append(made, s)
    /\ due' = [due EXCEPT ![s] = Ttl]
    /\ UNCHANGED <<limit, exp, req, wasLive, low, top>>

\* Slip: RPOP.
ScriptPopsLast(s, pushed, over) ==
    /\ pc[s] = "signed"
    /\ pc' = [pc EXCEPT ![s] = "made"]
    /\ list' = IF over THEN Front(pushed) ELSE pushed
    /\ key' = [t \in Logins |-> IF over /\ t = Last(pushed) THEN 0
                                ELSE IF t = s THEN Ttl ELSE key[t]]
    /\ made' = Append(made, s)
    /\ due' = [due EXCEPT ![s] = Ttl]
    /\ UNCHANGED <<limit, exp, req, wasLive, low, top>>

\* The script, as one step: SET EX, and once the list has been pushed and is
\* over the limit, LPOP and DEL.
Script(s, pushed, over) ==
    /\ pc[s] = "signed"
    /\ pc' = [pc EXCEPT ![s] = "made"]
    /\ list' = IF over THEN Tail(pushed) ELSE pushed
    /\ key' = [t \in Logins |-> IF over /\ t = Head(pushed) THEN 0
                                ELSE IF t = s THEN Ttl ELSE key[t]]
    /\ made' = Append(made, s)
    /\ due' = [due EXCEPT ![s] = Ttl]
    /\ UNCHANGED <<limit, exp, req, wasLive, low, top>>

\* Slip: LPUSH.
CreateSessionFirst(s) == Script(s, <<s>> \o list, Len(list) + 1 > limit)

\* Slip: one session fewer than the limit.
CreateSessionFewer(s) == Script(s, Append(list, s), Len(list) + 1 >= limit)

\* create_session
CreateSession(s) == Script(s, Append(list, s), Len(list) + 1 > limit)

\* The JWT is encoded, the counters are deleted and the user has the token.
Answer(s) ==
    /\ pc[s] = "made"
    /\ pc' = [pc EXCEPT ![s] = "answered"]
    /\ UNCHANGED <<limit, exp, key, list, req, wasLive, made, due, low, top>>

\* A command fails, or the handler is dropped: nobody has the token, and the
\* session, if it was made, stays.
LoginFails(s) ==
    /\ pc[s] \in {"signed", "made"}
    /\ pc' = [pc EXCEPT ![s] = "failed"]
    /\ UNCHANGED <<limit, exp, key, list, req, wasLive, made, due, low, top>>

-----------------------------------------------------------------------------
(* jwt_auth                                                                *)

\* A request comes with a token that has not expired, by more than Leeway.
Decode(s) ==
    /\ pc[s] = "answered"
    /\ req = <<"none">>
    /\ exp[s] >= -Leeway
    /\ req' = <<"decoded", s>>
    /\ wasLive' = Live(s)
    /\ UNCHANGED <<limit, pc, exp, key, list, made, due, low, top>>

\* Slip: a session that is not there, but in the list, is taken for one.
FindListed(s) ==
    /\ req = <<"decoded", s>>
    /\ s \in ToSet(list)
    /\ req' = <<"session_found", s>>
    /\ UNCHANGED <<limit, pc, exp, key, list, wasLive, made, due, low, top>>

\* EXISTS session:<jti>
FindSession(s) ==
    /\ req = <<"decoded", s>>
    /\ Live(s)
    /\ req' = <<"session_found", s>>
    /\ UNCHANGED <<limit, pc, exp, key, list, wasLive, made, due, low, top>>

\* The user is found and enabled: next.run(req)
Admit(s) ==
    /\ req = <<"session_found", s>>
    /\ req' = <<"admitted", s>>
    /\ UNCHANGED <<limit, pc, exp, key, list, wasLive, made, due, low, top>>

\* The request has been served, or is refused, because the session is not
\* there or the user is gone or disabled, or fails.
EndRequest(s) ==
    /\ req \in {"decoded", "session_found", "admitted"} \X {s}
    /\ req' = <<"none">>
    /\ wasLive' = FALSE
    /\ UNCHANGED <<limit, pc, exp, key, list, made, due, low, top>>

-----------------------------------------------------------------------------
\* The service stops, whatever was under way, and comes back with limit l.
Restart(l) ==
    /\ limit' = l
    /\ low' = IF l < low THEN l ELSE low
    /\ top' = IF l > top THEN l ELSE top
    /\ pc' = [s \in Logins |->
                 IF pc[s] \in {"signed", "made"} THEN "failed" ELSE pc[s]]
    /\ req' = <<"none">>
    /\ wasLive' = FALSE
    /\ UNCHANGED <<exp, key, list, made, due>>

Less(n) == IF n > 0 THEN n - 1 ELSE 0

\* Slip: a login can take any time.
TickUntimed ==
    /\ exp' = [s \in Logins |-> IF pc[s] # "none" /\ exp[s] >= -Leeway
                                THEN exp[s] - 1 ELSE exp[s]]
    /\ key' = [s \in Logins |-> Less(key[s])]
    /\ due' = [s \in Logins |-> Less(due[s])]
    /\ UNCHANGED <<limit, pc, list, req, wasLive, made, low, top>>

\* One tick: expiries come nearer.  A login does not take longer than the
\* global timeout.
Tick ==
    /\ \A s \in Logins : pc[s] = "signed" => Ttl - exp[s] < MaxFlight
    /\ exp' = [s \in Logins |-> IF pc[s] # "none" /\ exp[s] >= -Leeway
                                THEN exp[s] - 1 ELSE exp[s]]
    /\ key' = [s \in Logins |-> Less(key[s])]
    /\ due' = [s \in Logins |-> Less(due[s])]
    /\ UNCHANGED <<limit, pc, list, req, wasLive, made, low, top>>

Next ==
    \/ \E s \in Logins :
        \/ Sign(s) \/ CreateSession(s) \/ Answer(s) \/ LoginFails(s)
        \/ Decode(s) \/ FindSession(s) \/ Admit(s) \/ EndRequest(s)
    \/ \E l \in Limits : Restart(l)
    \/ Tick

Spec == Init /\ [][Next]_vars

-----------------------------------------------------------------------------
(* Properties                                                              *)

\* Every variable has its type (models/session.rs:7-57).
TypeOK ==
    /\ {limit, low, top} \subseteq Limits
    /\ pc \in [Logins -> {"none", "signed", "made", "answered", "failed"}]
    /\ exp \in [Logins -> (-Leeway - 1)..Ttl]
    /\ key \in [Logins -> 0..Ttl]
    /\ list \in Seq(Logins)
    /\ req \in {<<"none">>} \cup {"decoded", "session_found", "admitted"} \X Logins
    /\ wasLive \in BOOLEAN
    /\ made \in Seq(Logins)
    /\ due \in [Logins -> 0..Ttl]

\* The script pops one session per login and no more, so after the limit was
\* lowered there can be more live sessions than it allows; but every live
\* session is in the list, where a later login can reach it, and the list is
\* never longer than the largest limit the service has had
\* (session.rs:22-31; tests/token_auth.rs:59: "at most 3 tokens at a time").
LiveBounded ==
    /\ \A s \in Logins : Live(s) => s \in ToSet(list)
    /\ Len(list) <= top

\* Who logged in last stays logged in: of the sessions made last, as many as
\* the smallest limit so far, each is live until it expires by itself,
\* whatever logins run at once, fail half way or end with the service
\* (session.rs:23-31).
NewestLive ==
    \A i \in DOMAIN made :
        i > Len(made) - low /\ due[made[i]] > 0 => Live(made[i])

\* A session that has expired, and is still in the list, never costs a live
\* one its place: when a live session is evicted, as many live ones as the
\* limit allows remain (session.rs:26-30).
EvictedByLive ==
    [][\A s \in Logins :
          key[s] > 1 /\ key'[s] = 0
              => Cardinality({t \in Logins : key'[t] > 0}) >= limit]_vars

\* A request is let through only if its session was there when it came: no
\* session comes back, and none is made by the check (auth.rs:46-74).
AdmittedWasLive ==
    req \in {"session_found", "admitted"} \X Logins => wasLive

\* The token, whose expiry is computed before the session is made, never
\* expires before its session by more than the library forgives, as long as
\* a login may not take longer than that: who is refused is refused because
\* the session is gone (users.rs:147-168, auth.rs:26-34).
LiveTokenDecodes == \A s \in Logins : Live(s) => exp[s] >= -Leeway

\* With the sessions whose key is there as the open ones, and a request let
\* through by EXISTS (auth.rs:57-72), all this is what NewestSessions says:
\* whatever logins run at once, fail or expire, the script closes the oldest
\* session, and only one, and only when there are as many as the limit
\* (session.rs:21-33).
AcceptedSession == {s \in Logins : req \in {"session_found", "admitted"} \X {s}}
N == INSTANCE NewestSessions
         WITH open <- {s \in Logins : Live(s)}, most <- top, accepted <- AcceptedSession
ImplementsNewestSessions == N!Spec
=============================================================================
