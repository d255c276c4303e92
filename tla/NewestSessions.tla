--------------------------- MODULE NewestSessions ---------------------------
(***************************************************************************)
(* What the sessions of a user look like from outside, without tokens,     *)
(* keys, the list and time: logins open sessions, and a request is let     *)
(* through with one that is open.  Sessions close oldest first: because    *)
(* their time is over, or one at a time for a new one, when there are as   *)
(* many as the limit.  There are never more than the largest limit so far. *)
(***************************************************************************)
EXTENDS Integers, Sequences, FiniteSets

CONSTANTS Logins, Limits

VARIABLES
    made,     \* sessions in the order they were made
    open,     \* those that are open
    limit,    \* how many a user is promised
    most,     \* the largest limit so far
    accepted  \* the session a request has been let through with: one or none

vars == <<made, open, limit, most, accepted>>

Init ==
    /\ made = <<>>
    /\ open = {}
    /\ limit \in Limits
    /\ most = limit
    /\ accepted = {}

Older(s, t) == \E i, j \in DOMAIN made : i < j /\ made[i] = s /\ made[j] = t

\* A set of sessions that closes before the other open ones.
Oldest(S) == S \subseteq open /\ \A s \in S, t \in open \ S : Older(s, t)

\* Room for a new session, at once or in the place of the oldest.
Open(s) ==
    /\ \A i \in DOMAIN made : made[i] # s
    /\ made' = Append(made, s)
    /\ \/ open' = open \cup {s}
       \/ \E o \in open : /\ Oldest({o})
                          /\ Cardinality(open) >= limit
                          /\ open' = (open \ {o}) \cup {s}
    /\ Cardinality(open') <= most
    /\ UNCHANGED <<limit, most, accepted>>

Expire ==
    /\ \E S \in SUBSET open : Oldest(S) /\ open' = open \ S
    /\ UNCHANGED <<made, limit, most, accepted>>

Accept(s) ==
    /\ accepted = {}
    /\ s \in open
    /\ accepted' = {s}
    /\ UNCHANGED <<made, open, limit, most>>

End ==
    /\ accepted' = {}
    /\ UNCHANGED <<made, open, limit, most>>

\* The service is restarted with another limit, which closes no session.
Relimit(l) ==
    /\ limit' = l
    /\ most' = IF l > most THEN l ELSE most
    /\ accepted' = {}
    /\ UNCHANGED <<made, open>>

Next ==
    \/ \E s \in Logins : Open(s) \/ Accept(s)
    \/ \E l \in Limits : Relimit(l)
    \/ Expire
    \/ End

Spec == Init /\ [][Next]_vars
=============================================================================
