------------------------------ MODULE LinkCache ------------------------------
(***************************************************************************)
(* One short code and what GET /s/{code} answers: the row of links in      *)
(* MySQL, the copies under shortlink:{code} in Redis with their times to   *)
(* live, and everything that writes one of them: creating a link and the   *)
(* SetClickCount job it sends (services/shortlink.rs, create_shortlink),   *)
(* a redirect that misses the cache and fills it (get_long_url), deleting  *)
(* a link (models/link.rs, delete_links) and the scheduled purge of        *)
(* expired rows (delete_expired_links).  MySQL takes spellings that differ *)
(* by case for one code (create_table.sql leaves utf8mb4 its default       *)
(* collation), Redis has a key for each.  Codes that MySQL tells apart are *)
(* independent of each other; a code can be used again by a later link.    *)
(***************************************************************************)
EXTENDS Integers

CONSTANTS
    Spellings,    \* the spellings of the code
    Links,        \* links made with this code, in any order
    CodeOf,       \* the spelling a link is made with
    Redirects,    \* redirects of this code that can be under way at once
    Asked,        \* the spelling a redirect asks for
    Ttl,          \* the ttl each link is created with
    MaxCacheTtl,  \* redis_max_ttl
    MinCacheTtl,  \* redis_min_cache_ttl
    MaxDelay,     \* how long a request and the job it sent can take
    MaxTime,      \* bound: the clock stops here
    NoLink

ASSUME CacheAssumption ==
    /\ CodeOf \in [Links -> Spellings]
    /\ Asked \in [Redirects -> Spellings]
    /\ Ttl \in [Links -> Nat \ {0}]
    /\ MaxCacheTtl \in Nat \ {0}
    /\ MinCacheTtl \in Nat
    /\ MaxDelay \in Nat
    /\ MaxTime \in Nat
    /\ NoLink \notin Links

VARIABLES
    now,       \* the clock of the service, MySQL and Redis
    lpc,       \* how far each link is: its create request, then its job
    expires,   \* expire_at
    row,       \* link committed under the code
    cached,    \* link whose URL is in Redis under a spelling
    cexp,      \* when that key expires
    dpc,       \* where the delete transaction of the code is
    gone,      \* links deleted or purged
    rpc,       \* where each redirect is
    rlink,     \* link it has read
    rttl       \* ttl it computed for the cache

cacheVars    == <<cached, cexp>>
redirectVars == <<rpc, rlink, rttl>>
vars == <<now, lpc, expires, row, cached, cexp, dpc, gone, rpc, rlink, rttl>>

Init ==
    /\ now = 0
    /\ lpc = [l \in Links |-> "new"]
    /\ expires = [l \in Links |-> 0]
    /\ row = NoLink
    /\ cached = [s \in Spellings |-> NoLink]
    /\ cexp = [s \in Spellings |-> 0]
    /\ dpc = "idle"
    /\ gone = {}
    /\ rpc = [r \in Redirects |-> "idle"]
    /\ rlink = [r \in Redirects |-> NoLink]
    /\ rttl = [r \in Redirects |-> 0]

\* SET EX, with whatever was there.
SetEx(s, l, ttl) ==
    /\ cached' = [cached EXCEPT ![s] = l]
    /\ cexp' = [cexp EXCEPT ![s] = now + ttl]
\* Redis has the key until its expiry.
Hit(s) == cached[s] # NoLink /\ now < cexp[s]

-----------------------------------------------------------------------------
(* Creating a link                                                         *)

\* create_shortlink computes expire_at before anything else.
CreateStart(l) ==
    /\ lpc[l] = "new"
    /\ expires' = [expires EXCEPT ![l] = now + Ttl[l]]
    /\ lpc' = [lpc EXCEPT ![l] = "creating"]
    /\ UNCHANGED <<now, row, cacheVars, dpc, gone, redirectVars>>

\* The transaction commits; uk_short lets one link have the code, and waits
\* for an open delete of it.
CreateCommit(l) ==
    /\ lpc[l] = "creating"
    /\ row = NoLink
    /\ dpc = "idle"
    /\ row' = l
    /\ lpc' = [lpc EXCEPT ![l] = "made"]
    /\ UNCHANGED <<now, expires, cacheVars, dpc, gone, redirectVars>>

\* The code is taken, MySQL fails or the request is dropped: rolled back.
CreateFails(l) ==
    /\ lpc[l] = "creating"
    /\ lpc' = [lpc EXCEPT ![l] = "failed"]
    /\ UNCHANGED <<now, expires, row, cacheVars, dpc, gone, redirectVars>>

\* try_send of the SetClickCount job.
SendJob(l) ==
    /\ lpc[l] = "made"
    /\ lpc' = [lpc EXCEPT ![l] = "sent"]
    /\ UNCHANGED <<now, expires, row, cacheVars, dpc, gone, redirectVars>>

\* The job is never sent (the channel is full, the request is dropped after
\* its commit) or never run (no connection, a failed command, a restart).
LoseJob(l) ==
    /\ lpc[l] \in {"made", "sent"}
    /\ lpc' = [lpc EXCEPT ![l] = "settled"]
    /\ UNCHANGED <<now, expires, row, cacheVars, dpc, gone, redirectVars>>

\* cache_ttl: the link's ttl, capped, counted from when the job runs.
CacheTtl(l) == IF Ttl[l] > MaxCacheTtl THEN MaxCacheTtl ELSE Ttl[l]

\* Slip: the handler fills the cache before it commits.
CacheBeforeCommit(l) ==
    /\ lpc[l] = "creating"
    /\ SetEx(CodeOf[l], l, CacheTtl(l))
    /\ UNCHANGED <<now, lpc, expires, row, dpc, gone, redirectVars>>

\* The job runs, after any other jobs and requests; it looks at nothing.
RunJob(l) ==
    /\ lpc[l] = "sent"
    /\ lpc' = [lpc EXCEPT ![l] = "settled"]
    /\ SetEx(CodeOf[l], l, CacheTtl(l))
    /\ UNCHANGED <<now, expires, row, dpc, gone, redirectVars>>

-----------------------------------------------------------------------------
(* Redirects                                                               *)

Goto(r, to) == rpc' = [rpc EXCEPT ![r] = to]

\* Slip: GETEX, a hit that gives the key its whole ttl again.
GetHitRefreshes(r) ==
    /\ rpc[r] = "idle"
    /\ Hit(Asked[r])
    /\ Goto(r, "served")
    /\ rlink' = [rlink EXCEPT ![r] = cached[Asked[r]]]
    /\ SetEx(Asked[r], cached[Asked[r]], MaxCacheTtl)
    /\ UNCHANGED <<now, lpc, expires, row, dpc, gone, rttl>>

\* GET of the key of its spelling has a value: the redirect is answered.
GetHit(r) ==
    /\ rpc[r] = "idle"
    /\ Hit(Asked[r])
    /\ Goto(r, "served")
    /\ rlink' = [rlink EXCEPT ![r] = cached[Asked[r]]]
    /\ UNCHANGED <<now, lpc, expires, row, cacheVars, dpc, gone, rttl>>

GetMiss(r) ==
    /\ rpc[r] = "idle"
    /\ ~Hit(Asked[r])
    /\ Goto(r, "missed")
    /\ UNCHANGED <<now, lpc, expires, row, cacheVars, dpc, gone, rlink, rttl>>

\* SELECT long_url, expire_at: the last commit, an open delete or not, however
\* the code is spelt.
Select(r) ==
    /\ rpc[r] = "missed"
    /\ row # NoLink
    /\ Goto(r, "selected")
    /\ rlink' = [rlink EXCEPT ![r] = row]
    /\ UNCHANGED <<now, lpc, expires, row, cacheVars, dpc, gone, rttl>>

\* The time left: an expired link is not found, and one about to expire is
\* answered but not cached.
Remaining(r) == expires[rlink[r]] - now

CheckFill(r) ==
    /\ rpc[r] = "selected"
    /\ Remaining(r) > 0
    /\ Remaining(r) > MinCacheTtl
    /\ Goto(r, "filling")
    /\ rttl' = [rttl EXCEPT ![r] = Remaining(r)]
    /\ UNCHANGED <<now, lpc, expires, row, cacheVars, dpc, gone, rlink>>

\* Slip: only the cache is kept from a link that has expired.
CheckServeExpired(r) ==
    /\ rpc[r] = "selected"
    /\ ~(Remaining(r) > MinCacheTtl)
    /\ Goto(r, "served")
    /\ UNCHANGED <<now, lpc, expires, row, cacheVars, dpc, gone, rlink, rttl>>

\* One that has not, but soon will.
CheckServe(r) ==
    /\ rpc[r] = "selected"
    /\ Remaining(r) > 0
    /\ ~(Remaining(r) > MinCacheTtl)
    /\ Goto(r, "served")
    /\ UNCHANGED <<now, lpc, expires, row, cacheVars, dpc, gone, rlink, rttl>>

\* SET EX with the ttl computed before, under the spelling asked for.
Fill(r) ==
    /\ rpc[r] = "filling"
    /\ SetEx(Asked[r], rlink[r], rttl[r])
    /\ Goto(r, "served")
    /\ UNCHANGED <<now, lpc, expires, row, dpc, gone, rlink, rttl>>

\* The redirect is over: answered, not found, expired, failed or dropped.
\* Without an answer it may end anywhere.
Done(r) ==
    /\ rpc[r] # "idle"
    /\ Goto(r, "idle")
    /\ rlink' = [rlink EXCEPT ![r] = NoLink]
    /\ rttl' = [rttl EXCEPT ![r] = 0]
    /\ UNCHANGED <<now, lpc, expires, row, cacheVars, dpc, gone>>

-----------------------------------------------------------------------------
(* Deleting and purging                                                    *)

\* DELETE FROM links, in a transaction that locks the row.
DeleteRow ==
    /\ dpc = "idle"
    /\ row # NoLink
    /\ dpc' = "deleting"
    /\ UNCHANGED <<now, lpc, expires, row, cacheVars, gone, redirectVars>>

\* UNLINK shortlink:{code}, before the commit: the spelling of the row.
Unlink ==
    /\ dpc = "deleting"
    /\ dpc' = "unlinked"
    /\ cached' = [cached EXCEPT ![CodeOf[row]] = NoLink]
    /\ cexp' = [cexp EXCEPT ![CodeOf[row]] = 0]
    /\ UNCHANGED <<now, lpc, expires, row, gone, redirectVars>>

CommitDelete ==
    /\ dpc = "unlinked"
    /\ dpc' = "idle"
    /\ row' = NoLink
    /\ gone' = gone \union {row}
    /\ UNCHANGED <<now, lpc, expires, cacheVars, redirectVars>>

\* Slip: an error of the commit is not looked at, and the link said deleted.
AbortDeleteUnnoticed ==
    /\ dpc # "idle"
    /\ dpc' = "idle"
    /\ gone' = gone \union {row}
    /\ UNCHANGED <<now, lpc, expires, row, cacheVars, redirectVars>>

\* Something fails: the transaction is rolled back.
AbortDelete ==
    /\ dpc # "idle"
    /\ dpc' = "idle"
    /\ UNCHANGED <<now, lpc, expires, row, cacheVars, gone, redirectVars>>

\* DELETE FROM links WHERE expire_at < NOW(): Redis is left as it is.
Purge ==
    /\ dpc = "idle"
    /\ row # NoLink
    /\ expires[row] < now
    /\ row' = NoLink
    /\ gone' = gone \union {row}
    /\ UNCHANGED <<now, lpc, expires, cacheVars, dpc, redirectVars>>

-----------------------------------------------------------------------------
(* Time.  A create and its job take MaxDelay at most, from the computing of *)
(* expire_at on, and so does a redirect from the computing of its ttl on.   *)

InTime(l) == lpc[l] \in {"creating", "made", "sent"} => now < expires[l] - Ttl[l] + MaxDelay
FillInTime(r) == rpc[r] = "filling" => now < expires[rlink[r]] - rttl[r] + MaxDelay

Tick ==
    /\ now < MaxTime
    /\ \A l \in Links : InTime(l)
    /\ \A r \in Redirects : FillInTime(r)
    /\ now' = now + 1
    /\ UNCHANGED <<lpc, expires, row, cacheVars, dpc, gone, redirectVars>>

Next ==
    \/ \E l \in Links : \/ CreateStart(l) \/ CreateCommit(l) \/ CreateFails(l)
                        \/ SendJob(l) \/ LoseJob(l) \/ RunJob(l)
    \/ \E r \in Redirects : \/ GetHit(r) \/ GetMiss(r) \/ Select(r) \/ CheckFill(r)
                            \/ CheckServe(r) \/ Fill(r) \/ Done(r)
    \/ DeleteRow \/ Unlink \/ CommitDelete \/ AbortDelete \/ Purge
    \/ Tick

Spec == Init /\ [][Next]_vars

-----------------------------------------------------------------------------
(* Properties                                                              *)

\* Every variable has its type; a delete has a row to delete, since it locks it
\* (link.rs:541-561), and a redirect that goes on to answer has a link.
TypeOK ==
    /\ now \in Nat
    /\ lpc \in [Links -> {"new", "creating", "failed", "made", "sent", "settled"}]
    /\ expires \in [Links -> Nat]
    /\ row \in Links \union {NoLink}
    /\ cached \in [Spellings -> Links \union {NoLink}]
    /\ cexp \in [Spellings -> Nat]
    /\ dpc \in {"idle", "deleting", "unlinked"}
    /\ dpc # "idle" => row # NoLink
    /\ gone \subseteq Links
    /\ rpc \in [Redirects -> {"idle", "missed", "selected", "filling", "served"}]
    /\ rlink \in [Redirects -> Links \union {NoLink}]
    /\ \A r \in Redirects : rpc[r] \in {"selected", "filling", "served"} => rlink[r] # NoLink
    /\ rttl \in [Redirects -> Nat]

Committed(l) == lpc[l] \in {"made", "sent", "settled"}
Serves(r, l) == rpc[r] # "served" /\ rpc'[r] = "served" /\ rlink'[r] = l

\* A redirect only ever leads where a committed create said: no URL of a
\* create that is rolled back gets into the cache or out to a client, although
\* job, row and cache are written by three parties (shortlink.rs:100-123).
ServesCommitted ==
    [][\A r \in Redirects, l \in Links : Serves(r, l) => Committed(l)]_vars

\* The cache outlives a link by no more than the time its job, or the request
\* that filled it, was under way, under the spellings no UNLINK reaches too:
\* neither the purge of the row nor the cap on the ttl is needed for that
\* (shortlink.rs:105-113 and 191-208).
StaleBounded ==
    \A s \in Spellings : cached[s] # NoLink => cexp[s] <= expires[cached[s]] + MaxDelay

\* So an expired link, purged or not, is answered for MaxDelay at most.
ServesFresh ==
    [][\A r \in Redirects, l \in Links : Serves(r, l) => now < expires[l] + MaxDelay]_vars

\* A deleted or purged link nobody has in hand, no key that has not expired,
\* under any spelling, no job and no redirect, never comes back.
Settled(l) ==
    /\ l \in gone
    /\ \A s \in Spellings : Hit(s) => cached[s] # l
    /\ lpc[l] = "settled"
    /\ \A r \in Redirects : rlink[r] # l

GoneForGood == [][\A l \in Links : Settled(l) => Settled(l)']_vars
=============================================================================
