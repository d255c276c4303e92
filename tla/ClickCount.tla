----------------------------- MODULE ClickCount -----------------------------
(***************************************************************************)
(* The click counts of links: a Redis counter per short code, created with *)
(* a time to live when the link is made (SetClickCount), incremented by    *)
(* the job of every visit (in_click_count), added to links.click_count and *)
(* set back to 0 by the scheduled SyncClick job (sync_click_counts), and   *)
(* unlinked when the link is deleted (delete_links), all in                *)
(* models/link.rs.  GET, UPDATE and SET of the sync are three commands.    *)
(* At most one SyncClick job runs at a time: JobQueueProofs!SingleFlight.  *)
(***************************************************************************)
EXTENDS Integers, FiniteSets

CONSTANTS
    Codes,       \* short codes, each of one link
    Visits,      \* visits whose job is run
    CodeOf,      \* the code of a visit
    MaxFailures, \* bound: failed commands and restarts of the service
    NoCode

ASSUME ClickAssumption ==
    /\ CodeOf \in [Visits -> Codes]
    /\ MaxFailures \in Nat
    /\ NoCode \notin Codes

VARIABLES
    key,        \* shortlink_click:{code}: none, expiring, or lasting (no TTL)
    counter,    \* its value; 0 when there is none
    unset,      \* codes whose SetClickCount job has not run
    vpc,        \* whether the job of a visit has incremented
    cpc,        \* where the sync job is
    owed,       \* keys there when the scan began: it returns them all
    scanned,    \* keys it has returned
    code,       \* key being synced
    got,        \* value its GET returned
    clickCount, \* links.click_count
    row,        \* whether the link's row is there, being deleted or gone
    failures,
    clicks,     \* history: increments of a code
    raced,      \* history: codes incremented between a GET and its SET
    dropped     \* history: codes whose key went with its clicks

keyVars  == <<key, counter>>
syncVars == <<cpc, owed, scanned, code, got>>
history  == <<clicks, raced, dropped>>
vars == <<key, counter, unset, vpc, cpc, owed, scanned, code, got, clickCount, row,
          failures, clicks, raced, dropped>>

Present == {c \in Codes : key[c] # "none"}

Init ==
    /\ key = [c \in Codes |-> "none"]
    /\ counter = [c \in Codes |-> 0]
    /\ unset = Codes
    /\ vpc = [v \in Visits |-> "queued"]
    /\ cpc = "idle"
    /\ owed = {} /\ scanned = {}
    /\ code = NoCode /\ got = 0
    /\ clickCount = [c \in Codes |-> 0]
    /\ row = [c \in Codes |-> "there"]
    /\ failures = 0
    /\ clicks = [c \in Codes |-> 0]
    /\ raced = {}
    /\ dropped = {}

\* Failures are bounded.
Fails == failures < MaxFailures /\ failures' = failures + 1

-----------------------------------------------------------------------------
(* The jobs of the requests                                                *)

\* Slip: SET without NX.
SetClickCountAlways(c) ==
    /\ c \in unset
    /\ unset' = unset \ {c}
    /\ key' = [key EXCEPT ![c] = "expiring"]
    /\ counter' = [counter EXCEPT ![c] = 0]
    /\ UNCHANGED <<vpc, syncVars, clickCount, row, failures, history>>

\* SET key 0 NX EX cache_ttl: the first increment may have come before it.
SetClickCount(c) ==
    /\ c \in unset
    /\ unset' = unset \ {c}
    /\ key' = IF key[c] = "none" THEN [key EXCEPT ![c] = "expiring"] ELSE key
    /\ UNCHANGED <<counter, vpc, syncVars, clickCount, row, failures, history>>

\* INCR: a key that is not there is made, without a TTL.  An increment between
\* the GET and the SET of the sync is one the SET takes away.
IncrClick(v) ==
    LET c == CodeOf[v] IN
    /\ vpc[v] = "queued"
    /\ vpc' = [vpc EXCEPT ![v] = "counted"]
    /\ key' = IF key[c] = "none" THEN [key EXCEPT ![c] = "lasting"] ELSE key
    /\ counter' = [counter EXCEPT ![c] = @ + 1]
    /\ clicks' = [clicks EXCEPT ![c] = @ + 1]
    /\ raced' = IF code = c THEN raced \union {c} ELSE raced
    /\ UNCHANGED <<unset, syncVars, clickCount, row, failures, dropped>>

\* An INCR that fails is only logged; so ends a job the service is stopped
\* before.
IncrFails(v) ==
    /\ vpc[v] = "queued"
    /\ Fails
    /\ vpc' = [vpc EXCEPT ![v] = "lost"]
    /\ UNCHANGED <<keyVars, unset, syncVars, clickCount, row, history>>

\* Redis drops a key whose TTL is over, with the clicks in it.
KeyExpires(c) ==
    /\ key[c] = "expiring"
    /\ key' = [key EXCEPT ![c] = "none"]
    /\ counter' = [counter EXCEPT ![c] = 0]
    /\ dropped' = IF counter[c] > 0 THEN dropped \union {c} ELSE dropped
    /\ UNCHANGED <<unset, vpc, syncVars, clickCount, row, failures, clicks, raced>>

-----------------------------------------------------------------------------
(* The sync job                                                            *)

\* SCAN from cursor 0.  It returns every key that is there throughout, and may
\* return keys made meanwhile; that it can return a key twice is left out.
SyncStart ==
    /\ cpc = "idle"
    /\ cpc' = "scanning"
    /\ owed' = Present
    /\ scanned' = {}
    /\ UNCHANGED <<keyVars, unset, vpc, code, got, clickCount, row, failures, history>>

\* GET of a key the scan returned: nothing is done for a key that is gone or 0.
ReadKey(c) ==
    /\ cpc = "scanning"
    /\ c \in (owed \union Present) \ scanned
    /\ scanned' = scanned \union {c}
    /\ IF counter[c] > 0
       THEN cpc' = "updating" /\ code' = c /\ got' = counter[c]
       ELSE UNCHANGED <<cpc, code, got>>
    /\ UNCHANGED <<keyVars, unset, vpc, owed, clickCount, row, failures, history>>

\* UPDATE links SET click_count = click_count + got: no row, no update.  It
\* waits for an open delete transaction, which has locked the row.
UpdateClicks ==
    /\ cpc = "updating"
    /\ row[code] \in {"there", "gone"}
    /\ cpc' = "resetting"
    /\ clickCount' = IF row[code] = "there"
                     THEN [clickCount EXCEPT ![code] = @ + got] ELSE clickCount
    /\ UNCHANGED <<keyVars, unset, vpc, owed, scanned, code, got, row, failures, history>>

\* Slip: a SET of another key.
ResetKeyMisses ==
    /\ cpc = "resetting"
    /\ cpc' = "scanning"
    /\ code' = NoCode /\ got' = 0
    /\ UNCHANGED <<keyVars, unset, vpc, owed, scanned, clickCount, row, failures, history>>

\* SET key 0, which also takes the TTL away, or makes the key again.
ResetKey ==
    /\ cpc = "resetting"
    /\ key' = [key EXCEPT ![code] = "lasting"]
    /\ counter' = [counter EXCEPT ![code] = 0]
    /\ cpc' = "scanning"
    /\ code' = NoCode /\ got' = 0
    /\ UNCHANGED <<unset, vpc, owed, scanned, clickCount, row, failures, history>>

\* The job is over and what it had read forgotten.
SyncEnds == /\ cpc' = "idle"
            /\ owed' = {} /\ scanned' = {}
            /\ code' = NoCode /\ got' = 0

\* Slip: the cursor is not followed.
ScanEndsEarly ==
    /\ cpc = "scanning"
    /\ SyncEnds
    /\ UNCHANGED <<keyVars, unset, vpc, clickCount, row, failures, history>>

\* The cursor is 0 again.
ScanEnds ==
    /\ cpc = "scanning"
    /\ owed \subseteq scanned
    /\ SyncEnds
    /\ UNCHANGED <<keyVars, unset, vpc, clickCount, row, failures, history>>

\* A command fails and ends the job, or the service stops under it.
SyncFails ==
    /\ cpc # "idle"
    /\ Fails
    /\ SyncEnds
    /\ UNCHANGED <<keyVars, unset, vpc, clickCount, row, history>>

-----------------------------------------------------------------------------
(* Deleting a link                                                         *)

\* DELETE FROM links, then UNLINK in the same transaction.  The UNLINK takes
\* effect at once.
DeleteLink(c) ==
    /\ row[c] = "there"
    /\ row' = [row EXCEPT ![c] = "deleting"]
    /\ UNCHANGED <<keyVars, unset, vpc, syncVars, clickCount, failures, history>>

Unlink(c) ==
    /\ row[c] = "deleting"
    /\ key' = [key EXCEPT ![c] = "none"]
    /\ counter' = [counter EXCEPT ![c] = 0]
    /\ row' = [row EXCEPT ![c] = "unlinked"]
    /\ dropped' = dropped \union {c}
    /\ UNCHANGED <<unset, vpc, syncVars, clickCount, failures, clicks, raced>>

CommitDelete(c) ==
    /\ row[c] = "unlinked"
    /\ row' = [row EXCEPT ![c] = "gone"]
    /\ UNCHANGED <<keyVars, unset, vpc, syncVars, clickCount, failures, history>>

\* UNLINK or COMMIT fails: the row is back, what was unlinked is not.
AbortDelete(c) ==
    /\ row[c] \in {"deleting", "unlinked"}
    /\ Fails
    /\ row' = [row EXCEPT ![c] = "there"]
    /\ UNCHANGED <<keyVars, unset, vpc, syncVars, clickCount, history>>

\* The scheduled DeleteExpired job: the row goes, the Redis keys stay.
PurgeExpired(c) ==
    /\ row[c] = "there"
    /\ row' = [row EXCEPT ![c] = "gone"]
    /\ UNCHANGED <<keyVars, unset, vpc, syncVars, clickCount, failures, history>>

-----------------------------------------------------------------------------
SyncStep == \/ SyncStart \/ UpdateClicks \/ ResetKey \/ ScanEnds
            \/ \E c \in Codes : ReadKey(c)

Next ==
    \/ \E c \in Codes : SetClickCount(c) \/ KeyExpires(c)
    \/ \E v \in Visits : IncrClick(v) \/ IncrFails(v)
    \/ SyncStep \/ SyncFails
    \/ \E c \in Codes : \/ DeleteLink(c) \/ Unlink(c) \/ CommitDelete(c) \/ AbortDelete(c)
                     \/ PurgeExpired(c)

Spec == Init /\ [][Next]_vars

\* The sync job is started again and again, as it is unless one of its tasks
\* got no connection (JobQueue!ClaimSettles), and goes on while MySQL and Redis
\* answer; a delete transaction ends.
FairSpec ==
    /\ Spec
    /\ WF_vars(SyncStep)
    /\ \A c \in Codes : WF_vars(Unlink(c) \/ CommitDelete(c) \/ AbortDelete(c))

-----------------------------------------------------------------------------
(* Properties                                                              *)

\* Every variable has its type, and the sync job has a key in hand exactly
\* while it is between its GET and its SET (link.rs:275-309).
TypeOK ==
    /\ key \in [Codes -> {"none", "expiring", "lasting"}]
    /\ counter \in [Codes -> Nat]
    /\ unset \subseteq Codes
    /\ vpc \in [Visits -> {"queued", "counted", "lost"}]
    /\ cpc \in {"idle", "scanning", "updating", "resetting"}
    /\ owed \subseteq Codes /\ scanned \subseteq Codes
    /\ code \in Codes \union {NoCode}
    /\ got \in Nat
    /\ cpc \in {"updating", "resetting"} <=> code # NoCode
    /\ clickCount \in [Codes -> Nat]
    /\ row \in [Codes -> {"there", "deleting", "unlinked", "gone"}]
    /\ failures \in 0..MaxFailures
    /\ clicks \in [Codes -> Nat]
    /\ raced \subseteq Codes /\ dropped \subseteq Codes

\* What MySQL has added but the counter still shows: the sync is between its
\* UPDATE and its SET.
CountedTwice(c) == IF cpc = "resetting" /\ code = c THEN got ELSE 0

\* As long as nothing fails, clicks of a link can only be lost in two ways:
\* by an increment between the GET and the SET of a sync, and with a counter
\* that expires or is unlinked.  Otherwise MySQL and the counter together
\* always have every click, and none twice (link.rs:273-312).
Accounted ==
    \A c \in Codes :
        failures = 0 /\ row[c] = "there" /\ c \notin raced \union dropped
            => clickCount[c] + counter[c] = clicks[c] + CountedTwice(c)

\* However the sync, the visits and a delete interleave, MySQL never has more
\* clicks than there were unless a sync failed after its UPDATE, and each
\* failure adds what the counter had at most once more.
OvercountBounded ==
    \A c \in Codes : clickCount[c] <= (failures + 1) * clicks[c]

\* Every counter is brought back to 0: the scan reaches every key.
CountersDrain == \A c \in Codes : counter[c] > 0 ~> counter[c] = 0
=============================================================================
