------------------------------ MODULE VisitLog ------------------------------
(***************************************************************************)
(* The way of a visit from a redirect to the visit_logs table: a           *)
(* PushClickAndLog job appends it to the Redis stream visit_log            *)
(* (models/link.rs, log_visit_to_stream); the scheduled SyncVisitLog job   *)
(* copies the stream to MySQL, entry by entry, inserting the row and then  *)
(* deleting the entry (sync_visit_logs); deleting a link deletes its rows  *)
(* (delete_links).  At most one SyncVisitLog job runs at a time:           *)
(* JobQueueProofs!SingleFlight.                                            *)
(***************************************************************************)
EXTENDS Integers, FiniteSets

CONSTANTS
    Visits,      \* visits whose job is run
    Codes,       \* short codes
    CodeOf,      \* the code of a visit
    Refused,     \* visits whose row MySQL refuses (a value too long for its column)
    Batch,       \* entries read at once (100 in background_jobs.rs)
    MaxFailures, \* bound: failed commands and restarts of the service
    NoVisit, NoCode

ASSUME VisitAssumption ==
    /\ CodeOf \in [Visits -> Codes]
    /\ Refused \subseteq Visits
    /\ Batch \in Nat \ {0}
    /\ MaxFailures \in Nat
    /\ NoVisit \notin Visits /\ NoCode \notin Codes

VARIABLES
    vpc,       \* whether the job of a visit has run, and its XADD succeeded
    stream,    \* visits in the stream
    id,        \* entry ids, in the order of the XADDs; 0 for none
    nextId,
    lpc,       \* where the sync job is
    batch,     \* entries read and not yet dealt with
    current,   \* entry inserted and not yet deleted from the stream
    rows,      \* rows of a visit in visit_logs
    deleting,  \* code whose delete transaction is open, which locks visit_logs
    deleted,   \* codes whose delete is committed
    failures

streamVars == <<stream, id, nextId>>
syncVars   == <<lpc, batch, current>>
deleteVars == <<deleting, deleted>>
vars == <<vpc, stream, id, nextId, lpc, batch, current, rows, deleting, deleted, failures>>

Init ==
    /\ vpc = [v \in Visits |-> "queued"]
    /\ stream = {}
    /\ id = [v \in Visits |-> 0]
    /\ nextId = 1
    /\ lpc = "idle"
    /\ batch = {}
    /\ current = NoVisit
    /\ rows = [v \in Visits |-> 0]
    /\ deleting = NoCode
    /\ deleted = {}
    /\ failures = 0

\* Failures are bounded.
Fails == failures < MaxFailures /\ failures' = failures + 1

-----------------------------------------------------------------------------
(* The job of a visit                                                      *)

\* XADD visit_log *
Xadd(v) ==
    /\ vpc[v] = "queued"
    /\ vpc' = [vpc EXCEPT ![v] = "added"]
    /\ stream' = stream \union {v}
    /\ id' = [id EXCEPT ![v] = nextId]
    /\ nextId' = nextId + 1
    /\ UNCHANGED <<syncVars, rows, deleteVars, failures>>

\* An XADD that fails is logged and the visit is lost; so is a job the
\* service is stopped before.
XaddFails(v) ==
    /\ vpc[v] = "queued"
    /\ Fails
    /\ vpc' = [vpc EXCEPT ![v] = "lost"]
    /\ UNCHANGED <<streamVars, syncVars, rows, deleteVars>>

-----------------------------------------------------------------------------
(* The sync job                                                            *)

Older(u, v) == id[u] < id[v]
\* The Batch oldest entries.
FirstBatch == {v \in stream : Cardinality({u \in stream : Older(u, v)}) < Batch}
\* Slip: the newest entry of a batch first.
IsNewest(v) == v \in batch /\ \A u \in batch : ~Older(v, u)
\* The entry to deal with.
IsNext(v) == v \in batch /\ \A u \in batch : ~Older(u, v)

SyncStart ==
    /\ lpc = "idle"
    /\ lpc' = "reading"
    /\ UNCHANGED <<vpc, streamVars, batch, current, rows, deleteVars, failures>>

\* Slip: a read that takes what it returns off the stream.
ReadBatchTakes ==
    /\ lpc = "reading"
    /\ batch' = FirstBatch
    /\ stream' = stream \ FirstBatch
    /\ lpc' = IF stream = {} THEN "idle" ELSE "inserting"
    /\ UNCHANGED <<vpc, id, nextId, current, rows, deleteVars, failures>>

\* XRANGE visit_log - + COUNT batch.  The job ends when the stream is empty.
ReadBatch ==
    /\ lpc = "reading"
    /\ batch' = FirstBatch
    /\ lpc' = IF stream = {} THEN "idle" ELSE "inserting"
    /\ UNCHANGED <<vpc, streamVars, current, rows, deleteVars, failures>>

\* INSERT INTO visit_logs, for the oldest entry of the batch.  The open delete
\* transaction has locked the table.
InsertLog(v) ==
    /\ lpc = "inserting"
    /\ IsNext(v)
    /\ v \notin Refused
    /\ deleting = NoCode
    /\ rows' = [rows EXCEPT ![v] = @ + 1]
    /\ current' = v
    /\ lpc' = "deleting"
    /\ UNCHANGED <<vpc, streamVars, batch, deleteVars, failures>>

\* Slip: an XDEL that misses the entry.
DeleteEntryMisses ==
    /\ lpc = "deleting"
    /\ batch' = batch \ {current}
    /\ current' = NoVisit
    /\ lpc' = IF batch' = {} THEN "reading" ELSE "inserting"
    /\ UNCHANGED <<vpc, streamVars, rows, deleteVars, failures>>

\* XDEL visit_log id; then the next entry, or the next batch.
DeleteEntry ==
    /\ lpc = "deleting"
    /\ stream' = stream \ {current}
    /\ batch' = batch \ {current}
    /\ current' = NoVisit
    /\ lpc' = IF batch' = {} THEN "reading" ELSE "inserting"
    /\ UNCHANGED <<vpc, id, nextId, rows, deleteVars, failures>>

\* The job is over and what it had read forgotten.
SyncEnds == lpc' = "idle" /\ batch' = {} /\ current' = NoVisit

\* MySQL refuses the row: the job ends with the error, as does every next one
\* that comes to this entry.
InsertRefused(v) ==
    /\ lpc = "inserting"
    /\ IsNext(v)
    /\ v \in Refused
    /\ SyncEnds
    /\ UNCHANGED <<vpc, streamVars, rows, deleteVars, failures>>

\* A command fails and ends the job, or the service stops under it.
SyncFails ==
    /\ lpc # "idle"
    /\ Fails
    /\ SyncEnds
    /\ UNCHANGED <<vpc, streamVars, rows, deleteVars>>

-----------------------------------------------------------------------------
(* Deleting a link                                                         *)

\* DELETE FROM visit_logs in the transaction of delete_links: until it ends
\* its locks keep inserts out (short_code has no index: the whole table).
DeleteRows(c) ==
    /\ deleting = NoCode
    /\ c \notin deleted
    /\ deleting' = c
    /\ UNCHANGED <<vpc, streamVars, syncVars, rows, deleted, failures>>

CommitDelete ==
    /\ deleting # NoCode
    /\ rows' = [v \in Visits |-> IF CodeOf[v] = deleting THEN 0 ELSE rows[v]]
    /\ deleted' = deleted \union {deleting}
    /\ deleting' = NoCode
    /\ UNCHANGED <<vpc, streamVars, syncVars, failures>>

\* UNLINK or COMMIT fails: the transaction is rolled back.
AbortDelete ==
    /\ deleting # NoCode
    /\ Fails
    /\ deleting' = NoCode
    /\ UNCHANGED <<vpc, streamVars, syncVars, rows, deleted>>

-----------------------------------------------------------------------------
SyncStep ==
    \/ SyncStart \/ ReadBatch \/ DeleteEntry
    \/ \E v \in Visits : InsertLog(v) \/ InsertRefused(v)

Next ==
    \/ \E v \in Visits : Xadd(v) \/ XaddFails(v)
    \/ SyncStep \/ SyncFails
    \/ \E c \in Codes : DeleteRows(c)
    \/ CommitDelete \/ AbortDelete

Spec == Init /\ [][Next]_vars

\* The sync job is started again and again while its tasks get
\* their connection (JobQueue!ClaimSettles) and goes on while
\* MySQL and Redis answer; a delete transaction ends.
FairSpec == Spec /\ WF_vars(SyncStep) /\ WF_vars(CommitDelete \/ AbortDelete)

-----------------------------------------------------------------------------
(* Properties                                                              *)

\* Every variable has its type, and the sync job has an entry in hand exactly
\* while it is between its INSERT and its XDEL (link.rs:370-398).
TypeOK ==
    /\ vpc \in [Visits -> {"queued", "added", "lost"}]
    /\ stream \subseteq Visits
    /\ id \in [Visits -> Nat] /\ nextId \in Nat \ {0}
    /\ lpc \in {"idle", "reading", "inserting", "deleting"}
    /\ batch \subseteq Visits
    /\ current \in Visits \union {NoVisit}
    /\ lpc = "deleting" <=> current # NoVisit
    /\ rows \in [Visits -> Nat]
    /\ deleting \in Codes \union {NoCode}
    /\ deleted \subseteq Codes
    /\ failures \in 0..MaxFailures

Accepted(v) == vpc[v] = "added"

\* A visit that reached the stream is not lost between Redis and MySQL,
\* whatever fails and whenever the service stops: until its row is there, or
\* its link deleted, its entry is (link.rs:370-398: INSERT first, then XDEL).
LoggedAtLeastOnce ==
    \A v \in Visits :
        Accepted(v) => v \in stream \/ rows[v] >= 1 \/ CodeOf[v] \in deleted

\* The rows of each visit but its first.
SurplusRows == UNION {{v} \X (2..rows[v]) : v \in Visits}

\* A row is written twice only where a failure came between INSERT and XDEL:
\* never more rows too many than there were failures (link.rs:377-391).
SurplusBounded == Cardinality(SurplusRows) <= failures

\* An entry leaves the stream, unless one that MySQL refuses stands before it.
StreamDrains ==
    \A v \in Visits :
        (v \in stream /\ \A u \in stream \intersect Refused : Older(v, u)) ~> v \notin stream
=============================================================================
