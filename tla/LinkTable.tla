----------------------------- MODULE LinkTable ------------------------------
(***************************************************************************)
(* The table links and its unique short codes: the creates that look for a *)
(* free code, the deletes of one user and the purge, as transactions that  *)
(* wait for each other's rows (services/shortlink.rs, models/link.rs).     *)
(* MySQL compares codes without regard to case, as create_table.sql names  *)
(* no collation; the alphabet of the code has both cases of every letter.  *)
(* A code is the sequence of its digits.                                   *)
(***************************************************************************)
EXTENDS Integers, Sequences, FiniteSets

CONSTANTS
    Creators,  \* creates that can be under way at once
    Deleters,  \* deletes that can be under way at once
    Digits,    \* decimal digits of the alphabet: 10
    Letters,   \* letters, in each case: 26
    Tries,     \* candidates a create tries: 100
    Customs,   \* codes that users ask for
    MaxId,     \* bound: links inserted
    MaxIds,    \* ids one delete names: DeleteLinksReq allows 50
    Visited,   \* bound: the links that are visited
    Expiring,  \* bound: the links that can expire
    MaxFails   \* bound: requests that fail or are cancelled

ASSUME LinkTableAssumption ==
    /\ Digits \in Nat \ {0} /\ Letters \in Nat \ {0}
    /\ Tries \in Nat \ {0}
    /\ Customs \subseteq Seq(0..(Digits + 2 * Letters - 1)) \ {<<>>}
    /\ MaxId \in Nat
    /\ MaxIds \in Nat
    /\ MaxFails \in Nat

-----------------------------------------------------------------------------
(* Codes                                                                   *)

Base == Digits + 2 * Letters
Null == <<>>

\* encode_base62
Encode[n \in Nat] ==
    IF n < Base THEN <<n>> ELSE Append(Encode[n \div Base], n % Base)

\* "0-9A-Za-z": a lower-case letter is Letters above its upper case.
FoldDigit(d) == IF d < Digits + Letters THEN d ELSE d - Letters
Fold(code) == [i \in DOMAIN code |-> FoldDigit(code[i])]
\* What the collation of uk_short takes for equal.
Same(a, b) == Fold(a) = Fold(b)

-----------------------------------------------------------------------------
VARIABLES
    nextId,  \* AUTO_INCREMENT: not given back by a rollback
    links,   \* ids of the committed rows
    code,    \* short_code of each row, as its transaction has set it
    at,      \* where each create is
    row,     \* the row it inserted
    want,    \* the code its user asked for, Null for none
    tried,   \* candidates that collided
    del,     \* where each delete is
    ids,     \* the ids it was given
    codes,   \* the codes it read
    hit,     \* the rows it has deleted, and locks
    logs,    \* the links with rows in visit_logs
    fails    \* requests failed so far

creating == <<at, row, want, tried>>
deleting == <<del, ids, codes, hit>>
vars == <<nextId, links, code, creating, deleting, logs, fails>>

Init ==
    /\ nextId = 1
    /\ links = {}
    /\ code = [i \in 1..MaxId |-> Null]
    /\ at = [r \in Creators |-> "idle"]
    /\ row = [r \in Creators |-> 0]
    /\ want = [r \in Creators |-> Null]
    /\ tried = [r \in Creators |-> 0]
    /\ del = [d \in Deleters |-> "idle"]
    /\ ids = [d \in Deleters |-> {}]
    /\ codes = [d \in Deleters |-> {}]
    /\ hit = [d \in Deleters |-> {}]
    /\ logs = {}
    /\ fails = 0

-----------------------------------------------------------------------------
(* create_shortlink                                                        *)

\* insert_long_url, in a transaction of its own.
InsertLongUrl(r, custom) ==
    /\ at[r] = "idle"
    /\ nextId <= MaxId
    /\ nextId' = nextId + 1
    /\ at' = [at EXCEPT ![r] = "inserted"]
    /\ row' = [row EXCEPT ![r] = nextId]
    /\ want' = [want EXCEPT ![r] = custom]
    /\ tried' = [tried EXCEPT ![r] = 0]
    /\ UNCHANGED <<links, code, deleting, logs, fails>>

Candidate(r) == IF want[r] = Null THEN Encode[row[r] + tried[r]] ELSE want[r]

Collides(c) == \E i \in links : Same(code[i], c)

\* Another transaction has set the code or deleted its row, and has not ended.
Waits(r) ==
    \/ \E s \in Creators \ {r} : at[s] = "coded" /\ Same(code[row[s]], Candidate(r))
    \/ \E d \in Deleters : \E i \in hit[d] \cap links : Same(code[i], Candidate(r))

CreateEnds(r) ==
    /\ at' = [at EXCEPT ![r] = "idle"]
    /\ row' = [row EXCEPT ![r] = 0]
    /\ want' = [want EXCEPT ![r] = Null]
    /\ tried' = [tried EXCEPT ![r] = 0]

\* update_short_code
UpdateShortCode(r) ==
    /\ at[r] = "inserted"
    /\ ~Waits(r) /\ ~Collides(Candidate(r))
    /\ code' = [code EXCEPT ![row[r]] = Candidate(r)]
    /\ at' = [at EXCEPT ![r] = "coded"]
    /\ UNCHANGED <<nextId, links, row, want, tried, deleting, logs, fails>>

\* Slip: a create that found no code goes on to commit.
NextCandidateUnchecked(r) ==
    /\ at[r] = "inserted"
    /\ ~Waits(r) /\ Collides(Candidate(r))
    /\ want[r] = Null
    /\ tried' = [tried EXCEPT ![r] = @ + 1]
    /\ at' = [at EXCEPT ![r] = IF tried[r] + 1 < Tries THEN "inserted" ELSE "coded"]
    /\ UNCHANGED <<nextId, links, code, row, want, deleting, logs, fails>>

\* Slip: the same candidate again.
NextCandidateSame(r) ==
    /\ at[r] = "inserted"
    /\ ~Waits(r) /\ Collides(Candidate(r))
    /\ want[r] = Null
    /\ tried' = [tried EXCEPT ![r] = 1 - @]
    /\ UNCHANGED <<nextId, links, code, at, row, want, deleting, logs, fails>>

\* Error 1062: the next candidate, as long as there is one.
NextCandidate(r) ==
    /\ at[r] = "inserted"
    /\ ~Waits(r) /\ Collides(Candidate(r))
    /\ want[r] = Null
    /\ tried' = [tried EXCEPT ![r] = @ + 1]
    /\ at' = [at EXCEPT ![r] = IF tried[r] + 1 < Tries THEN "inserted" ELSE "no_code"]
    /\ UNCHANGED <<nextId, links, code, row, want, deleting, logs, fails>>

\* "Unable to generate unique short code": the row is rolled back.
GiveUp(r) ==
    /\ at[r] = "no_code"
    /\ CreateEnds(r)
    /\ UNCHANGED <<nextId, links, code, deleting, logs, fails>>

\* 400 Short code already exists: the row is rolled back.
CustomTaken(r) ==
    /\ at[r] = "inserted"
    /\ ~Waits(r) /\ Collides(Candidate(r))
    /\ want[r] # Null
    /\ CreateEnds(r)
    /\ UNCHANGED <<nextId, links, code, deleting, logs, fails>>

Commit(r) ==
    /\ at[r] = "coded"
    /\ links' = links \cup {row[r]}
    /\ CreateEnds(r)
    /\ UNCHANGED <<nextId, code, deleting, logs, fails>>

\* A statement fails, or the request is dropped: the transaction is rolled
\* back.
CreateFails(r) ==
    /\ at[r] # "idle"
    /\ fails < MaxFails
    /\ fails' = fails + 1
    /\ CreateEnds(r)
    /\ UNCHANGED <<nextId, links, code, deleting, logs>>

\* mysql_lock_wait_timeout_s, or the global timeout.
CreateTimesOut(r) ==
    /\ at[r] = "inserted"
    /\ Waits(r)
    /\ CreateEnds(r)
    /\ UNCHANGED <<nextId, links, code, deleting, logs, fails>>

CreateStep(r) ==
    \/ UpdateShortCode(r) \/ NextCandidate(r) \/ GiveUp(r) \/ CustomTaken(r)
    \/ Commit(r) \/ CreateTimesOut(r)

-----------------------------------------------------------------------------
(* delete_links                                                            *)

DeleteEnds(d) ==
    /\ del' = [del EXCEPT ![d] = "idle"]
    /\ ids' = [ids EXCEPT ![d] = {}]
    /\ codes' = [codes EXCEPT ![d] = {}]
    /\ hit' = [hit EXCEPT ![d] = {}]

\* SELECT short_code, a read without a lock; when it finds none there is
\* nothing to do.
ReadCodes(d, named) ==
    /\ del[d] = "idle"
    /\ named \cap links # {}
    /\ del' = [del EXCEPT ![d] = "read"]
    /\ ids' = [ids EXCEPT ![d] = named]
    /\ codes' = [codes EXCEPT ![d] = {code[i] : i \in named \cap links}]
    /\ UNCHANGED <<nextId, links, code, creating, hit, logs, fails>>

\* Another transaction has inserted or deleted one of the rows.
RowsLocked(d) ==
    \/ \E e \in Deleters \ {d} : hit[e] \cap ids[d] # {}
    \/ \E r \in Creators : row[r] \in ids[d]

\* Slip: committed before the visits are removed.
DeleteRowsCommitted(d) ==
    /\ del[d] = "read"
    /\ ~RowsLocked(d)
    /\ hit' = [hit EXCEPT ![d] = ids[d] \cap links]
    /\ links' = links \ ids[d]
    /\ del' = [del EXCEPT ![d] = "deleted"]
    /\ UNCHANGED <<nextId, code, creating, ids, codes, logs, fails>>

\* DELETE FROM links
DeleteRows(d) ==
    /\ del[d] = "read"
    /\ ~RowsLocked(d)
    /\ hit' = [hit EXCEPT ![d] = ids[d] \cap links]
    /\ del' = [del EXCEPT ![d] = "deleted"]
    /\ UNCHANGED <<nextId, links, code, creating, ids, codes, logs, fails>>

\* The links whose visits, cache and counter the delete removes.
Wiped(d) == {i \in logs : \E c \in codes[d] : Same(code[i], c)}

\* DELETE FROM visit_logs, UNLINK and COMMIT.  (What can come between these
\* is in VisitLog, ClickCount and LinkCache.)
CommitDelete(d) ==
    /\ del[d] = "deleted"
    /\ links' = links \ hit[d]
    /\ logs' = logs \ Wiped(d)
    /\ DeleteEnds(d)
    /\ UNCHANGED <<nextId, code, creating, fails>>

DeleteFails(d) ==
    /\ del[d] # "idle"
    /\ fails < MaxFails
    /\ fails' = fails + 1
    /\ DeleteEnds(d)
    /\ UNCHANGED <<nextId, links, code, creating, logs>>

DeleteTimesOut(d) ==
    /\ del[d] = "read"
    /\ RowsLocked(d)
    /\ DeleteEnds(d)
    /\ UNCHANGED <<nextId, links, code, creating, logs, fails>>

DeleteStep(d) == DeleteRows(d) \/ CommitDelete(d) \/ DeleteTimesOut(d)

-----------------------------------------------------------------------------
\* delete_expired_links: the rows go, one after the other here, and their
\* visits stay.  It waits for the rows a delete has locked.
Purge(i) ==
    /\ i \in links \cap Expiring
    /\ \A d \in Deleters : i \notin hit[d]
    /\ links' = links \ {i}
    /\ UNCHANGED <<nextId, code, creating, deleting, logs, fails>>

\* The link is visited, and the visit has come to visit_logs.
Visit(i) ==
    /\ i \in links \cap Visited
    /\ logs' = logs \cup {i}
    /\ UNCHANGED <<nextId, links, code, creating, deleting, fails>>

Next ==
    \/ \E r \in Creators :
        \/ \E c \in Customs \cup {Null} : InsertLongUrl(r, c)
        \/ CreateStep(r) \/ CreateFails(r)
    \/ \E d \in Deleters :
        \/ \E named \in SUBSET (1..(nextId - 1)) :
              Cardinality(named) <= MaxIds /\ ReadCodes(d, named)
        \/ DeleteStep(d) \/ DeleteFails(d)
    \/ \E i \in links : Purge(i) \/ Visit(i)

\* A request that has begun goes on.
Fairness ==
    /\ \A r \in Creators : WF_vars(CreateStep(r))
    /\ \A d \in Deleters : WF_vars(DeleteStep(d))

Spec == Init /\ [][Next]_vars /\ Fairness

-----------------------------------------------------------------------------
(* Properties                                                              *)

\* Every variable has its type (services/shortlink.rs:32-103).
TypeOK ==
    /\ nextId \in 1..(MaxId + 1)
    /\ links \subseteq 1..(nextId - 1)
    /\ code \in [1..MaxId -> Seq(0..(Base - 1))]
    /\ at \in [Creators -> {"idle", "inserted", "coded", "no_code"}]
    /\ row \in [Creators -> 0..(nextId - 1)]
    /\ want \in [Creators -> Customs \cup {Null}]
    /\ tried \in [Creators -> 0..Tries]
    /\ del \in [Deleters -> {"idle", "read", "deleted"}]
    /\ ids \in [Deleters -> SUBSET (1..(nextId - 1))]
    /\ codes \in [Deleters -> SUBSET Seq(0..(Base - 1))]
    /\ hit \in [Deleters -> SUBSET (1..(nextId - 1))]
    /\ logs \subseteq 1..(nextId - 1)
    /\ fails \in 0..MaxFails

\* Every committed link has a code, and the code finds this link and no other,
\* in any spelling: a create that found no code leaves no row, and of two that
\* try the same code at once one gets it (shortlink.rs:62-103).
CodeFindsLink ==
    \A i \in links : code[i] # Null /\ {j \in links : Same(code[j], code[i])} = {i}

\* A delete whose rows were all there when it came to delete them removes no
\* visits of a link it was not asked for, even if its codes are wanted again
\* at once: they stay locked until it ends.  (When another delete or the purge
\* was faster, the codes it read can belong to a new link by then.)
\* (link.rs:516-595)
WipesOwn ==
    \A d \in Deleters :
        del[d] = "deleted" /\ codes[d] = {code[i] : i \in hit[d]}
            => Wiped(d) \cap links \subseteq ids[d]

\* Every create and delete is answered (shortlink.rs:77-97, 240-272).
RequestsEnd ==
    /\ \A r \in Creators : at[r] # "idle" ~> at[r] = "idle"
    /\ \A d \in Deleters : del[d] # "idle" ~> del[d] = "idle"

\* A create whose user asked for no code is given one: on a collision it takes
\* another candidate, up to 100 of them (shortlink.rs:76).
FindsFreeCode == \A r \in Creators : at[r] # "no_code"
=============================================================================
