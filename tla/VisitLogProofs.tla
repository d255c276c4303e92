--------------------------- MODULE VisitLogProofs ---------------------------
(***************************************************************************)
(* Proofs about VisitLog, for every set of visits and codes, every batch   *)
(* size and any number of failures.                                        *)
(***************************************************************************)
EXTENDS VisitLog, FiniteSetTheorems, TLAPS

LEMMA TypeInit == Init => TypeOK
BY VisitAssumption DEF Init, TypeOK

LEMMA TypeStep == TypeOK /\ [Next]_vars => TypeOK'
<1> SUFFICES ASSUME TypeOK, [Next]_vars PROVE TypeOK'
  OBVIOUS
<1> USE VisitAssumption DEF TypeOK, streamVars, syncVars, deleteVars, Fails, SyncEnds
<1>1. ASSUME NEW v \in Visits, Xadd(v) PROVE TypeOK'
  BY <1>1 DEF Xadd
<1>2. ASSUME NEW v \in Visits, XaddFails(v) PROVE TypeOK'
  BY <1>2 DEF XaddFails
<1>3. CASE SyncStart
  BY <1>3 DEF SyncStart
<1>4. CASE ReadBatch
  BY <1>4 DEF ReadBatch, FirstBatch
<1>5. CASE DeleteEntry
  BY <1>5 DEF DeleteEntry
<1>6. ASSUME NEW v \in Visits, InsertLog(v) PROVE TypeOK'
  BY <1>6 DEF InsertLog
<1>7. ASSUME NEW v \in Visits, InsertRefused(v) PROVE TypeOK'
  BY <1>7 DEF InsertRefused
<1>8. CASE SyncFails
  BY <1>8 DEF SyncFails
<1>9. ASSUME NEW c \in Codes, DeleteRows(c) PROVE TypeOK'
  BY <1>9 DEF DeleteRows
<1>10. CASE CommitDelete
  BY <1>10 DEF CommitDelete
<1>11. CASE AbortDelete
  BY <1>11 DEF AbortDelete
<1>12. CASE UNCHANGED vars
  BY <1>12 DEF vars
<1> QED
  BY <1>1, <1>2, <1>3, <1>4, <1>5, <1>6, <1>7, <1>8, <1>9, <1>10, <1>11, <1>12
  DEF Next, SyncStep

\* Every variable keeps its type.
THEOREM TypeCorrect == Spec => []TypeOK
<1>1. QED BY TypeInit, TypeStep, PTL DEF Spec

-----------------------------------------------------------------------------
(* LoggedAtLeastOnce is not inductive: it needs that the entry about to be   *)
(* deleted from the stream has its row, or lost it with its link.            *)

Written(v) == rows[v] >= 1 \/ CodeOf[v] \in deleted

DeletesWhatItWrote == lpc = "deleting" => current \in Visits /\ Written(current)

IInv == TypeOK /\ LoggedAtLeastOnce /\ DeletesWhatItWrote

LEMMA LogInit == Init => LoggedAtLeastOnce /\ DeletesWhatItWrote
BY DEF Init, LoggedAtLeastOnce, DeletesWhatItWrote, Accepted

LEMMA LogStep == IInv /\ [Next]_vars => LoggedAtLeastOnce' /\ DeletesWhatItWrote'
<1> SUFFICES ASSUME IInv, [Next]_vars PROVE LoggedAtLeastOnce' /\ DeletesWhatItWrote'
  OBVIOUS
<1> USE VisitAssumption DEF IInv, LoggedAtLeastOnce, DeletesWhatItWrote, Written, Accepted,
        TypeOK, streamVars, syncVars, deleteVars, SyncEnds
<1>1. ASSUME NEW v \in Visits, Xadd(v) \/ XaddFails(v)
      PROVE  LoggedAtLeastOnce' /\ DeletesWhatItWrote'
  BY <1>1 DEF Xadd, XaddFails
<1>2. CASE SyncStart \/ ReadBatch \/ SyncFails
  BY <1>2 DEF SyncStart, ReadBatch, SyncFails
<1>3. ASSUME NEW v \in Visits, InsertLog(v)
      PROVE  LoggedAtLeastOnce' /\ DeletesWhatItWrote'
  BY <1>3 DEF InsertLog
\* The only step that takes an entry out of the stream.
<1>4. CASE DeleteEntry
  <2>1. Written(current)
    BY <1>4 DEF DeleteEntry
  <2> QED BY <1>4, <2>1 DEF DeleteEntry
<1>5. ASSUME NEW v \in Visits, InsertRefused(v)
      PROVE  LoggedAtLeastOnce' /\ DeletesWhatItWrote'
  BY <1>5 DEF InsertRefused
\* The only step that takes rows away.
<1>6. CASE CommitDelete
  <2>1. \A v \in Visits : Written(v) => Written(v)'
    BY <1>6 DEF CommitDelete
  <2> QED BY <1>6, <2>1 DEF CommitDelete
<1>7. CASE AbortDelete \/ \E c \in Codes : DeleteRows(c)
  BY <1>7 DEF AbortDelete, DeleteRows
<1>8. CASE UNCHANGED vars
  BY <1>8 DEF vars
<1> QED BY <1>1, <1>2, <1>3, <1>4, <1>5, <1>6, <1>7, <1>8 DEF Next, SyncStep

\* No visit that reached the stream is lost on the way to MySQL, however often
\* the sync job, MySQL, Redis or the service fails.
THEOREM NoVisitLost == Spec => []LoggedAtLeastOnce
<1>1. Init => IInv
  BY TypeInit, LogInit DEF IInv
<1>2. IInv /\ [Next]_vars => IInv'
  BY TypeStep, LogStep DEF IInv
<1>3. IInv => LoggedAtLeastOnce
  BY DEF IInv
<1> QED BY <1>1, <1>2, <1>3, PTL DEF Spec

-----------------------------------------------------------------------------
(* SurplusBounded needs the visits that can get one more row: those in the   *)
(* stream with a row whose entry the sync job is not about to delete.  Each  *)
(* of them, and each row too many, stands for a failure of its own.          *)

Exposed(v) == v \in stream /\ rows[v] >= 1 /\ v # current

Marks == {m \in Visits \X Nat : m[2] \in 2..rows[m[1]] \/ (m[2] = 1 /\ Exposed(m[1]))}

StreamInv ==
    /\ batch \subseteq stream
    /\ current # NoVisit => current \in stream
    /\ \A v \in Visits : ~Accepted(v) => v \notin stream /\ rows[v] = 0

MarksInv ==
    /\ IsFiniteSet(Marks)
    /\ Cardinality(Marks) <= failures

LEMMA StreamStep == TypeOK /\ StreamInv /\ [Next]_vars => StreamInv'
<1> SUFFICES ASSUME TypeOK, StreamInv, [Next]_vars PROVE StreamInv'
  OBVIOUS
<1> USE VisitAssumption DEF StreamInv, Accepted, TypeOK, streamVars, syncVars, deleteVars, SyncEnds
<1>1. ASSUME NEW v \in Visits, Xadd(v) \/ XaddFails(v) PROVE StreamInv'
  BY <1>1 DEF Xadd, XaddFails
<1>2. CASE SyncStart \/ SyncFails \/ AbortDelete \/ \E c \in Codes : DeleteRows(c)
  BY <1>2 DEF SyncStart, SyncFails, AbortDelete, DeleteRows
<1>3. CASE ReadBatch
  BY <1>3 DEF ReadBatch, FirstBatch
<1>4. ASSUME NEW v \in Visits, InsertLog(v) PROVE StreamInv'
  BY <1>4 DEF InsertLog, IsNext
<1>5. CASE DeleteEntry
  BY <1>5 DEF DeleteEntry
<1>6. ASSUME NEW v \in Visits, InsertRefused(v) PROVE StreamInv'
  BY <1>6 DEF InsertRefused
<1>7. CASE CommitDelete
  BY <1>7 DEF CommitDelete
<1>8. CASE UNCHANGED vars
  BY <1>8 DEF vars
<1> QED BY <1>1, <1>2, <1>3, <1>4, <1>5, <1>6, <1>7, <1>8 DEF Next, SyncStep

LEMMA StreamInvariant == Spec => []StreamInv
<1>1. Init => StreamInv
  BY DEF Init, StreamInv, Accepted
<1> QED BY <1>1, StreamStep, TypeCorrect, PTL DEF Spec

\* When a mark is there, said without the set; and after a step.
LEMMA MarkMembers ==
    ASSUME NEW v \in Visits, NEW k \in Nat
    PROVE  /\ <<v, k>> \in Marks <=> k \in 2..rows[v] \/ (k = 1 /\ Exposed(v))
           /\ <<v, k>> \in Marks' <=> k \in 2..rows'[v] \/ (k = 1 /\ Exposed(v)')
BY DEF Marks

LEMMA MarkSubset ==
    ASSUME NEW S,
           \A v \in Visits, k \in Nat :
               (k \in 2..rows'[v] \/ (k = 1 /\ Exposed(v)')) => <<v, k>> \in S
    PROVE  Marks' \subseteq S
BY DEF Marks

\* How few marks there are after a step: none is new, one takes the place of
\* another, or there is one more.
LEMMA FewerMarks ==
    ASSUME IsFiniteSet(Marks), Marks' \subseteq Marks
    PROVE  IsFiniteSet(Marks') /\ Cardinality(Marks') <= Cardinality(Marks)
BY FS_Subset

LEMMA ReplacedMark ==
    ASSUME IsFiniteSet(Marks), NEW d \in Marks, NEW e,
           Marks' \subseteq (Marks \ {d}) \union {e}
    PROVE  IsFiniteSet(Marks') /\ Cardinality(Marks') <= Cardinality(Marks)
<1>1. IsFiniteSet(Marks \ {d}) /\ Cardinality(Marks \ {d}) = Cardinality(Marks) - 1
  BY FS_RemoveElement
<1>2. Cardinality(Marks) \in Nat /\ Cardinality(Marks \ {d}) \in Nat
  BY <1>1, FS_CardinalityType
<1>3. /\ IsFiniteSet((Marks \ {d}) \union {e})
      /\ Cardinality((Marks \ {d}) \union {e}) <= Cardinality(Marks)
  BY <1>1, <1>2, FS_AddElement
<1>4. IsFiniteSet(Marks') /\ Cardinality(Marks') <= Cardinality((Marks \ {d}) \union {e})
  BY <1>3, FS_Subset
<1>5. Cardinality(Marks') \in Nat /\ Cardinality((Marks \ {d}) \union {e}) \in Nat
  BY <1>3, <1>4, FS_CardinalityType
<1> QED BY <1>2, <1>3, <1>4, <1>5

LEMMA OneMoreMark ==
    ASSUME IsFiniteSet(Marks), NEW e, Marks' \subseteq Marks \union {e}
    PROVE  IsFiniteSet(Marks') /\ Cardinality(Marks') <= Cardinality(Marks) + 1
<1>1. Cardinality(Marks) \in Nat
  BY FS_CardinalityType
<1>2. /\ IsFiniteSet(Marks \union {e})
      /\ Cardinality(Marks \union {e}) <= Cardinality(Marks) + 1
  <2>1. /\ IsFiniteSet(Marks \union {e})
        /\ Cardinality(Marks \union {e})
             = IF e \in Marks THEN Cardinality(Marks) ELSE Cardinality(Marks) + 1
    BY FS_AddElement, Zenon
  <2> QED BY <1>1, <2>1
<1>3. IsFiniteSet(Marks') /\ Cardinality(Marks') <= Cardinality(Marks \union {e})
  BY <1>2, FS_Subset
<1>4. Cardinality(Marks') \in Nat /\ Cardinality(Marks \union {e}) \in Nat
  BY <1>2, <1>3, FS_CardinalityType
<1> QED BY <1>1, <1>2, <1>3, <1>4

LEMMA MarksStep == TypeOK /\ TypeOK' /\ StreamInv /\ MarksInv /\ [Next]_vars => MarksInv'
<1> SUFFICES ASSUME TypeOK, TypeOK', StreamInv, MarksInv, [Next]_vars PROVE MarksInv'
  OBVIOUS
<1>0. /\ IsFiniteSet(Marks) /\ Cardinality(Marks) \in Nat
      /\ Cardinality(Marks) <= failures
      /\ failures \in Nat /\ failures' \in Nat
      /\ \A v \in Visits : rows[v] \in Nat /\ rows'[v] \in Nat
  BY FS_CardinalityType, VisitAssumption DEF MarksInv, TypeOK
<1>a. ASSUME \A v \in Visits, k \in Nat :
                (k \in 2..rows'[v] \/ (k = 1 /\ Exposed(v)'))
                    => (k \in 2..rows[v] \/ (k = 1 /\ Exposed(v))),
             failures' >= failures
      PROVE  MarksInv'
  <2>1. Marks' \subseteq Marks
    BY <1>a, MarkSubset, MarkMembers
  <2>2. IsFiniteSet(Marks') /\ Cardinality(Marks') <= Cardinality(Marks)
    BY <1>0, <2>1, FewerMarks
  <2>3. Cardinality(Marks') \in Nat
    BY <2>2, FS_CardinalityType
  <2> QED BY <1>0, <1>a, <2>2, <2>3 DEF MarksInv
<1> USE VisitAssumption DEF streamVars, syncVars, deleteVars, SyncEnds
\* The entry of a new visit has no row.
<1>1. ASSUME NEW v \in Visits, Xadd(v) \/ XaddFails(v) PROVE MarksInv'
  <2>1. \A u \in Visits : Exposed(u)' => Exposed(u)
    BY <1>0, <1>1 DEF Xadd, XaddFails, Exposed, StreamInv, Accepted, TypeOK
  <2>2. rows' = rows /\ failures' >= failures
    BY <1>0, <1>1 DEF Xadd, XaddFails, Fails
  <2> QED BY <1>a, <2>1, <2>2
<1>2. CASE SyncStart \/ ReadBatch \/ AbortDelete \/ \E c \in Codes : DeleteRows(c)
  <2>1. UNCHANGED <<stream, rows, current>> /\ failures' >= failures
    BY <1>0, <1>2 DEF SyncStart, ReadBatch, AbortDelete, DeleteRows, Fails
  <2>2. \A u \in Visits : Exposed(u)' => Exposed(u)
    BY <2>1 DEF Exposed
  <2> QED BY <1>a, <2>1, <2>2
\* A second row takes the place of the exposure.
<1>3. ASSUME NEW v \in Visits, InsertLog(v) PROVE MarksInv'
  <2>1. /\ v \in stream /\ current = NoVisit /\ current' = v /\ v # NoVisit
        /\ rows' = [rows EXCEPT ![v] = @ + 1]
        /\ stream' = stream /\ failures' = failures
    BY <1>3 DEF InsertLog, IsNext, StreamInv, TypeOK
  <2>2. \A u \in Visits : Exposed(u)' => Exposed(u) /\ u # v
    BY <2>1 DEF Exposed, TypeOK
  <2>3. \A u \in Visits : rows'[u] = IF u = v THEN rows[u] + 1 ELSE rows[u]
    BY <2>1 DEF TypeOK
  <2>4. CASE rows[v] = 0
    BY <1>0, <1>a, <2>1, <2>2, <2>3, <2>4
  <2>5. CASE rows[v] # 0
    <3>1. <<v, 1>> \in Marks
      BY <1>0, <2>1, <2>5, MarkMembers DEF Exposed
    <3>2. ASSUME NEW u \in Visits, NEW k \in Nat,
                 k \in 2..rows'[u] \/ (k = 1 /\ Exposed(u)')
          PROVE  <<u, k>> \in (Marks \ {<<v, 1>>}) \union {<<v, rows[v] + 1>>}
      <4>1. CASE u = v /\ k = rows[v] + 1
        BY <4>1
      <4>2. CASE ~(u = v /\ k = rows[v] + 1)
        <5>1. k \in 2..rows[u] \/ (k = 1 /\ Exposed(u) /\ u # v)
          BY <1>0, <2>2, <2>3, <3>2, <4>2
        <5>2. <<u, k>> \in Marks
          BY <5>1, MarkMembers
        <5>3. <<u, k>> # <<v, 1>>
          BY <5>1
        <5> QED BY <5>2, <5>3
      <4> QED BY <4>1, <4>2
    <3>3. Marks' \subseteq (Marks \ {<<v, 1>>}) \union {<<v, rows[v] + 1>>}
      BY <3>2, MarkSubset
    <3>4. IsFiniteSet(Marks') /\ Cardinality(Marks') <= Cardinality(Marks)
      BY <1>0, <3>1, <3>3, ReplacedMark
    <3>5. Cardinality(Marks') \in Nat
      BY <3>4, FS_CardinalityType
    <3> QED BY <1>0, <2>1, <3>4, <3>5 DEF MarksInv
  <2> QED BY <2>4, <2>5
<1>4. CASE DeleteEntry
  <2>1. /\ stream' = stream \ {current} /\ rows' = rows /\ failures' = failures
    BY <1>4 DEF DeleteEntry
  <2>2. \A u \in Visits : Exposed(u)' => Exposed(u)
    BY <2>1 DEF Exposed
  <2> QED BY <1>0, <1>a, <2>1, <2>2
<1>5. ASSUME NEW v \in Visits, InsertRefused(v) PROVE MarksInv'
  <2>1. current = NoVisit /\ UNCHANGED <<stream, rows, current, failures>>
    BY <1>5 DEF InsertRefused, TypeOK
  <2>2. \A u \in Visits : Exposed(u)' => Exposed(u)
    BY <2>1 DEF Exposed
  <2> QED BY <1>0, <1>a, <2>1, <2>2
\* A failure exposes the visit the job has inserted.
<1>6. CASE SyncFails
  <2>1. /\ UNCHANGED <<stream, rows>> /\ failures' = failures + 1
    BY <1>6 DEF SyncFails, Fails
  <2>2. ASSUME NEW u \in Visits, NEW k \in Nat,
               k \in 2..rows'[u] \/ (k = 1 /\ Exposed(u)')
        PROVE  <<u, k>> \in Marks \union {<<current, 1>>}
    <3>1. CASE u = current /\ k = 1
      BY <3>1
    <3>2. CASE ~(u = current /\ k = 1)
      <4>1. k \in 2..rows[u] \/ (k = 1 /\ Exposed(u))
        BY <1>0, <2>1, <2>2, <3>2 DEF Exposed
      <4> QED BY <4>1, MarkMembers
    <3> QED BY <3>1, <3>2
  <2>3. Marks' \subseteq Marks \union {<<current, 1>>}
    BY <2>2, MarkSubset
  <2>4. IsFiniteSet(Marks') /\ Cardinality(Marks') <= Cardinality(Marks) + 1
    BY <1>0, <2>3, OneMoreMark
  <2>5. Cardinality(Marks') \in Nat
    BY <2>4, FS_CardinalityType
  <2> QED BY <1>0, <2>1, <2>4, <2>5 DEF MarksInv
<1>7. CASE CommitDelete
  <2>1. /\ UNCHANGED <<stream, current, failures>>
        /\ \A u \in Visits : rows'[u] = rows[u] \/ rows'[u] = 0
    BY <1>7 DEF CommitDelete, TypeOK
  <2>2. \A u \in Visits : rows'[u] <= rows[u] /\ (Exposed(u)' => Exposed(u))
    BY <1>0, <2>1 DEF Exposed
  <2> QED BY <1>0, <1>a, <2>1, <2>2
<1>8. CASE UNCHANGED vars
  <2>1. UNCHANGED <<stream, rows, current, failures>>
    BY <1>8 DEF vars
  <2> QED BY <1>0, <1>a, <2>1 DEF Exposed
<1> QED BY <1>1, <1>2, <1>3, <1>4, <1>5, <1>6, <1>7, <1>8 DEF Next, SyncStep

\* Never more rows too many than there were failures, for any number of visits
\* and however failures, restarts and deletes fall.
THEOREM SurplusIsBounded == Spec => []SurplusBounded
<1>1. Init => MarksInv
  <2> SUFFICES ASSUME Init PROVE MarksInv
    OBVIOUS
  <2>1. Marks = {}
    BY DEF Init, Marks, Exposed
  <2> QED BY <2>1, FS_EmptySet DEF Init, MarksInv
<1>2. TypeOK /\ TypeOK' /\ StreamInv /\ MarksInv /\ [Next]_vars => MarksInv'
  BY MarksStep
<1>3. TypeOK /\ MarksInv => SurplusBounded
  <2> SUFFICES ASSUME TypeOK, MarksInv PROVE SurplusBounded
    OBVIOUS
  <2>1. SurplusRows \subseteq Marks
    BY DEF SurplusRows, Marks, TypeOK
  <2>2. IsFiniteSet(SurplusRows) /\ Cardinality(SurplusRows) <= Cardinality(Marks)
    BY <2>1, FS_Subset DEF MarksInv
  <2>3. /\ Cardinality(SurplusRows) \in Nat /\ Cardinality(Marks) \in Nat
        /\ failures \in Nat
    BY <2>2, FS_CardinalityType, VisitAssumption DEF MarksInv, TypeOK
  <2> QED BY <2>2, <2>3 DEF MarksInv, SurplusBounded
<1> QED BY <1>1, <1>2, <1>3, TypeCorrect, StreamInvariant, PTL DEF Spec
=============================================================================
