----------------------------- MODULE MCJobQueue -----------------------------
(* Instances of JobQueue for TLC.                                          *)
EXTENDS JobQueue, TLC

CONSTANTS r1, c1, SyncClick, SyncVisitLog

NoRequests  == {}
OneRedirect == {r1}
OneCreate   == {c1}

OneKind  == {SyncClick}
TwoKinds == {SyncClick, SyncVisitLog}

\* The kinds differ in nothing this module looks at.
KindSymmetry == Permutations(ScheduledJobKind)
=============================================================================
