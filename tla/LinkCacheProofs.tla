--------------------------- MODULE LinkCacheProofs ---------------------------
(***************************************************************************)
(* Proofs about LinkCache, for every set of links and redirects and every  *)
(* choice of the times.                                                    *)
(***************************************************************************)
EXTENDS LinkCache, TLAPS

LEMMA TypeInit == Init => TypeOK
BY DEF Init, TypeOK

LEMMA TypeStep == TypeOK /\ [Next]_vars => TypeOK'
<1> SUFFICES ASSUME TypeOK, [Next]_vars PROVE TypeOK'
  OBVIOUS
<1> USE CacheAssumption DEF TypeOK, cacheVars, redirectVars
<1>1. ASSUME NEW l \in Links, CreateStart(l) PROVE TypeOK'
  BY <1>1 DEF CreateStart
<1>2. ASSUME NEW l \in Links, CreateCommit(l) PROVE TypeOK'
  BY <1>2 DEF CreateCommit
<1>3. ASSUME NEW l \in Links, CreateFails(l) \/ SendJob(l) \/ LoseJob(l) PROVE TypeOK'
  BY <1>3 DEF CreateFails, SendJob, LoseJob
<1>4. ASSUME NEW l \in Links, RunJob(l) PROVE TypeOK'
  <2>1. CacheTtl(l) \in Nat
    BY DEF CacheTtl
  <2> QED BY <1>4, <2>1 DEF RunJob, SetEx
<1>5. ASSUME NEW r \in Redirects, GetHit(r) \/ GetMiss(r) \/ Select(r) PROVE TypeOK'
  BY <1>5 DEF GetHit, GetMiss, Select, Goto, Hit
<1>6. ASSUME NEW r \in Redirects, CheckFill(r) PROVE TypeOK'
  <2>1. Remaining(r) \in Nat
    BY <1>6 DEF CheckFill, Remaining
  <2> QED BY <1>6, <2>1 DEF CheckFill, Goto
<1>7. ASSUME NEW r \in Redirects, CheckServe(r) \/ Done(r) PROVE TypeOK'
  BY <1>7 DEF CheckServe, Done, Goto
<1>8. ASSUME NEW r \in Redirects, Fill(r) PROVE TypeOK'
  BY <1>8 DEF Fill, SetEx, Goto
<1>9. CASE DeleteRow \/ Unlink \/ CommitDelete \/ AbortDelete \/ Purge
  BY <1>9 DEF DeleteRow, Unlink, CommitDelete, AbortDelete, Purge
<1>10. CASE Tick
  BY <1>10 DEF Tick
<1>11. CASE UNCHANGED vars
  BY <1>11 DEF vars
<1> QED
  BY <1>1, <1>2, <1>3, <1>4, <1>5, <1>6, <1>7, <1>8, <1>9, <1>10, <1>11 DEF Next

\* Every variable keeps its type.
THEOREM TypeCorrect == Spec => []TypeOK
<1>1. QED BY TypeInit, TypeStep, PTL DEF Spec

-----------------------------------------------------------------------------
(* Whose link is where.  MySQL, Redis, the redirects and the past know only  *)
(* committed links, and a link that is gone has no row.                      *)

KnownCommitted ==
    /\ row # NoLink => Committed(row)
    /\ \A s \in Spellings : cached[s] # NoLink => Committed(cached[s])
    /\ \A r \in Redirects : rlink[r] # NoLink => Committed(rlink[r])
    /\ \A l \in gone : Committed(l) /\ row # l

LEMMA KnownStep == TypeOK /\ KnownCommitted /\ [Next]_vars => KnownCommitted'
<1> SUFFICES ASSUME TypeOK, KnownCommitted, [Next]_vars PROVE KnownCommitted'
  OBVIOUS
<1> USE CacheAssumption DEF TypeOK, KnownCommitted, Committed, cacheVars, redirectVars
<1>1. ASSUME NEW l \in Links, CreateStart(l) PROVE KnownCommitted'
  BY <1>1 DEF CreateStart
<1>2. ASSUME NEW l \in Links, CreateCommit(l) PROVE KnownCommitted'
  BY <1>2 DEF CreateCommit
<1>3. ASSUME NEW l \in Links, CreateFails(l) \/ SendJob(l) \/ LoseJob(l) PROVE KnownCommitted'
  BY <1>3 DEF CreateFails, SendJob, LoseJob
<1>4. ASSUME NEW l \in Links, RunJob(l) PROVE KnownCommitted'
  BY <1>4 DEF RunJob, SetEx
<1>5. ASSUME NEW r \in Redirects, GetHit(r) \/ GetMiss(r) \/ Select(r) PROVE KnownCommitted'
  BY <1>5 DEF GetHit, GetMiss, Select, Goto, Hit
<1>6. ASSUME NEW r \in Redirects, CheckFill(r) \/ CheckServe(r) \/ Done(r) PROVE KnownCommitted'
  BY <1>6 DEF CheckFill, CheckServe, Done, Goto
<1>7. ASSUME NEW r \in Redirects, Fill(r) PROVE KnownCommitted'
  BY <1>7 DEF Fill, SetEx, Goto
<1>8. CASE DeleteRow \/ Unlink \/ CommitDelete \/ AbortDelete \/ Purge
  BY <1>8 DEF DeleteRow, Unlink, CommitDelete, AbortDelete, Purge
<1>9. CASE Tick
  BY <1>9 DEF Tick
<1>10. CASE UNCHANGED vars
  BY <1>10 DEF vars
<1> QED
  BY <1>1, <1>2, <1>3, <1>4, <1>5, <1>6, <1>7, <1>8, <1>9, <1>10 DEF Next

-----------------------------------------------------------------------------
(* How late it is.  A create and its job, and a redirect that fills the      *)
(* cache, are at most MaxDelay behind the clock they computed with.          *)

Punctual ==
    /\ \A l \in Links :
        lpc[l] \in {"creating", "made", "sent"} => now <= expires[l] - Ttl[l] + MaxDelay
    /\ \A r \in Redirects :
        rpc[r] = "filling" => /\ rttl[r] > 0
                              /\ now <= expires[rlink[r]] - rttl[r] + MaxDelay

CacheInv == TypeOK /\ KnownCommitted /\ Punctual /\ StaleBounded

LEMMA CacheInit == Init => CacheInv
BY TypeInit DEF Init, CacheInv, KnownCommitted, Punctual, StaleBounded

LEMMA PunctualStep == CacheInv /\ [Next]_vars => Punctual'
<1> SUFFICES ASSUME CacheInv, [Next]_vars PROVE Punctual'
  OBVIOUS
<1> USE CacheAssumption DEF CacheInv, TypeOK, KnownCommitted, Committed, Punctual, cacheVars, redirectVars
\* The link of a redirect is committed, so its expire_at is not written again.
<1>1. ASSUME NEW l \in Links, CreateStart(l) PROVE Punctual'
  BY <1>1 DEF CreateStart
<1>2. ASSUME NEW l \in Links,
             CreateCommit(l) \/ CreateFails(l) \/ SendJob(l) \/ LoseJob(l) \/ RunJob(l)
      PROVE  Punctual'
  BY <1>2 DEF CreateCommit, CreateFails, SendJob, LoseJob, RunJob
<1>3. ASSUME NEW r \in Redirects, GetHit(r) \/ GetMiss(r) \/ Select(r) PROVE Punctual'
  BY <1>3 DEF GetHit, GetMiss, Select, Goto, Hit
<1>4. ASSUME NEW r \in Redirects, CheckFill(r) PROVE Punctual'
  BY <1>4 DEF CheckFill, Goto, Remaining
<1>5. ASSUME NEW r \in Redirects, CheckServe(r) \/ Done(r) \/ Fill(r) PROVE Punctual'
  BY <1>5 DEF CheckServe, Done, Fill, Goto
<1>6. CASE DeleteRow \/ Unlink \/ CommitDelete \/ AbortDelete \/ Purge
  BY <1>6 DEF DeleteRow, Unlink, CommitDelete, AbortDelete, Purge
<1>7. CASE Tick
  BY <1>7 DEF Tick, InTime, FillInTime
<1>8. CASE UNCHANGED vars
  BY <1>8 DEF vars
<1> QED
  BY <1>1, <1>2, <1>3, <1>4, <1>5, <1>6, <1>7, <1>8 DEF Next

LEMMA StaleStep == CacheInv /\ [Next]_vars => StaleBounded'
<1> SUFFICES ASSUME CacheInv, [Next]_vars PROVE StaleBounded'
  OBVIOUS
<1> USE CacheAssumption DEF CacheInv, TypeOK, StaleBounded, cacheVars, redirectVars
<1>1. ASSUME NEW l \in Links, CreateStart(l) PROVE StaleBounded'
  BY <1>1 DEF CreateStart, KnownCommitted, Committed
<1>2. ASSUME NEW l \in Links, CreateCommit(l) \/ CreateFails(l) \/ SendJob(l) \/ LoseJob(l)
      PROVE  StaleBounded'
  BY <1>2 DEF CreateCommit, CreateFails, SendJob, LoseJob
<1>3. ASSUME NEW l \in Links, RunJob(l) PROVE StaleBounded'
  <2>1. CacheTtl(l) \in Nat /\ CacheTtl(l) <= Ttl[l]
    BY DEF CacheTtl
  <2>2. now <= expires[l] - Ttl[l] + MaxDelay
    BY <1>3 DEF RunJob, Punctual
  <2> QED BY <1>3, <2>1, <2>2 DEF RunJob, SetEx
<1>4. ASSUME NEW r \in Redirects, Fill(r) PROVE StaleBounded'
  BY <1>4 DEF Fill, SetEx, Goto, Punctual
<1>5. ASSUME NEW r \in Redirects,
             GetHit(r) \/ GetMiss(r) \/ Select(r) \/ CheckFill(r) \/ CheckServe(r) \/ Done(r)
      PROVE  StaleBounded'
  BY <1>5 DEF GetHit, GetMiss, Select, CheckFill, CheckServe, Done
<1>6. CASE DeleteRow \/ Unlink \/ CommitDelete \/ AbortDelete \/ Purge
  BY <1>6 DEF DeleteRow, Unlink, CommitDelete, AbortDelete, Purge
<1>7. CASE Tick
  BY <1>7 DEF Tick
<1>8. CASE UNCHANGED vars
  BY <1>8 DEF vars
<1> QED
  BY <1>1, <1>2, <1>3, <1>4, <1>5, <1>6, <1>7, <1>8 DEF Next

LEMMA CacheStep == CacheInv /\ [Next]_vars => CacheInv'
BY TypeStep, KnownStep, PunctualStep, StaleStep DEF CacheInv

\* The cache outlives a link by the delay of the job or request that wrote it.
THEOREM CacheStaleBounded == Spec => []StaleBounded
<1>1. CacheInv => StaleBounded
  BY DEF CacheInv
<1> QED BY <1>1, CacheInit, CacheStep, PTL DEF Spec

-----------------------------------------------------------------------------
(* What a redirect answers, and what becomes of a link that is gone.         *)

\* The link a redirect is answered with has been committed and was alive
\* MaxDelay ago.
LEMMA ServedStep ==
    ASSUME CacheInv, [Next]_vars, NEW r \in Redirects, NEW l \in Links, Serves(r, l)
    PROVE  Committed(l) /\ now < expires[l] + MaxDelay
<1> USE CacheAssumption DEF CacheInv, TypeOK, KnownCommitted, Serves
\* Only three steps answer.
<1>1. GetHit(r) \/ CheckServe(r) \/ Fill(r)
  <2>1. ASSUME NEW q \in Redirects, GetHit(q) \/ CheckServe(q) \/ Fill(q)
        PROVE  q = r
    BY <2>1 DEF GetHit, CheckServe, Fill, Goto
  <2>2. ASSUME NEW q \in Redirects, GetMiss(q) \/ Select(q) \/ CheckFill(q) \/ Done(q)
        PROVE  FALSE
    BY <2>2 DEF GetMiss, Select, CheckFill, Done, Goto
  <2>3. UNCHANGED rpc => FALSE
    OBVIOUS
  <2>4. CASE \E k \in Links : \/ CreateStart(k) \/ CreateCommit(k) \/ CreateFails(k)
                              \/ SendJob(k) \/ LoseJob(k) \/ RunJob(k)
    BY <2>3, <2>4 DEF CreateStart, CreateCommit, CreateFails, SendJob, LoseJob, RunJob, redirectVars
  <2>5. CASE DeleteRow \/ Unlink \/ CommitDelete \/ AbortDelete \/ Purge \/ Tick
    BY <2>3, <2>5 DEF DeleteRow, Unlink, CommitDelete, AbortDelete, Purge, Tick, redirectVars
  <2>6. CASE UNCHANGED vars
    BY <2>3, <2>6 DEF vars
  <2> QED BY <2>1, <2>2, <2>4, <2>5, <2>6 DEF Next
<1>2. CASE GetHit(r)
  <2>1. l = cached[Asked[r]] /\ l # NoLink /\ now < cexp[Asked[r]]
    BY <1>2 DEF GetHit, Hit
  <2> QED BY <2>1 DEF StaleBounded
<1>3. CASE CheckServe(r)
  <2>1. l = rlink[r] /\ l # NoLink /\ now < expires[l]
    BY <1>3 DEF CheckServe, Remaining
  <2> QED BY <2>1
<1>4. CASE Fill(r)
  <2>1. l = rlink[r] /\ l # NoLink /\ rpc[r] = "filling"
    BY <1>4 DEF Fill
  <2> QED BY <2>1 DEF Punctual
<1> QED BY <1>1, <1>2, <1>3, <1>4

\* A redirect only leads where a committed create said.
THEOREM OnlyCommittedServed == Spec => ServesCommitted
<1>1. CacheInv /\ [Next]_vars => [\A r \in Redirects, l \in Links : Serves(r, l) => Committed(l)]_vars
  BY ServedStep
<1> QED BY <1>1, CacheInit, CacheStep, PTL DEF Spec, ServesCommitted

\* No redirect leads to a link that expired MaxDelay ago.
THEOREM OnlyFreshServed == Spec => ServesFresh
<1>1. CacheInv /\ [Next]_vars
        => [\A r \in Redirects, l \in Links : Serves(r, l) => now < expires[l] + MaxDelay]_vars
  BY ServedStep
<1> QED BY <1>1, CacheInit, CacheStep, PTL DEF Spec, ServesFresh

LEMMA SettledStep ==
    ASSUME CacheInv, [Next]_vars, NEW l \in Links, Settled(l)
    PROVE  Settled(l)'
<1> USE CacheAssumption DEF CacheInv, TypeOK, KnownCommitted, Settled, Hit, cacheVars, redirectVars
<1>1. ASSUME NEW k \in Links,
             CreateStart(k) \/ CreateCommit(k) \/ CreateFails(k) \/ SendJob(k) \/ LoseJob(k)
      PROVE  Settled(l)'
  BY <1>1 DEF CreateStart, CreateCommit, CreateFails, SendJob, LoseJob
\* The job of another link.
<1>2. ASSUME NEW k \in Links, RunJob(k) PROVE Settled(l)'
  BY <1>2 DEF RunJob, SetEx
\* Neither the cache nor the row is l's.
<1>3. ASSUME NEW r \in Redirects, GetHit(r) \/ GetMiss(r) \/ Select(r) PROVE Settled(l)'
  BY <1>3 DEF GetHit, GetMiss, Select
<1>4. ASSUME NEW r \in Redirects, CheckFill(r) \/ CheckServe(r) \/ Done(r) PROVE Settled(l)'
  BY <1>4 DEF CheckFill, CheckServe, Done
<1>5. ASSUME NEW r \in Redirects, Fill(r) PROVE Settled(l)'
  BY <1>5 DEF Fill, SetEx
<1>6. CASE DeleteRow \/ Unlink \/ CommitDelete \/ AbortDelete \/ Purge \/ Tick
  BY <1>6 DEF DeleteRow, Unlink, CommitDelete, AbortDelete, Purge, Tick
<1>7. CASE UNCHANGED vars
  BY <1>7 DEF vars
<1> QED BY <1>1, <1>2, <1>3, <1>4, <1>5, <1>6, <1>7 DEF Next

\* A deleted link nobody has in hand never comes back.
THEOREM NoneComesBack == Spec => GoneForGood
<1>1. CacheInv /\ [Next]_vars => [\A l \in Links : Settled(l) => Settled(l)']_vars
  BY SettledStep
<1> QED BY <1>1, CacheInit, CacheStep, PTL DEF Spec, GoneForGood
=============================================================================
