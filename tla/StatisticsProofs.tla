-------------------------- MODULE StatisticsProofs --------------------------
(***************************************************************************)
(* Proofs about what a user is told of the use of a link: its click count  *)
(* (ClickCount), for every set of codes and visits and any number of       *)
(* failures, and its visits by day (DailyStats), for every length of the   *)
(* day, zone, number of days and set of visits.                            *)
(***************************************************************************)
EXTENDS ClickCount, DailyStats, FiniteSetTheorems, TLAPS

LEMMA TypeInit == Init => TypeOK
BY ClickAssumption DEF Init, TypeOK

LEMMA TypeStep == TypeOK /\ [Next]_vars => TypeOK'
<1> SUFFICES ASSUME TypeOK, [Next]_vars PROVE TypeOK'
  OBVIOUS
<1> USE ClickAssumption DEF TypeOK, keyVars, syncVars, history, Fails, SyncEnds
<1>1. ASSUME NEW c \in Codes, SetClickCount(c) \/ KeyExpires(c) PROVE TypeOK'
  <2>1. CASE SetClickCount(c) BY <2>1 DEF SetClickCount
  <2>2. CASE KeyExpires(c)    BY <2>2 DEF KeyExpires
  <2> QED BY <1>1, <2>1, <2>2
<1>2. ASSUME NEW v \in Visits, IncrClick(v) PROVE TypeOK'
  BY <1>2 DEF IncrClick
<1>3. ASSUME NEW v \in Visits, IncrFails(v) PROVE TypeOK'
  BY <1>3 DEF IncrFails
<1>4. CASE SyncStart
  BY <1>4 DEF SyncStart, Present
<1>5. ASSUME NEW c \in Codes, ReadKey(c) PROVE TypeOK'
  BY <1>5 DEF ReadKey
<1>6. CASE UpdateClicks
  BY <1>6 DEF UpdateClicks
<1>7. CASE ResetKey
  BY <1>7 DEF ResetKey
<1>8. CASE ScanEnds
  BY <1>8 DEF ScanEnds
<1>9. CASE SyncFails
  BY <1>9 DEF SyncFails
<1>10. ASSUME NEW c \in Codes, DeleteLink(c) \/ CommitDelete(c) \/ PurgeExpired(c) PROVE TypeOK'
  BY <1>10 DEF DeleteLink, CommitDelete, PurgeExpired
<1>11. ASSUME NEW c \in Codes, Unlink(c) PROVE TypeOK'
  BY <1>11 DEF Unlink
<1>12. ASSUME NEW c \in Codes, AbortDelete(c) PROVE TypeOK'
  BY <1>12 DEF AbortDelete
<1>13. CASE UNCHANGED vars
  BY <1>13 DEF vars
<1> QED
  BY <1>1, <1>2, <1>3, <1>4, <1>5, <1>6, <1>7, <1>8, <1>9, <1>10, <1>11, <1>12, <1>13
  DEF Next, SyncStep

\* Every variable keeps its type.
THEOREM TypeCorrect == Spec => []TypeOK
<1>1. QED BY TypeInit, TypeStep, PTL DEF Spec

-----------------------------------------------------------------------------
(* Where the clicks are.  The sync holds a value it read; while nobody       *)
(* incremented or dropped the counter since, the counter still has it.       *)

HoldsTheCounter ==
    \A c \in Codes :
        code = c /\ c \notin raced \union dropped => got = counter[c]

AccountInv == TypeOK /\ Accounted /\ HoldsTheCounter

LEMMA AccountInit == Init => Accounted /\ HoldsTheCounter
BY ClickAssumption DEF Init, Accounted, HoldsTheCounter, CountedTwice

LEMMA AccountStep == AccountInv /\ [Next]_vars => Accounted' /\ HoldsTheCounter'
<1> SUFFICES ASSUME AccountInv, [Next]_vars PROVE Accounted' /\ HoldsTheCounter'
  OBVIOUS
<1> USE ClickAssumption DEF AccountInv, Accounted, HoldsTheCounter, CountedTwice, TypeOK,
        keyVars, syncVars, history, Fails, SyncEnds
<1>1. ASSUME NEW c \in Codes, SetClickCount(c) PROVE Accounted' /\ HoldsTheCounter'
  BY <1>1 DEF SetClickCount
<1>2. ASSUME NEW c \in Codes, KeyExpires(c) PROVE Accounted' /\ HoldsTheCounter'
  BY <1>2 DEF KeyExpires
<1>3. ASSUME NEW v \in Visits, IncrClick(v) PROVE Accounted' /\ HoldsTheCounter'
  BY <1>3 DEF IncrClick
<1>4. CASE SyncStart
  BY <1>4 DEF SyncStart
<1>5. ASSUME NEW c \in Codes, ReadKey(c) PROVE Accounted' /\ HoldsTheCounter'
  BY <1>5 DEF ReadKey
<1>6. CASE UpdateClicks
  BY <1>6 DEF UpdateClicks
<1>7. CASE ResetKey
  BY <1>7 DEF ResetKey
<1>8. CASE ScanEnds
  BY <1>8 DEF ScanEnds
\* After a failure Accounted says nothing.
<1>9. CASE SyncFails
  BY <1>9 DEF SyncFails
<1>10. ASSUME NEW v \in Visits, IncrFails(v) PROVE Accounted' /\ HoldsTheCounter'
  BY <1>10 DEF IncrFails
<1>11. ASSUME NEW c \in Codes, AbortDelete(c) PROVE Accounted' /\ HoldsTheCounter'
  BY <1>11 DEF AbortDelete
<1>12. ASSUME NEW c \in Codes, DeleteLink(c) \/ CommitDelete(c) \/ PurgeExpired(c)
       PROVE  Accounted' /\ HoldsTheCounter'
  BY <1>12 DEF DeleteLink, CommitDelete, PurgeExpired
<1>13. ASSUME NEW c \in Codes, Unlink(c) PROVE Accounted' /\ HoldsTheCounter'
  BY <1>13 DEF Unlink
<1>14. CASE UNCHANGED vars
  BY <1>14 DEF vars
<1> QED
  BY <1>1, <1>2, <1>3, <1>4, <1>5, <1>6, <1>7, <1>8, <1>9, <1>10, <1>11, <1>12, <1>13, <1>14
  DEF Next, SyncStep

\* Clicks are lost only by an increment during a sync or with a dropped
\* counter, and counted twice only after a failure.
THEOREM ClicksAccounted == Spec => []Accounted
<1>1. Init => AccountInv
  BY TypeInit, AccountInit DEF AccountInv
<1>2. AccountInv /\ [Next]_vars => AccountInv'
  BY TypeStep, AccountStep DEF AccountInv
<1>3. AccountInv => Accounted
  BY DEF AccountInv
<1> QED BY <1>1, <1>2, <1>3, PTL DEF Spec

-----------------------------------------------------------------------------
(* The upper bound, races and deletes included.                              *)

NoOvercount == \A c \in Codes : failures = 0 => clickCount[c] <= clicks[c]

\* What MySQL and the sync or the counter will make of a code's clicks.
Potential ==
    \A c \in Codes : failures = 0 =>
        /\ clickCount[c] <= clicks[c]
        /\ cpc = "updating" /\ code = c => clickCount[c] + got <= clicks[c]
        /\ code # c => clickCount[c] + counter[c] <= clicks[c]

PotentialInv == TypeOK /\ Potential

LEMMA PotentialStep == PotentialInv /\ [Next]_vars => Potential'
<1> SUFFICES ASSUME PotentialInv, [Next]_vars PROVE Potential'
  OBVIOUS
<1> USE ClickAssumption DEF PotentialInv, Potential, TypeOK, keyVars, syncVars, history, Fails, SyncEnds
<1>1. ASSUME NEW c \in Codes, SetClickCount(c) \/ KeyExpires(c) PROVE Potential'
  BY <1>1 DEF SetClickCount, KeyExpires
<1>2. ASSUME NEW v \in Visits, IncrClick(v) PROVE Potential'
  BY <1>2 DEF IncrClick
<1>3. CASE SyncStart
  BY <1>3 DEF SyncStart
<1>4. ASSUME NEW c \in Codes, ReadKey(c) PROVE Potential'
  BY <1>4 DEF ReadKey
<1>5. CASE UpdateClicks
  BY <1>5 DEF UpdateClicks
<1>6. CASE ResetKey
  BY <1>6 DEF ResetKey
<1>7. CASE ScanEnds
  BY <1>7 DEF ScanEnds
<1>8. CASE SyncFails \/ \E v \in Visits : IncrFails(v)
  BY <1>8 DEF SyncFails, IncrFails
<1>9. ASSUME NEW c \in Codes, AbortDelete(c) PROVE Potential'
  BY <1>9 DEF AbortDelete
<1>10. ASSUME NEW c \in Codes, DeleteLink(c) \/ CommitDelete(c) \/ PurgeExpired(c) PROVE Potential'
  BY <1>10 DEF DeleteLink, CommitDelete, PurgeExpired
<1>11. ASSUME NEW c \in Codes, Unlink(c) PROVE Potential'
  BY <1>11 DEF Unlink
<1>12. CASE UNCHANGED vars
  BY <1>12 DEF vars
<1> QED
  BY <1>1, <1>2, <1>3, <1>4, <1>5, <1>6, <1>7, <1>8, <1>9, <1>10, <1>11, <1>12
  DEF Next, SyncStep

\* As long as nothing fails MySQL never has more clicks than there were.
THEOREM NeverOvercounted == Spec => []NoOvercount
<1>1. Init => PotentialInv
  BY TypeInit, ClickAssumption DEF Init, PotentialInv, Potential
<1>2. PotentialInv /\ [Next]_vars => PotentialInv'
  BY TypeStep, PotentialStep DEF PotentialInv
<1>3. PotentialInv => NoOvercount
  BY DEF PotentialInv, Potential, NoOvercount
<1> QED BY <1>1, <1>2, <1>3, PTL DEF Spec

-----------------------------------------------------------------------------
(* The same bound with failures.  Each failure can leave one counter that    *)
(* MySQL has already added and that will be added once more, and a counter   *)
(* never has more than the clicks of its link.                               *)

Cap(f, n) == (f + 1) * n

LEMMA CapFacts ==
    ASSUME NEW f \in Nat, NEW n \in Nat
    PROVE  /\ Cap(f, n) \in Nat
           /\ Cap(f, n + 1) >= Cap(f, n) + 1
           /\ Cap(f + 1, n) = Cap(f, n) + n
BY DEF Cap

\* What MySQL, the sync and the counter will make of a code's clicks, however
\* often the sync fails.
Backed(c) ==
    /\ counter[c] <= clicks[c]
    /\ clickCount[c] <= Cap(failures, clicks[c])
    /\ cpc = "updating" /\ code = c => clickCount[c] + got <= Cap(failures, clicks[c])
    /\ ~(cpc = "resetting" /\ code = c) => clickCount[c] + counter[c] <= Cap(failures, clicks[c])

BackedInv == TypeOK /\ \A c \in Codes : Backed(c)

LEMMA BackedStep == BackedInv /\ [Next]_vars => \A c \in Codes : Backed(c)'
<1> SUFFICES ASSUME BackedInv, [Next]_vars, NEW d \in Codes PROVE Backed(d)'
  OBVIOUS
<1>0. /\ failures \in Nat /\ clicks[d] \in Nat /\ counter[d] \in Nat
      /\ clickCount[d] \in Nat /\ got \in Nat
  BY ClickAssumption DEF BackedInv, TypeOK
<1>b. /\ Cap(failures, clicks[d]) \in Nat
      /\ Cap(failures, clicks[d] + 1) >= Cap(failures, clicks[d]) + 1
      /\ Cap(failures + 1, clicks[d]) = Cap(failures, clicks[d]) + clicks[d]
  BY <1>0, CapFacts
<1> USE ClickAssumption, <1>0, <1>b DEF BackedInv, Backed, TypeOK, keyVars, syncVars, history, SyncEnds
<1>1. ASSUME NEW c \in Codes, SetClickCount(c) PROVE Backed(d)'
  BY <1>1 DEF SetClickCount
<1>2. ASSUME NEW c \in Codes, KeyExpires(c) PROVE Backed(d)'
  BY <1>2 DEF KeyExpires
<1>3. ASSUME NEW v \in Visits, IncrClick(v) PROVE Backed(d)'
  <2>1. CASE CodeOf[v] = d
    <3>1. /\ clicks'[d] = clicks[d] + 1 /\ counter'[d] = counter[d] + 1
          /\ UNCHANGED <<failures, clickCount, cpc, code, got>>
      BY <1>3, <2>1 DEF IncrClick
    <3>2. Cap(failures, clicks[d])' = Cap(failures, clicks[d] + 1)
      BY <3>1
    <3>3. /\ counter[d] <= clicks[d]
          /\ clickCount[d] <= Cap(failures, clicks[d])
          /\ cpc = "updating" /\ code = d => clickCount[d] + got <= Cap(failures, clicks[d])
          /\ ~(cpc = "resetting" /\ code = d)
               => clickCount[d] + counter[d] <= Cap(failures, clicks[d])
      OBVIOUS
    <3>4. Cap(failures, clicks[d] + 1) \in Nat
      BY CapFacts
    <3> HIDE DEF TypeOK, BackedInv
    <3> QED BY <3>1, <3>2, <3>3, <3>4
  <2>2. CASE CodeOf[v] # d
    <3>1. clicks'[d] = clicks[d] /\ counter'[d] = counter[d]
      BY <1>3, <2>2 DEF IncrClick
    <3> QED BY <1>3, <2>2, <3>1 DEF IncrClick
  <2> QED BY <2>1, <2>2
<1>4. CASE SyncStart
  BY <1>4 DEF SyncStart
<1>5. ASSUME NEW c \in Codes, ReadKey(c) PROVE Backed(d)'
  BY <1>5 DEF ReadKey
<1>6. CASE UpdateClicks
  BY <1>6 DEF UpdateClicks
<1>7. CASE ResetKey
  BY <1>7 DEF ResetKey
<1>8. CASE ScanEnds
  BY <1>8 DEF ScanEnds
\* One more failure, and what was being reset will be added again.
<1>9. CASE SyncFails
  BY <1>9 DEF SyncFails, Fails
<1>10. ASSUME NEW v \in Visits, IncrFails(v) PROVE Backed(d)'
  BY <1>10 DEF IncrFails, Fails
<1>11. ASSUME NEW c \in Codes, AbortDelete(c) PROVE Backed(d)'
  BY <1>11 DEF AbortDelete, Fails
<1>12. ASSUME NEW c \in Codes, DeleteLink(c) \/ CommitDelete(c) \/ PurgeExpired(c) PROVE Backed(d)'
  BY <1>12 DEF DeleteLink, CommitDelete, PurgeExpired
<1>13. ASSUME NEW c \in Codes, Unlink(c) PROVE Backed(d)'
  BY <1>13 DEF Unlink
<1>14. CASE UNCHANGED vars
  BY <1>14 DEF vars
<1> QED
  BY <1>1, <1>2, <1>3, <1>4, <1>5, <1>6, <1>7, <1>8, <1>9, <1>10, <1>11, <1>12, <1>13, <1>14
  DEF Next, SyncStep

\* MySQL never has more of a link's clicks than there were, once, and once more
\* for each failure.
THEOREM OvercountIsBounded == Spec => []OvercountBounded
<1>1. Init => BackedInv
  <2> SUFFICES ASSUME Init PROVE BackedInv
    OBVIOUS
  <2>1. Cap(0, 0) \in Nat
    BY CapFacts
  <2> QED BY <2>1, TypeInit, ClickAssumption DEF Init, BackedInv, Backed
<1>2. BackedInv /\ [Next]_vars => BackedInv'
  BY TypeStep, BackedStep DEF BackedInv
<1>3. BackedInv => OvercountBounded
  BY DEF BackedInv, Backed, Cap, OvercountBounded
<1> QED BY <1>1, <1>2, <1>3, PTL DEF Spec

-----------------------------------------------------------------------------
(* The statistics by day, which have a state of their own.                   *)

\* The day of a local time is the last one that has begun by then.
LEMMA DayBegun ==
    ASSUME NEW n \in Nat \ {0}, NEW x \in Int, NEW d \in Int
    PROVE  x \div n \in Int /\ (d <= x \div n <=> d * n <= x)
<1>1. x \div n \in Int /\ (x \div n) * n <= x /\ x < (x \div n) * n + n
  OBVIOUS
<1>2. ASSUME NEW p \in Int, NEW q \in Int PROVE p <= q <=> p * n < q * n + n
  OBVIOUS
<1>3. ASSUME NEW p \in Int, NEW q \in Int, p <= q PROVE p * n <= q * n
  BY <1>3
<1>4. d * n \in Int /\ (x \div n) * n \in Int
  BY <1>1
<1> QED BY <1>1, <1>2, <1>3, <1>4

\* Days before are as many days earlier.
LEMMA DaysBefore ==
    ASSUME NEW n \in Nat \ {0}, NEW x \in Int, NEW k \in Int
    PROVE  (x - k * n) \div n = (x \div n) - k
OBVIOUS

LEMMA LaterDay ==
    ASSUME NEW n \in Nat \ {0}, NEW x \in Int, NEW y \in Int, x <= y
    PROVE  x \div n <= y \div n
<1>1. x \div n \in Int /\ (x \div n) * n <= x /\ (x \div n) * n \in Int
  OBVIOUS
<1>2. (x \div n) * n <= y
  BY <1>1
<1> QED BY <1>1, <1>2, DayBegun

\* What the request and the table are, and stay.
Input ==
    /\ zone \in Zones
    /\ days \in 1..(MaxDays + 1)
    /\ now \in Instants
    /\ visits \in Tables

\* An instant is local to the offset before or after the switch.
LEMMA LocalFacts ==
    ASSUME Input
    PROVE  /\ DayLen \in Nat \ {0} /\ days \in Nat \ {0} /\ now \in Int /\ visits \subseteq Int
           /\ zone.switch \in Int /\ zone.before \in Int /\ zone.after \in Int
           /\ zone.after - zone.before <= DayLen /\ zone.before - zone.after <= DayLen
           /\ \A t \in Int : /\ Offset(t) = IF t < zone.switch THEN zone.before ELSE zone.after
                             /\ Local(t) = t + Offset(t)
                             /\ Local(t) \in Int
<1>1. /\ DayLen \in Nat \ {0} /\ MaxDays \in Nat
      /\ Instants \subseteq Int /\ Offsets \subseteq Int
  BY DailyStatsAssumption
<1>2. /\ days \in Nat \ {0} /\ now \in Int /\ visits \subseteq Int
      /\ zone.switch \in Int /\ zone.before \in Int /\ zone.after \in Int
      /\ zone.after - zone.before \in (-DayLen)..DayLen
  <2>1. days \in 1..(MaxDays + 1) /\ now \in Instants
    BY DEF Input
  <2>2. visits \subseteq Instants
    BY DEF Input, Tables
  <2>3. /\ zone \in [switch : Instants, before : Offsets, after : Offsets]
        /\ zone.after - zone.before \in (-DayLen)..DayLen
    BY DEF Input, Zones
  <2>4. zone.switch \in Instants /\ zone.before \in Offsets /\ zone.after \in Offsets
    BY <2>3
  <2>5. days \in Nat \ {0} /\ now \in Int /\ visits \subseteq Int
    BY <1>1, <2>1, <2>2
  <2>6. zone.switch \in Int /\ zone.before \in Int /\ zone.after \in Int
    BY <1>1, <2>4
  <2> QED BY <2>3, <2>5, <2>6
<1>3. zone.after - zone.before <= DayLen /\ zone.before - zone.after <= DayLen
  BY <1>1, <1>2
<1>4. ASSUME NEW t \in Int
      PROVE  /\ Offset(t) = IF t < zone.switch THEN zone.before ELSE zone.after
             /\ Local(t) = t + Offset(t)
             /\ Local(t) \in Int
  BY <1>2 DEF Local, Offset
<1> QED BY <1>1, <1>2, <1>3, <1>4

LEMMA DayFacts ==
    ASSUME Input
    PROVE  /\ FirstDay \in Int /\ Today \in Int
           /\ \A t \in Int, d \in Int : /\ Day(Local(t)) \in Int
                                        /\ d <= Day(Local(t)) <=> d * DayLen <= Local(t)
<1>1. now - (days - 1) * DayLen \in Int
  BY LocalFacts
<1>2. \A t \in Int, d \in Int : /\ Day(Local(t)) \in Int
                                /\ d <= Day(Local(t)) <=> d * DayLen <= Local(t)
  BY LocalFacts, DayBegun DEF Day
<1>3. \A t \in Int : Day(Local(t)) \in Int
  <2>1. 0 \in Int
    OBVIOUS
  <2> QED BY <1>2, <2>1
<1>4. FirstDay \in Int /\ Today \in Int
  BY <1>1, <1>3, LocalFacts DEF FirstDay, Today
<1> QED BY <1>2, <1>4

\* A midnight that comes once, at "start", parts the days: no visit before it is
\* of its day or a later one.
LEMMA NothingCutOff ==
    ASSUME Input,
           NEW d \in Int, NEW start, Utc(d * DayLen) = {start},
           NEW t \in Int, d <= Day(Local(t))
    PROVE  start <= t
<1> DEFINE L == d * DayLen
           b == L - zone.before
           a == L - zone.after
<1>1. /\ DayLen \in Nat \ {0} /\ L \in Int
      /\ zone.switch \in Int /\ zone.before \in Int /\ zone.after \in Int
  BY LocalFacts
<1>2. L <= Local(t)
  BY DayFacts
<1>3. /\ Local(t) = t + Offset(t)
      /\ Offset(t) = IF t < zone.switch THEN zone.before ELSE zone.after
  BY LocalFacts
<1> HIDE DEF L
<1>4. /\ a \in Int /\ b \in Int
      /\ Local(a) = L <=> a >= zone.switch \/ zone.before = zone.after
      /\ Local(b) = L <=> b < zone.switch \/ zone.before = zone.after
  BY <1>1, LocalFacts
<1>5. /\ a >= zone.switch => a = start
      /\ b < zone.switch => b = start
      /\ start \in {a, b} /\ Local(start) = L
  <2>1. start \in {a, b} /\ Local(start) = L
    BY DEF Utc, L
  <2>2. \A x \in {a, b} : Local(x) = L => x = start
    BY DEF Utc, L
  <2> QED BY <1>4, <2>1, <2>2
<1>6. CASE t < zone.switch
  <2>1. b <= t
    BY <1>1, <1>2, <1>3, <1>6
  <2> QED BY <1>1, <1>4, <1>5, <1>6, <2>1
<1>7. CASE t >= zone.switch
  <2>1. a <= t
    BY <1>1, <1>2, <1>3, <1>7
  <2>2. start = a \/ b < zone.switch
    BY <1>4, <1>5
  <2> QED BY <1>1, <1>4, <1>5, <1>7, <2>1, <2>2
<1> QED BY <1>1, <1>6, <1>7

\* Only a switch near its midnight takes a day's start away or doubles it.
LEMMA MidnightOnce ==
    ASSUME Input, NEW L \in Int, Cardinality(Utc(L)) # 1
    PROVE  /\ zone.before # zone.after
           /\ zone.switch - (L - zone.before) \in (-DayLen)..DayLen
<1> DEFINE b == L - zone.before
           a == L - zone.after
<1>1. /\ DayLen \in Nat
      /\ zone.switch \in Int /\ zone.before \in Int /\ zone.after \in Int
      /\ zone.after - zone.before <= DayLen /\ zone.before - zone.after <= DayLen
  BY LocalFacts
<1>2. /\ a \in Int /\ b \in Int
      /\ Local(a) = L <=> a >= zone.switch \/ zone.before = zone.after
      /\ Local(b) = L <=> b < zone.switch \/ zone.before = zone.after
  BY <1>1, LocalFacts
<1>3. \A x : Utc(L) # {x}
  BY FS_Singleton
<1>4. zone.before # zone.after
  <2>1. SUFFICES ASSUME zone.before = zone.after PROVE Utc(L) = {b}
    BY <1>3
  <2> QED BY <1>2, <2>1 DEF Utc
<1>5. ~(a >= zone.switch /\ b >= zone.switch)
  <2>1. SUFFICES ASSUME a >= zone.switch, b >= zone.switch PROVE Utc(L) = {a}
    BY <1>3
  <2>2. Local(a) = L /\ Local(b) # L
    BY <1>1, <1>2, <1>4, <2>1
  <2> QED BY <2>2 DEF Utc
<1>6. ~(a < zone.switch /\ b < zone.switch)
  <2>1. SUFFICES ASSUME a < zone.switch, b < zone.switch PROVE Utc(L) = {b}
    BY <1>3
  <2>2. Local(a) # L /\ Local(b) = L
    BY <1>1, <1>2, <1>4, <2>1
  <2> QED BY <2>2 DEF Utc
<1> QED BY <1>1, <1>2, <1>4, <1>5, <1>6

-----------------------------------------------------------------------------
(* A request takes one step.  The four properties hold of it together with   *)
(* what was asked, which no step changes.                                    *)

Correct ==
    [d \in FirstDay..Today |->
        Cardinality({v \in visits : v <= now /\ Day(Local(v)) = d})]

AnswerInv ==
    /\ Input
    /\ status \in {"asked", "bad_request", "not_found", "internal_error", "answered"}
    /\ status = "answered" =>
          /\ \E start : Utc(FirstDay * DayLen) = {start}
          /\ rows = Correct
    /\ status = "internal_error" => Cardinality(Utc(FirstDay * DayLen)) # 1

LEMMA AnswerInit == StatsInit => AnswerInv
BY DEF StatsInit, AnswerInv, Input

LEMMA AnswerStep ==
    ASSUME AnswerInv, [StatsNext]_statsVars
    PROVE  AnswerInv'
<1>1. UNCHANGED <<zone, days, now, visits>>
  BY DEF StatsNext, TooManyDays, NotFound, Ambiguous, Answer, statsVars
<1>2. /\ Input'
      /\ FirstDay' = FirstDay /\ Today' = Today
      /\ \A x : Utc(x)' = Utc(x)
      /\ Correct' = Correct
  BY <1>1 DEF AnswerInv, Input, FirstDay, Today, Utc, Day, Local,
              Offset, Correct
<1>3. CASE Answer
  <2>1. PICK start \in Utc(FirstDay * DayLen) :
          /\ Utc(FirstDay * DayLen) = {start}
          /\ rows' = [d \in FirstDay..Today |->
                Cardinality({v \in VisitsSince(start) : Day(Local(v)) = d})]
    BY <1>3 DEF Answer
  <2>2. ASSUME NEW d \in FirstDay..Today
        PROVE  {v \in VisitsSince(start) : Day(Local(v)) = d}
                 = {v \in visits : v <= now /\ Day(Local(v)) = d}
    <3>1. FirstDay \in Int /\ d \in Int /\ FirstDay <= d /\ visits \subseteq Int
      BY DayFacts, LocalFacts DEF AnswerInv
    <3>2. ASSUME NEW v \in visits, Day(Local(v)) = d PROVE start <= v
      BY <2>1, <3>1, <3>2, NothingCutOff DEF AnswerInv
    <3> QED BY <3>2 DEF VisitsSince
  <2>3. status' = "answered"
    BY <1>3 DEF Answer
  <2>4. rows' = Correct'
    BY <1>2, <2>1, <2>2 DEF Correct
  <2> QED BY <1>2, <2>1, <2>3, <2>4 DEF AnswerInv
<1>4. CASE Ambiguous
  BY <1>1, <1>2, <1>4 DEF Ambiguous, AnswerInv
<1>5. CASE TooManyDays \/ NotFound
  BY <1>1, <1>2, <1>5 DEF TooManyDays, NotFound, AnswerInv
<1>6. CASE UNCHANGED statsVars
  BY <1>1, <1>2, <1>6 DEF statsVars, AnswerInv
<1> QED BY <1>3, <1>4, <1>5, <1>6 DEF StatsNext

LEMMA AnswerInvariance == StatsSpec => []AnswerInv
<1>1. AnswerInv /\ [StatsNext]_statsVars => AnswerInv'
  BY AnswerStep
<1> QED BY <1>1, AnswerInit, PTL DEF StatsSpec

\* Each day listed has exactly its visits up to now: for any zone, wherever in
\* the period its offset changes, the range computed in UTC from the first local
\* midnight takes nothing from a day and adds nothing (models/link.rs:661-706).
THEOREM EachDayHasItsVisits == StatsSpec => []DaysComplete
<1>1. AnswerInv => DaysComplete
  BY DEF AnswerInv, Correct, DaysComplete
<1> QED BY <1>1, AnswerInvariance, PTL

\* A request is refused only if the offset changes within a day of the first
\* midnight (models/link.rs:666-672).
THEOREM OnlySwitchesRefuse == StatsSpec => []RefusedOnlyAtSwitch
<1>1. ASSUME AnswerInv PROVE RefusedOnlyAtSwitch
  <2>1. FirstDay * DayLen \in Int
    BY <1>1, DayFacts, LocalFacts DEF AnswerInv
  <2> QED BY <1>1, <2>1, MidnightOnce DEF AnswerInv, RefusedOnlyAtSwitch
<1> QED BY <1>1, AnswerInvariance, PTL

\* The answer has its type: no day has more visits than there are.
THEOREM AnswersTyped == StatsSpec => []StatsTypeOK
<1>1. ASSUME AnswerInv PROVE StatsTypeOK
  <2>1. IsFiniteSet(visits)
    BY <1>1 DEF AnswerInv, Input, Tables
  <2>2. ASSUME NEW S, S \subseteq visits
        PROVE  Cardinality(S) \in 0..Cardinality(visits)
    BY <2>1, <2>2, FS_Subset, FS_CardinalityType
  <2>3. status = "answered" => \A d \in DOMAIN rows : rows[d] \in 0..Cardinality(visits)
    <3>1. SUFFICES ASSUME status = "answered", NEW d \in DOMAIN rows
                   PROVE  rows[d] \in 0..Cardinality(visits)
      OBVIOUS
    <3>2. rows[d] = Cardinality({v \in visits : v <= now /\ Day(Local(v)) = d})
      BY <1>1, <3>1 DEF AnswerInv, Correct
    <3> QED BY <2>2, <3>2
  <2>4. /\ status \in {"asked", "bad_request", "not_found", "internal_error", "answered"}
        /\ days \in 1..(MaxDays + 1) /\ now \in Instants /\ visits \subseteq Instants
    BY <1>1 DEF AnswerInv, Input, Tables
  <2> QED BY <2>3, <2>4 DEF StatsTypeOK
<1> QED BY <1>1, AnswerInvariance, PTL

\* The days listed are those asked for, today the last of them, if the offset was
\* the same at the start of the period; if not, one more or one less, since no
\* offset changes by more than a day (models/link.rs:661-675).
THEOREM DaysAskedAreListed == StatsSpec => []DaysListed
<1>1. ASSUME AnswerInv PROVE DaysListed
  <2> DEFINE k == days - 1
             F == FirstDay
             T == Today
             old == now - k * DayLen
  <2>1. SUFFICES ASSUME status = "answered" PROVE DaysListed
    BY DEF DaysListed
  <2>2. /\ DayLen \in Nat \ {0} /\ k \in Nat /\ days = k + 1 /\ now \in Int
        /\ F \in Int /\ T \in Int
    <3>1. DayLen \in Nat \ {0} /\ days \in Nat \ {0} /\ now \in Int
      BY <1>1, LocalFacts DEF AnswerInv
    <3>2. F \in Int /\ T \in Int
      BY <1>1, DayFacts DEF AnswerInv
    <3> QED BY <3>1, <3>2
  <2>3. k * DayLen \in Int /\ old \in Int
    BY <2>2
  <2>4. DOMAIN rows = F..T
    BY <1>1, <2>1 DEF AnswerInv, Correct
  <2>5. /\ Local(now) = now + Offset(now) /\ Local(old) = old + Offset(old)
        /\ Local(now) \in Int /\ Local(old) \in Int
        /\ Offset(now) \in Int /\ Offset(old) \in Int
        /\ Offset(now) - Offset(old) \in (-DayLen)..DayLen
    BY <1>1, <2>2, <2>3, LocalFacts DEF AnswerInv
  \* The day of today's local time k days ago, and one more or less.
  <2>6. /\ (Local(now) - k * DayLen) \div DayLen = T - k
        /\ (Local(now) - (k + 1) * DayLen) \div DayLen = T - (k + 1)
        /\ (Local(now) - (k - 1) * DayLen) \div DayLen = T - (k - 1)
    BY <2>2, <2>5, DaysBefore DEF Today, Day
  <2>7. F = Local(old) \div DayLen
    BY DEF FirstDay, Day
  <2> DEFINE off == Offset(now) - Offset(old)
             here == Local(now)
             kd == k * DayLen
  <2>8. /\ (k + 1) * DayLen = kd + DayLen /\ (k - 1) * DayLen = kd - DayLen
        /\ Local(old) = here - kd - off
        /\ kd \in Int /\ here \in Int /\ off \in (-DayLen)..DayLen
    <3>1. (k + 1) * DayLen = kd + DayLen /\ (k - 1) * DayLen = kd - DayLen
      BY <2>2
    <3>2. kd \in Int /\ here \in Int /\ off \in (-DayLen)..DayLen
      BY <2>3, <2>5
    <3>3. old = now - kd
      OBVIOUS
    <3> HIDE DEF kd, old
    <3>4. Local(old) = here - kd - off
      BY <2>2, <2>5, <3>2, <3>3
    <3> QED BY <3>1, <3>2, <3>4
  <2>9. Offset(now) = Offset(old) => F = T - k
    BY <2>5, <2>6, <2>7, <2>8
  <2>10. F >= T - (k + 1) /\ F <= T - (k - 1)
    <3>1. here - (k + 1) * DayLen \in Int /\ here - (k - 1) * DayLen \in Int
      BY <2>2, <2>8
    <3>2. here - (k + 1) * DayLen <= Local(old) /\ Local(old) <= here - (k - 1) * DayLen
      BY <2>2, <2>8
    <3>3. /\ (here - (k + 1) * DayLen) \div DayLen <= Local(old) \div DayLen
          /\ Local(old) \div DayLen <= (here - (k - 1) * DayLen) \div DayLen
      BY <2>2, <2>5, <3>1, <3>2, LaterDay
    <3> QED BY <2>6, <2>7, <3>3
  <2>11. F <= T
    <3>1. CASE k = 0
      <4>1. kd = 0
        BY <2>2, <3>1
      <4>2. old = now
        BY <2>2, <4>1
      <4> QED BY <2>7, <4>2 DEF Today, Day
    <3>2. CASE k >= 1
      BY <2>2, <2>10, <3>2
    <3> QED BY <2>2, <3>1, <3>2
  <2>12. Cardinality(DOMAIN rows) = T - F + 1
    <3>1. Cardinality(F..T) = T - F + 1
      BY <2>2, <2>11, FS_Interval
    <3> QED BY <2>4, <3>1
  <2>13. Today \in DOMAIN rows
    BY <2>2, <2>4, <2>11
  <2>14. Offset(now) = Offset(old) => Cardinality(DOMAIN rows) = days
    BY <2>2, <2>9, <2>12
  <2>15. Cardinality(DOMAIN rows) \in (days - 1)..(days + 1)
    BY <2>2, <2>10, <2>12
  <2> QED BY <2>13, <2>14, <2>15 DEF DaysListed
<1> QED BY <1>1, AnswerInvariance, PTL

=============================================================================
