--------------------------- MODULE AccountsProofs ---------------------------
(***************************************************************************)
(* Proofs about Accounts, for any number of requests, addresses, limits    *)
(* and lock times.                                                         *)
(***************************************************************************)
EXTENDS Accounts, FiniteSetTheorems, TLAPS

LEMMA TypeInit == Init => TypeOK
BY AccountsAssumption DEF Init, TypeOK

LEMMA TypeStep == TypeOK /\ [Next]_vars => TypeOK'
<1> SUFFICES ASSUME TypeOK, [Next]_vars PROVE TypeOK'
  OBVIOUS
<1> USE AccountsAssumption DEF TypeOK, Goto, InFlight
<1>1. ASSUME NEW r \in Requests, Login(r) PROVE TypeOK'
  <2>1. CASE CheckUser(r) \/ CheckIp(r)
    BY <2>1 DEF CheckUser, CheckIp, Check
  <2>2. CASE FailUser(r) \/ FailIp(r)
    BY <2>2 DEF FailUser, FailIp, Incr
  <2>3. CASE ExpireUser(r) \/ ExpireIp(r)
    BY <2>3 DEF ExpireUser, ExpireIp, Expire
  <2>4. CASE UserRecorded(r) \/ IpRecorded(r)
    BY <2>4 DEF UserRecorded, IpRecorded, NoExpire
  <2>5. CASE ClearUser(r) \/ ClearIp(r)
    BY <2>5 DEF ClearUser, ClearIp, Delete
  <2> QED BY <1>1, <2>1, <2>2, <2>3, <2>4, <2>5 DEF Login
<1>2. ASSUME NEW r \in Requests, Register(r) PROVE TypeOK'
  <2>1. CASE CanRegister(r) \/ EmailTaken(r) \/ NewEmail(r)
    BY <2>1 DEF CanRegister, Check, EmailTaken, NewEmail
  <2>2. CASE Record(r)
    BY <2>2 DEF Record, Incr
  <2>3. CASE ExpireRecord(r)
    BY <2>3 DEF ExpireRecord, Expire
  <2>4. CASE Recorded(r) \/ InsertRefused(r)
    BY <2>4 DEF Recorded, NoExpire, InsertRefused
  <2>5. CASE Insert(r)
    BY <2>5 DEF Insert
  <2> QED BY <1>2, <2>1, <2>2, <2>3, <2>4, <2>5 DEF Register
<1>3. ASSUME NEW r \in Requests, Cancel(r) PROVE TypeOK'
  BY <1>3 DEF Cancel
<1>4. CASE Tick
  BY <1>4 DEF Tick, Expiring
<1>5. CASE UNCHANGED vars
  BY <1>5 DEF vars
<1> QED BY <1>1, <1>2, <1>3, <1>4, <1>5 DEF Next

\* The counters, their expiries and where requests are keep their types.
THEOREM TypeCorrect == Spec => []TypeOK
<1>1. QED BY TypeInit, TypeStep, PTL DEF Spec

-----------------------------------------------------------------------------
(* Without cancellations every counter that has no expiry has one on its   *)
(* way.  The formula is inductive as it stands.                            *)

LEMMA ExpiryStep == TypeOK /\ ExpiryOnItsWay /\ [Next]_vars => ExpiryOnItsWay'
<1> SUFFICES ASSUME TypeOK, ExpiryOnItsWay, [Next]_vars, cancels' = 0,
                    NEW k \in Keys, count'[k] > 0, ttl'[k] = 0
             PROVE  \E r \in ToExpire(k)' : seen'[r] = 1
  BY DEF ExpiryOnItsWay
<1> USE AccountsAssumption DEF TypeOK, Goto, InFlight, ToExpire, ExpiryOnItsWay
<1>1. ASSUME NEW r \in Requests, Login(r) PROVE \E q \in ToExpire(k)' : seen'[q] = 1
  <2>1. CASE CheckUser(r) \/ CheckIp(r)
    BY <2>1 DEF CheckUser, CheckIp, Check
  <2>2. CASE FailUser(r)
    BY <2>2 DEF FailUser, Incr
  <2>3. CASE FailIp(r)
    BY <2>3 DEF FailIp, Incr
  <2>4. CASE ExpireUser(r)
    BY <2>4 DEF ExpireUser, Expire
  <2>5. CASE ExpireIp(r)
    BY <2>5 DEF ExpireIp, Expire
  <2>6. CASE UserRecorded(r) \/ IpRecorded(r)
    BY <2>6 DEF UserRecorded, IpRecorded, NoExpire
  <2>7. CASE ClearUser(r) \/ ClearIp(r)
    BY <2>7 DEF ClearUser, ClearIp, Delete
  <2> QED BY <1>1, <2>1, <2>2, <2>3, <2>4, <2>5, <2>6, <2>7 DEF Login
<1>2. ASSUME NEW r \in Requests, Register(r) PROVE \E q \in ToExpire(k)' : seen'[q] = 1
  <2>1. CASE CanRegister(r) \/ EmailTaken(r) \/ NewEmail(r)
    BY <2>1 DEF CanRegister, Check, EmailTaken, NewEmail
  <2>2. CASE Record(r)
    BY <2>2 DEF Record, Incr
  <2>3. CASE ExpireRecord(r)
    BY <2>3 DEF ExpireRecord, Expire
  <2>4. CASE Recorded(r)
    BY <2>4 DEF Recorded, NoExpire
  <2>5. CASE Insert(r) \/ InsertRefused(r)
    BY <2>5 DEF Insert, InsertRefused
  <2> QED BY <1>2, <2>1, <2>2, <2>3, <2>4, <2>5 DEF Register
<1>3. ASSUME NEW r \in Requests, Cancel(r) PROVE FALSE
  BY <1>3 DEF Cancel
<1>4. CASE Tick
  BY <1>4 DEF Tick, Expiring
<1>5. CASE UNCHANGED vars
  BY <1>5 DEF vars
<1> QED BY <1>1, <1>2, <1>3, <1>4, <1>5 DEF Next

\* A counter without an expiry has one on its way, as long as no request was
\* cancelled, deletes by other logins included.
THEOREM ExpiryComes == Spec => []ExpiryOnItsWay
<1>1. Init => ExpiryOnItsWay
  BY AccountsAssumption DEF Init, ExpiryOnItsWay
<1>2. TypeOK /\ ExpiryOnItsWay /\ [Next]_vars => ExpiryOnItsWay'
  BY ExpiryStep
<1> QED BY <1>1, <1>2, TypeCorrect, PTL DEF Spec

-----------------------------------------------------------------------------
(* The counters' bound.  Requests that have passed the check of a counter  *)
(* and not yet raised it are counted in advance: the sum of both never     *)
(* passes the limit by more than the requests that can be under way, as    *)
(* every one of them that passes finds the counter below the limit.        *)

Overshoot(k) == count[k] + Cardinality(ToCount(k)) < Limit[k] + Cardinality(Requests)
OvershootInv == \A k \in Keys : Overshoot(k)

LEMMA SetsFinite ==
    ASSUME NEW k
    PROVE  /\ IsFiniteSet(ToCount(k)) /\ IsFiniteSet(ToCount(k)')
           /\ IsFiniteSet(ToInsert(k)) /\ IsFiniteSet(ToInsert(k)')
           /\ Cardinality(ToCount(k)) \in Nat /\ Cardinality(ToCount(k)') \in Nat
           /\ Cardinality(ToInsert(k)) \in Nat /\ Cardinality(ToInsert(k)') \in Nat
           /\ Cardinality(Requests) \in Nat
           /\ Cardinality(ToCount(k)') <= Cardinality(Requests)
           /\ Cardinality(ToInsert(k)') <= Cardinality(Requests)
<1>1. /\ ToCount(k) \subseteq Requests /\ ToCount(k)' \subseteq Requests
      /\ ToInsert(k) \subseteq Requests /\ ToInsert(k)' \subseteq Requests
  BY DEF ToCount, ToInsert
<1> QED BY <1>1, AccountsAssumption, FS_Subset, FS_CardinalityType

\* What a step can do to one counter and to who has still to raise it.
Kept(k) == count'[k] <= count[k] /\ ToCount(k)' \subseteq ToCount(k)
Passed(k) == count'[k] = count[k] /\ count[k] < Limit[k]
Raised(k) == \E r \in ToCount(k) : /\ count'[k] = count[k] + 1
                                  /\ ToCount(k)' = ToCount(k) \ {r}

LEMMA CounterStep ==
    ASSUME TypeOK, [Next]_vars, NEW k \in Keys
    PROVE  Kept(k) \/ Passed(k) \/ Raised(k)
<1> USE AccountsAssumption DEF TypeOK, Goto, InFlight, ToCount
<1>1. ASSUME NEW r \in Requests, Login(r) PROVE Kept(k) \/ Passed(k) \/ Raised(k)
  <2>1. CASE CheckUser(r)
    BY <2>1 DEF CheckUser, Check, Kept, Passed
  <2>2. CASE CheckIp(r)
    BY <2>2 DEF CheckIp, Check, Kept, Passed
  <2>3. CASE FailUser(r)
    <3>1. CASE k = UserKey
      <4>1. r \in ToCount(k) /\ count'[k] = count[k] + 1
        BY <2>3, <3>1 DEF FailUser, Incr
      <4>2. ToCount(k)' = ToCount(k) \ {r}
        BY <2>3, <3>1 DEF FailUser, Incr
      <4> QED BY <4>1, <4>2 DEF Raised
    <3>2. CASE k # UserKey
      BY <2>3, <3>2 DEF FailUser, Incr, Kept
    <3> QED BY <3>1, <3>2
  <2>4. CASE FailIp(r)
    <3>1. CASE k = IpKey[r]
      <4>1. r \in ToCount(k) /\ count'[k] = count[k] + 1
        BY <2>4, <3>1 DEF FailIp, Incr
      <4>2. ToCount(k)' = ToCount(k) \ {r}
        BY <2>4, <3>1 DEF FailIp, Incr
      <4> QED BY <4>1, <4>2 DEF Raised
    <3>2. CASE k # IpKey[r]
      BY <2>4, <3>2 DEF FailIp, Incr, Kept
    <3> QED BY <3>1, <3>2
  <2>5. CASE ExpireUser(r) \/ ExpireIp(r)
    BY <2>5 DEF ExpireUser, ExpireIp, Expire, Kept
  <2>6. CASE UserRecorded(r) \/ IpRecorded(r)
    BY <2>6 DEF UserRecorded, IpRecorded, NoExpire, Kept
  <2>7. CASE ClearUser(r) \/ ClearIp(r)
    BY <2>7 DEF ClearUser, ClearIp, Delete, Kept
  <2> QED BY <1>1, <2>1, <2>2, <2>3, <2>4, <2>5, <2>6, <2>7 DEF Login
<1>2. ASSUME NEW r \in Requests, Register(r) PROVE Kept(k) \/ Passed(k) \/ Raised(k)
  <2>1. CASE CanRegister(r)
    BY <2>1 DEF CanRegister, Check, Kept, Passed
  <2>2. CASE EmailTaken(r) \/ NewEmail(r)
    BY <2>2 DEF EmailTaken, NewEmail, Kept
  <2>3. CASE Record(r)
    <3>1. CASE k = RegisterKey[r]
      <4>1. r \in ToCount(k) /\ count'[k] = count[k] + 1
        BY <2>3, <3>1 DEF Record, Incr
      <4>2. ToCount(k)' = ToCount(k) \ {r}
        BY <2>3, <3>1 DEF Record, Incr
      <4> QED BY <4>1, <4>2 DEF Raised
    <3>2. CASE k # RegisterKey[r]
      BY <2>3, <3>2 DEF Record, Incr, Kept
    <3> QED BY <3>1, <3>2
  <2>4. CASE ExpireRecord(r) \/ Recorded(r)
    BY <2>4 DEF ExpireRecord, Expire, Recorded, NoExpire, Kept
  <2>5. CASE Insert(r) \/ InsertRefused(r)
    BY <2>5 DEF Insert, InsertRefused, Kept
  <2> QED BY <1>2, <2>1, <2>2, <2>3, <2>4, <2>5 DEF Register
<1>3. ASSUME NEW r \in Requests, Cancel(r) PROVE Kept(k)
  BY <1>3 DEF Cancel, Kept
<1>4. CASE Tick
  BY <1>4 DEF Tick, Expiring, Kept
<1>5. CASE UNCHANGED vars
  BY <1>5 DEF vars, Kept
<1> QED BY <1>1, <1>2, <1>3, <1>4, <1>5 DEF Next

LEMMA OvershootStep == TypeOK /\ OvershootInv /\ [Next]_vars => OvershootInv'
<1> SUFFICES ASSUME TypeOK, OvershootInv, [Next]_vars, NEW k \in Keys
             PROVE  Overshoot(k)'
  BY DEF OvershootInv
<1>1. /\ Overshoot(k)
      /\ count[k] \in Nat /\ count'[k] \in Nat /\ Limit[k] \in Nat
  BY TypeStep, AccountsAssumption DEF OvershootInv, TypeOK
<1>2. CASE Kept(k)
  <2>1. Cardinality(ToCount(k)') <= Cardinality(ToCount(k))
    BY <1>2, SetsFinite, FS_Subset DEF Kept
  <2> QED BY <1>1, <1>2, <2>1, SetsFinite DEF Kept, Overshoot
<1>3. CASE Passed(k)
  BY <1>1, <1>3, SetsFinite DEF Passed, Overshoot
<1>4. CASE Raised(k)
  <2>1. PICK r \in ToCount(k) : /\ count'[k] = count[k] + 1
                                /\ ToCount(k)' = ToCount(k) \ {r}
    BY <1>4 DEF Raised
  <2>2. Cardinality(ToCount(k)') = Cardinality(ToCount(k)) - 1
    BY <2>1, SetsFinite, FS_RemoveElement
  <2> QED BY <1>1, <2>1, <2>2, SetsFinite DEF Overshoot
<1> QED BY <1>2, <1>3, <1>4, CounterStep

LEMMA OvershootInvariance == Spec => [](TypeOK /\ OvershootInv)
<1>1. Init => OvershootInv
  <2> SUFFICES ASSUME Init, NEW k \in Keys PROVE Overshoot(k)
    BY DEF OvershootInv
  <2>1. ToCount(k) = {}
    BY DEF Init, ToCount
  <2> QED BY <2>1, AccountsAssumption, FS_EmptySet, FS_CardinalityType DEF Init, Overshoot
<1>2. TypeOK /\ OvershootInv /\ [Next]_vars => OvershootInv'
  BY OvershootStep
<1> QED BY <1>1, <1>2, TypeCorrect, PTL DEF Spec

\* A counter passes its limit by fewer than the requests that can be under way
\* at once, although all of them can be between its check and its count.
THEOREM OvershootIsBounded == Spec => []OvershootBounded
<1>1. TypeOK /\ OvershootInv => OvershootBounded
  BY SetsFinite, AccountsAssumption DEF OvershootInv, Overshoot, OvershootBounded, TypeOK
<1> QED BY <1>1, OvershootInvariance, PTL

-----------------------------------------------------------------------------
(* Users are made by those who were counted, so those made and those on    *)
(* their way are as many as the counter says, and as many as could have    *)
(* been under way when it last expired.                                    *)

RowsAt(k) ==
    /\ rows[k] + Cardinality(ToInsert(k)) <= count[k] + Cardinality(Requests)
    /\ (\A r \in Requests : RegisterKey[r] # k) => rows[k] = 0
RowsInv == \A k \in Keys : RowsAt(k)

\* What a step can do to the users made, to those on their way and to the
\* counter of both.
Still(k) == /\ rows'[k] = rows[k] /\ count'[k] >= count[k]
            /\ ToInsert(k)' \subseteq ToInsert(k)
Reset(k) == rows'[k] = 0
Recording(k) == \E r \in Requests : /\ rows'[k] = rows[k] /\ count'[k] = count[k] + 1
                                    /\ ToInsert(k)' = ToInsert(k) \cup {r}
Inserting(k) == \E r \in ToInsert(k) : /\ rows'[k] = rows[k] + 1 /\ count'[k] = count[k]
                                       /\ ToInsert(k)' = ToInsert(k) \ {r}

LEMMA RowsCases ==
    ASSUME TypeOK, RowsInv, [Next]_vars, NEW k \in Keys
    PROVE  Still(k) \/ Reset(k) \/ Recording(k) \/ Inserting(k)
<1> DEFINE Goal == Still(k) \/ Reset(k) \/ Recording(k) \/ Inserting(k)
<1> USE AccountsAssumption DEF TypeOK, Goto, InFlight, ToInsert
<1>1. ASSUME NEW r \in Requests, Login(r) PROVE Goal
  <2>1. CASE CheckUser(r) \/ CheckIp(r)
    BY <2>1 DEF CheckUser, CheckIp, Check, Still
  <2>2. CASE FailUser(r) \/ FailIp(r)
    BY <2>2 DEF FailUser, FailIp, Incr, Still
  <2>3. CASE ExpireUser(r) \/ ExpireIp(r)
    BY <2>3 DEF ExpireUser, ExpireIp, Expire, Still
  <2>4. CASE UserRecorded(r) \/ IpRecorded(r)
    BY <2>4 DEF UserRecorded, IpRecorded, NoExpire, Still
  <2>5. CASE ClearUser(r)
    <3>1. k = UserKey => rows[k] = 0
      BY DEF RowsInv, RowsAt
    <3> QED BY <2>5, <3>1 DEF ClearUser, Delete, Still, Reset
  <2>6. CASE ClearIp(r)
    <3>1. k = IpKey[r] => rows[k] = 0
      BY DEF RowsInv, RowsAt
    <3> QED BY <2>6, <3>1 DEF ClearIp, Delete, Still, Reset
  <2> QED BY <1>1, <2>1, <2>2, <2>3, <2>4, <2>5, <2>6 DEF Login
<1>2. ASSUME NEW r \in Requests, Register(r) PROVE Goal
  <2>1. CASE CanRegister(r) \/ EmailTaken(r) \/ NewEmail(r)
    BY <2>1 DEF CanRegister, Check, EmailTaken, NewEmail, Still
  <2>2. CASE Record(r)
    <3>1. CASE k = RegisterKey[r]
      <4>1. rows'[k] = rows[k] /\ count'[k] = count[k] + 1
        BY <2>2, <3>1 DEF Record, Incr
      <4>2. ToInsert(k)' = ToInsert(k) \cup {r}
        BY <2>2, <3>1 DEF Record, Incr
      <4> QED BY <4>1, <4>2 DEF Recording
    <3>2. CASE k # RegisterKey[r]
      BY <2>2, <3>2 DEF Record, Incr, Still
    <3> QED BY <3>1, <3>2
  <2>3. CASE ExpireRecord(r) \/ Recorded(r)
    BY <2>3 DEF ExpireRecord, Expire, Recorded, NoExpire, Still
  <2>4. CASE Insert(r)
    <3>1. CASE k = RegisterKey[r]
      <4>1. r \in ToInsert(k) /\ rows'[k] = rows[k] + 1 /\ count'[k] = count[k]
        BY <2>4, <3>1 DEF Insert
      <4>2. ToInsert(k)' = ToInsert(k) \ {r}
        BY <2>4, <3>1 DEF Insert
      <4> QED BY <4>1, <4>2 DEF Inserting
    <3>2. CASE k # RegisterKey[r]
      BY <2>4, <3>2 DEF Insert, Still
    <3> QED BY <3>1, <3>2
  <2>5. CASE InsertRefused(r)
    BY <2>5 DEF InsertRefused, Still
  <2> QED BY <1>2, <2>1, <2>2, <2>3, <2>4, <2>5 DEF Register
<1>3. ASSUME NEW r \in Requests, Cancel(r) PROVE Goal
  BY <1>3 DEF Cancel, Still
<1>4. CASE Tick
  BY <1>4 DEF Tick, Expiring, Still, Reset
<1>5. CASE UNCHANGED vars
  BY <1>5 DEF vars, Still
<1> QED BY <1>1, <1>2, <1>3, <1>4, <1>5 DEF Next

LEMMA RowsOfRegisterOnly ==
    ASSUME TypeOK, [Next]_vars, NEW k \in Keys, rows[k] = 0,
           \A r \in Requests : RegisterKey[r] # k
    PROVE  rows'[k] = 0
BY DEF Next, Login, Register, CheckUser, CheckIp, Check, FailUser, FailIp, Incr,
       ExpireUser, ExpireIp, Expire, UserRecorded, IpRecorded, NoExpire, ClearUser,
       ClearIp, Delete, CanRegister, EmailTaken, NewEmail, Record, ExpireRecord,
       Recorded, Insert, InsertRefused, Cancel, Tick, TypeOK, vars

LEMMA RowsStep == TypeOK /\ RowsInv /\ [Next]_vars => RowsInv'
<1> SUFFICES ASSUME TypeOK, RowsInv, [Next]_vars, NEW k \in Keys
             PROVE  RowsAt(k)'
  BY DEF RowsInv
<1>1. /\ RowsAt(k)
      /\ count[k] \in Nat /\ count'[k] \in Nat
      /\ rows[k] \in Nat /\ rows'[k] \in Nat
  BY TypeStep DEF RowsInv, TypeOK
<1> DEFINE Sum == rows[k] + Cardinality(ToInsert(k)) <= count[k] + Cardinality(Requests)
<1>2. Sum'
  <2>1. CASE Still(k)
    <3>1. Cardinality(ToInsert(k)') <= Cardinality(ToInsert(k))
      BY <2>1, SetsFinite, FS_Subset DEF Still
    <3> QED BY <1>1, <2>1, <3>1, SetsFinite DEF Still, RowsAt
  <2>2. CASE Reset(k)
    BY <1>1, <2>2, SetsFinite DEF Reset
  <2>3. CASE Recording(k)
    <3>1. PICK r \in Requests : /\ rows'[k] = rows[k] /\ count'[k] = count[k] + 1
                               /\ ToInsert(k)' = ToInsert(k) \cup {r}
      BY <2>3 DEF Recording
    <3>2. Cardinality(ToInsert(k)') <= Cardinality(ToInsert(k)) + 1
      <4>1. IsFiniteSet(ToInsert(k)) /\ Cardinality(ToInsert(k)) \in Nat
        BY SetsFinite
      <4>2. Cardinality(ToInsert(k) \cup {r})
              = IF r \in ToInsert(k) THEN Cardinality(ToInsert(k))
                ELSE Cardinality(ToInsert(k)) + 1
        BY <4>1, FS_AddElement, Zenon
      <4> QED BY <3>1, <4>1, <4>2
    <3>3. rows'[k] = rows[k] /\ count'[k] = count[k] + 1
      BY <3>1
    <3> QED BY <1>1, <3>2, <3>3, SetsFinite DEF RowsAt
  <2>4. CASE Inserting(k)
    <3>1. PICK r \in ToInsert(k) : /\ rows'[k] = rows[k] + 1 /\ count'[k] = count[k]
                                  /\ ToInsert(k)' = ToInsert(k) \ {r}
      BY <2>4 DEF Inserting
    <3>2. Cardinality(ToInsert(k)') = Cardinality(ToInsert(k)) - 1
      BY <3>1, SetsFinite, FS_RemoveElement
    <3> QED BY <1>1, <3>1, <3>2, SetsFinite DEF RowsAt
  <2> QED BY <2>1, <2>2, <2>3, <2>4, RowsCases
<1>3. (\A r \in Requests : RegisterKey[r] # k) => rows'[k] = 0
  BY <1>1, RowsOfRegisterOnly DEF RowsAt
<1> QED BY <1>2, <1>3 DEF RowsAt

LEMMA RowsInvariance == Spec => [](TypeOK /\ RowsInv)
<1>1. Init => RowsInv
  <2> SUFFICES ASSUME Init, NEW k \in Keys PROVE RowsAt(k)
    BY DEF RowsInv
  <2>1. ToInsert(k) = {}
    BY DEF Init, ToInsert
  <2> QED BY <2>1, AccountsAssumption, FS_EmptySet, FS_CardinalityType DEF Init, RowsAt
<1>2. TypeOK /\ RowsInv /\ [Next]_vars => RowsInv'
  BY RowsStep
<1> QED BY <1>1, <1>2, TypeCorrect, PTL DEF Spec

\* While a counter of registrations lasts its address makes fewer users than
\* the limit and twice the requests that can be under way.
THEOREM RegistrationsAreBounded == Spec => []RegistrationsBounded
<1>1. TypeOK /\ OvershootInv /\ RowsInv => RegistrationsBounded
  <2> SUFFICES ASSUME TypeOK, OvershootInv, RowsInv, NEW k \in Keys
               PROVE  rows[k] < Limit[k] + 2 * Cardinality(Requests)
    BY DEF RegistrationsBounded
  <2>1. Overshoot(k) /\ RowsAt(k)
    BY DEF OvershootInv, RowsInv
  <2> QED BY <2>1, SetsFinite, AccountsAssumption DEF Overshoot, RowsAt, TypeOK
<1> QED BY <1>1, OvershootInvariance, RowsInvariance, PTL
=============================================================================
