-------------------------- MODULE RateLimiterProofs --------------------------
(***************************************************************************)
(* Proofs about RateLimiter, for every number of requests, limit, window   *)
(* and request time.                                                       *)
(***************************************************************************)
EXTENDS RateLimiter, FunctionTheorems, FiniteSetTheorems, TLAPS

LEMMA TypeInit == Init => TypeOK
BY LimiterAssumption DEF Init, TypeOK, RecentTicks, MaxAge

LEMMA TypeStep == TypeOK /\ [Next]_vars => TypeOK'
<1> SUFFICES ASSUME TypeOK, [Next]_vars PROVE TypeOK'
  OBVIOUS
<1> USE LimiterAssumption DEF TypeOK, MaxAge, Leave, InFlight
<1>1. ASSUME NEW r \in Requests, Incr(r) PROVE TypeOK'
  BY <1>1 DEF Incr
<1>2. ASSUME NEW r \in Requests, Expire(r) PROVE TypeOK'
  BY <1>2 DEF Expire
<1>3. ASSUME NEW r \in Requests, Admit(r) PROVE TypeOK'
  BY <1>3 DEF Admit
<1>4. ASSUME NEW r \in Requests, Refuse(r) PROVE TypeOK'
  BY <1>4 DEF Refuse
<1>5. ASSUME NEW r \in Requests, Cancel(r) PROVE TypeOK'
  BY <1>5 DEF Cancel
<1>6. CASE Tick
  <2>1. flight' \in [Requests -> 0..MaxFlight]
    BY <1>6 DEF Tick
  <2>2. admits' \in [RecentTicks -> Nat]
    <3>1. \A t \in RecentTicks : t # 0 => t - 1 \in RecentTicks
      BY DEF RecentTicks
    <3> QED BY <1>6, <3>1 DEF Tick
  <2>3. count' \in Nat /\ ttl' \in 0..Window /\ age' \in 0..MaxAge
    BY <1>6 DEF Tick
  <2> QED BY <1>6, <2>1, <2>2, <2>3 DEF Tick
<1>7. CASE UNCHANGED vars
  BY <1>7 DEF vars
<1> QED BY <1>1, <1>2, <1>3, <1>4, <1>5, <1>6, <1>7 DEF Next

\* The counter, its expiry and what the requests know keep their types.
THEOREM TypeCorrect == Spec => []TypeOK
<1>1. QED BY TypeInit, TypeStep, PTL DEF Spec

-----------------------------------------------------------------------------
(* One request at most is between its INCR that made the key and its EXPIRE; *)
(* until then the key has no expiry, and cannot go away.                     *)

Maker(r) == pc[r] = "counted" /\ seen[r] = 1

OneMaker ==
    /\ ttl > 0 => count > 0
    /\ \A r \in Requests : Maker(r) => /\ ttl = 0 /\ count > 0
                                       /\ \A q \in Requests : Maker(q) => q = r

MakerInv == TypeOK /\ OneMaker

LEMMA MakerInit == Init => OneMaker
BY DEF Init, OneMaker, Maker

LEMMA MakerStep == MakerInv /\ [Next]_vars => OneMaker'
<1> SUFFICES ASSUME MakerInv, [Next]_vars PROVE OneMaker'
  OBVIOUS
<1> USE LimiterAssumption DEF MakerInv, OneMaker, Maker, TypeOK, Leave, InFlight
<1>1. ASSUME NEW r \in Requests, Incr(r) PROVE OneMaker'
  BY <1>1 DEF Incr
<1>2. ASSUME NEW r \in Requests, Expire(r) PROVE OneMaker'
  BY <1>2 DEF Expire
<1>3. ASSUME NEW r \in Requests, Admit(r) PROVE OneMaker'
  BY <1>3 DEF Admit
<1>4. ASSUME NEW r \in Requests, Refuse(r) PROVE OneMaker'
  BY <1>4 DEF Refuse
<1>5. ASSUME NEW r \in Requests, Cancel(r) PROVE OneMaker'
  BY <1>5 DEF Cancel
<1>6. CASE Tick
  BY <1>6 DEF Tick
<1>7. CASE UNCHANGED vars
  BY <1>7 DEF vars
<1> QED BY <1>1, <1>2, <1>3, <1>4, <1>5, <1>6, <1>7 DEF Next

LEMMA MakerInvariance == Spec => []MakerInv
<1>1. Init => MakerInv
  BY TypeInit, MakerInit DEF MakerInv
<1>2. MakerInv /\ [Next]_vars => MakerInv'
  BY TypeStep, MakerStep DEF MakerInv
<1> QED BY <1>1, <1>2, PTL DEF Spec

\* The deadline of a window only comes nearer, whatever requests do and even
\* if they are cancelled.
THEOREM DeadlineNeverMoves == Spec => DeadlineFixed
<1>1. MakerInv /\ [Next]_vars => [ttl > 0 => ttl' <= ttl]_vars
  <2> SUFFICES ASSUME MakerInv, Next, ttl > 0 PROVE ttl' <= ttl
    OBVIOUS
  <2> USE LimiterAssumption DEF MakerInv, TypeOK
  <2>1. ASSUME NEW r \in Requests, Expire(r) PROVE FALSE
    BY <2>1 DEF Expire, OneMaker, Maker
  <2>2. CASE Tick
    BY <2>2 DEF Tick
  <2>3. CASE UNCHANGED ttl
    BY <2>3
  <2> QED BY <2>1, <2>2, <2>3 DEF Next, Incr, Admit, Refuse, Cancel
<1> QED BY <1>1, MakerInvariance, PTL DEF Spec, DeadlineFixed

-----------------------------------------------------------------------------
(* Without cancellations every window closes.  Before the deadline is set    *)
(* the counter is as old as the flight of the request that made it; after,   *)
(* its age and what is left of the window never exceed MaxAge.               *)

AgeBound ==
    /\ count = 0 => age = 0
    /\ ExpiryOnItsWay
    /\ \A r \in Requests : Maker(r) => age = flight[r]
    /\ ttl > 0 => age + ttl <= MaxAge

CloseInv == MakerInv /\ AgeBound

LEMMA AgeInit == Init => AgeBound
BY DEF Init, AgeBound, Maker, ExpiryOnItsWay

LEMMA AgeStep == CloseInv /\ [Next]_vars => AgeBound'
<1> SUFFICES ASSUME CloseInv, [Next]_vars PROVE AgeBound'
  OBVIOUS
<1> USE LimiterAssumption DEF CloseInv, MakerInv, OneMaker, AgeBound, ExpiryOnItsWay, Maker,
        TypeOK, Leave, InFlight, MaxAge
<1>1. ASSUME NEW r \in Requests, Incr(r) PROVE AgeBound'
  BY <1>1 DEF Incr
<1>2. ASSUME NEW r \in Requests, Expire(r) PROVE AgeBound'
  BY <1>2 DEF Expire
<1>3. ASSUME NEW r \in Requests, Admit(r) PROVE AgeBound'
  BY <1>3 DEF Admit, Counted
<1>4. ASSUME NEW r \in Requests, Refuse(r) PROVE AgeBound'
  BY <1>4 DEF Refuse, Counted
<1>5. ASSUME NEW r \in Requests, Cancel(r) PROVE AgeBound'
  BY <1>5 DEF Cancel
<1>6. CASE Tick
  <2>1. ASSUME NEW r \in Requests, Maker(r) PROVE age < MaxAge
    BY <2>1
  <2> QED BY <1>6, <2>1 DEF Tick
<1>7. CASE UNCHANGED vars
  BY <1>7 DEF vars
<1> QED BY <1>1, <1>2, <1>3, <1>4, <1>5, <1>6, <1>7 DEF Next

LEMMA CloseInvariance == Spec => []CloseInv
<1>1. Init => CloseInv
  BY TypeInit, MakerInit, AgeInit DEF CloseInv, MakerInv
<1>2. CloseInv /\ [Next]_vars => CloseInv'
  BY TypeStep, MakerStep, AgeStep DEF CloseInv, MakerInv
<1> QED BY <1>1, <1>2, PTL DEF Spec

\* As long as no request has been cancelled, a counter without an expiry has
\* one on its way ...
THEOREM ExpiryComes == Spec => []ExpiryOnItsWay
<1>1. CloseInv => ExpiryOnItsWay
  BY DEF CloseInv, AgeBound
<1> QED BY <1>1, CloseInvariance, PTL

\* ... and is gone at the latest a window and a request's time after it was
\* made.
THEOREM EveryWindowCloses == Spec => []WindowClosesUncancelled
<1>1. CloseInv => WindowClosesUncancelled
  BY LimiterAssumption
  DEF CloseInv, MakerInv, AgeBound, ExpiryOnItsWay, WindowCloses, WindowClosesUncancelled,
      TypeOK, MaxAge, Maker
<1> QED BY <1>1, CloseInvariance, PTL

-----------------------------------------------------------------------------
(* SlidingBound counts requests, and so does what it rests on: the claims of *)
(* the requests let through in the last Window ticks, and of those in flight *)
(* that may still be let through, each with the age of its INCR.  Those no   *)
(* older than the counter were counted by it, and so were fewer than it says *)
(* and no more than Limit; those older, by the one before, without the       *)
(* request that made it, which is Window ticks old when its counter goes.    *)

In(r) == <<flight[r], <<"in", r>>>>
Out(t, k) == <<t, <<"out", k>>>>
Holders == {r \in Requests : InFlight(r) /\ seen[r] <= Limit}
Claims == {In(r) : r \in Holders} \union UNION {{Out(t, k) : k \in 1..admits[t]} : t \in RecentTicks}

Within(S, lo, hi) == {c \in S : c[1] \in lo..hi}

\* The first requests a counter lets through, as far as it has come.
Least == IF count < Limit THEN count ELSE Limit

WindowInv ==
    /\ IsFiniteSet(Claims)
    /\ count > 0 => /\ Cardinality(Within(Claims, 0, age)) <= Least
                    /\ Cardinality(Within(Claims, 0, age - 1)) <= Least - 1
    /\ count > 0 => Cardinality(Within(Claims, age + 1, Window - 1)) <= Limit - 1
    /\ count = 0 => Cardinality(Within(Claims, 0, Window - 1)) <= Limit - 1
    /\ count = 0 => Within(Claims, 0, 0) = {}
    /\ ttl > 0 => age + ttl >= Window

\* Sets that are no larger: a part; one with an element exchanged; one with
\* every age one less.
LEMMA SmallerSet ==
    ASSUME NEW A, IsFiniteSet(A), NEW B, B \subseteq A
    PROVE  /\ IsFiniteSet(B)
           /\ Cardinality(B) \in Nat /\ Cardinality(A) \in Nat
           /\ Cardinality(B) <= Cardinality(A)
<1>1. IsFiniteSet(B) /\ Cardinality(B) <= Cardinality(A)
  BY FS_Subset
<1> QED BY <1>1, FS_CardinalityType

LEMMA GrownSet ==
    ASSUME NEW A, IsFiniteSet(A), NEW e, NEW B, B \subseteq A \union {e}
    PROVE  /\ IsFiniteSet(B)
           /\ Cardinality(B) \in Nat /\ Cardinality(A) \in Nat
           /\ Cardinality(B) <= Cardinality(A) + 1
<1>1. Cardinality(A) \in Nat
  BY FS_CardinalityType
<1>2. /\ IsFiniteSet(A \union {e})
      /\ Cardinality(A \union {e}) = IF e \in A THEN Cardinality(A) ELSE Cardinality(A) + 1
  BY FS_AddElement, Zenon
<1>3. /\ IsFiniteSet(B)
      /\ Cardinality(B) \in Nat /\ Cardinality(A \union {e}) \in Nat
      /\ Cardinality(B) <= Cardinality(A \union {e})
  BY <1>2, SmallerSet
<1> QED BY <1>1, <1>2, <1>3

LEMMA ExchangedSet ==
    ASSUME NEW A, IsFiniteSet(A), NEW d \in A, NEW e, NEW B, B \subseteq (A \ {d}) \union {e}
    PROVE  /\ IsFiniteSet(B)
           /\ Cardinality(B) \in Nat /\ Cardinality(A) \in Nat
           /\ Cardinality(B) <= Cardinality(A)
<1>1. IsFiniteSet(A \ {d}) /\ Cardinality(A \ {d}) = Cardinality(A) - 1
  BY FS_RemoveElement
<1>2. Cardinality(A) \in Nat
  BY FS_CardinalityType
<1>3. /\ IsFiniteSet(B)
      /\ Cardinality(B) \in Nat
      /\ Cardinality(B) <= Cardinality(A \ {d}) + 1
  BY <1>1, GrownSet
<1> QED BY <1>1, <1>2, <1>3

LEMMA AgedSet ==
    ASSUME NEW A, IsFiniteSet(A), NEW Y, NEW B, B \subseteq Int \X Y,
           \A b \in B : <<b[1] - 1, b[2]>> \in A
    PROVE  /\ IsFiniteSet(B)
           /\ Cardinality(B) \in Nat /\ Cardinality(A) \in Nat
           /\ Cardinality(B) <= Cardinality(A)
<1> DEFINE F == [b \in B |-> <<b[1] - 1, b[2]>>]
<1>1. F \in [B -> A]
  OBVIOUS
<1>2. ASSUME NEW a \in B, NEW b \in B, F[a] = F[b] PROVE a = b
  <2>1. a = <<a[1], a[2]>> /\ b = <<b[1], b[2]>> /\ a[1] \in Int /\ b[1] \in Int
    OBVIOUS
  <2>2. a[1] - 1 = b[1] - 1 /\ a[2] = b[2]
    BY <1>2
  <2>3. a[1] = b[1]
    BY <2>1, <2>2
  <2> QED BY <2>1, <2>2, <2>3
<1> HIDE DEF F
<1>3. F \in Injection(B, A)
  BY <1>1, <1>2, Fun_IsInj
<1>4. IsFiniteSet(B) /\ Cardinality(B) <= Cardinality(A)
  BY <1>3, FS_Injection
<1> QED BY <1>4, FS_CardinalityType

ClaimTypes == ({"in"} \X Requests) \union ({"out"} \X Nat)

\* The claims after a step that lets nobody in, or one in the place of another.
LEMMA NoMoreClaims ==
    ASSUME TypeOK, TypeOK', MakerInv, WindowInv,
           UNCHANGED <<count, age>>, ttl' > 0 => age + ttl' >= Window,
           \/ Claims' \subseteq Claims
           \/ \E d \in Claims : \E e : d[1] = e[1] /\ Claims' \subseteq (Claims \ {d}) \union {e}
    PROVE  WindowInv'
<1>1. ASSUME NEW lo \in Int, NEW hi \in Int
      PROVE  /\ Cardinality(Within(Claims', lo, hi)) \in Nat
             /\ Cardinality(Within(Claims, lo, hi)) \in Nat
             /\ Cardinality(Within(Claims', lo, hi)) <= Cardinality(Within(Claims, lo, hi))
             /\ Within(Claims, lo, hi) = {} => Within(Claims', lo, hi) = {}
  <2>1. IsFiniteSet(Within(Claims, lo, hi))
    BY SmallerSet DEF WindowInv, Within
  <2>2. CASE Within(Claims', lo, hi) \subseteq Within(Claims, lo, hi)
    BY <2>1, <2>2, SmallerSet
  <2>3. CASE \E d \in Within(Claims, lo, hi) : \E e :
                Within(Claims', lo, hi) \subseteq (Within(Claims, lo, hi) \ {d}) \union {e}
    BY <2>1, <2>3, ExchangedSet
  <2>4. CASE Claims' \subseteq Claims
    BY <2>2, <2>4 DEF Within
  <2>5. ASSUME NEW d \in Claims, NEW e, d[1] = e[1], Claims' \subseteq (Claims \ {d}) \union {e}
        PROVE  \/ Within(Claims', lo, hi) \subseteq Within(Claims, lo, hi)
               \/ \E x \in Within(Claims, lo, hi) : \E y :
                     Within(Claims', lo, hi) \subseteq (Within(Claims, lo, hi) \ {x}) \union {y}
    <3>1. CASE d[1] \in lo..hi
      <4>1. d \in Within(Claims, lo, hi)
        BY <3>1 DEF Within
      <4>2. Within(Claims', lo, hi) \subseteq (Within(Claims, lo, hi) \ {d}) \union {e}
        BY <2>5 DEF Within
      <4> QED BY <4>1, <4>2
    <3>2. CASE d[1] \notin lo..hi
      BY <2>5, <3>2 DEF Within
    <3> QED BY <3>1, <3>2
  <2> QED BY <2>2, <2>3, <2>4, <2>5
<1>2. IsFiniteSet(Claims')
  BY SmallerSet, ExchangedSet DEF WindowInv
<1>3. age \in Int /\ Window \in Int /\ count \in Nat /\ Limit \in Nat /\ count' = count /\ age' = age
  BY LimiterAssumption DEF TypeOK, MaxAge
<1>4. Least' = Least /\ Least \in Nat
  BY <1>3 DEF Least
<1>5. /\ Cardinality(Within(Claims', 0, age')) <= Cardinality(Within(Claims, 0, age))
      /\ Cardinality(Within(Claims', 0, age')) \in Nat
      /\ Cardinality(Within(Claims, 0, age)) \in Nat
  <2>1. 0 \in Int /\ age \in Int /\ age' = age
    BY <1>3
  <2> QED BY <1>1, <2>1, Zenon
<1>6. /\ Cardinality(Within(Claims', 0, age' - 1)) <= Cardinality(Within(Claims, 0, age - 1))
      /\ Cardinality(Within(Claims', 0, age' - 1)) \in Nat
      /\ Cardinality(Within(Claims, 0, age - 1)) \in Nat
  <2>1. age - 1 \in Int /\ age' - 1 = age - 1
    BY <1>3
  <2> QED BY <1>1, <2>1
<1>7. /\ Cardinality(Within(Claims', age' + 1, Window - 1))
            <= Cardinality(Within(Claims, age + 1, Window - 1))
      /\ Cardinality(Within(Claims', age' + 1, Window - 1)) \in Nat
      /\ Cardinality(Within(Claims, age + 1, Window - 1)) \in Nat
  <2>1. age + 1 \in Int /\ age' + 1 = age + 1 /\ Window - 1 \in Int
    BY <1>3
  <2> QED BY <1>1, <2>1
<1>8. /\ Cardinality(Within(Claims', 0, Window - 1)) <= Cardinality(Within(Claims, 0, Window - 1))
      /\ Cardinality(Within(Claims', 0, Window - 1)) \in Nat
      /\ Cardinality(Within(Claims, 0, Window - 1)) \in Nat
  <2>1. Window - 1 \in Int
    BY <1>3
  <2> QED BY <1>1, <2>1
<1>9. Within(Claims, 0, 0) = {} => Within(Claims', 0, 0) = {}
  <2>1. 0 \in Int
    OBVIOUS
  <2> QED BY <1>1, <2>1, Zenon
<1>10. count' > 0 => /\ Cardinality(Within(Claims', 0, age')) <= Least'
                     /\ Cardinality(Within(Claims', 0, age' - 1)) <= Least' - 1
  BY <1>3, <1>4, <1>5, <1>6 DEF WindowInv
<1>11. count' > 0 => Cardinality(Within(Claims', age' + 1, Window - 1)) <= Limit - 1
  BY <1>3, <1>7 DEF WindowInv
<1>12. count' = 0 => /\ Cardinality(Within(Claims', 0, Window - 1)) <= Limit - 1
                     /\ Within(Claims', 0, 0) = {}
  BY <1>3, <1>8, <1>9 DEF WindowInv
<1> QED BY <1>2, <1>3, <1>10, <1>11, <1>12 DEF WindowInv

\* The members of Claims, and what puts a member there.
LEMMA ClaimMembers ==
    ASSUME NEW c
    PROVE  c \in Claims <=> \/ \E r \in Holders : c = In(r)
                           \/ \E t \in RecentTicks : \E k \in 1..admits[t] : c = Out(t, k)
BY DEF Claims

\* A request that leaves without being let through, or sets the expiry, adds
\* no claim.
LEMMA KeptClaims ==
    ASSUME admits' = admits, Holders' \subseteq Holders,
           \A r \in Holders' : flight'[r] = flight[r]
    PROVE  Claims' \subseteq Claims
<1>1. ASSUME NEW r \in Holders' PROVE In(r)' \in Claims
  <2>1. In(r)' = In(r)
    BY DEF In
  <2> QED BY <2>1 DEF Claims
<1>2. RecentTicks' = RecentTicks
  BY DEF RecentTicks
<1> QED BY <1>1, <1>2 DEF Claims

\* A request let through gives up its claim for one of the same age.
LEMMA AdmittedClaim ==
    ASSUME TypeOK, NEW r \in Requests, Admit(r)
    PROVE  \/ Claims' \subseteq Claims
           \/ \E d \in Claims : \E e : d[1] = e[1] /\ Claims' \subseteq (Claims \ {d}) \union {e}
<1> USE LimiterAssumption DEF TypeOK
<1>1. r \in Holders /\ In(r) \in Claims
  BY DEF Admit, Counted, Holders, InFlight, Claims
<1>2. /\ Holders' \subseteq Holders \ {r}
      /\ \A q \in Holders' : flight'[q] = flight[q]
  BY DEF Admit, Leave, Holders, InFlight
<1>3. CASE flight[r] \notin RecentTicks
  BY <1>2, <1>3, KeptClaims DEF Admit
<1>4. CASE flight[r] \in RecentTicks
  <2> DEFINE n == admits[flight[r]] + 1
             e == Out(flight[r], n)
  <2>1. ASSUME NEW q \in Holders' PROVE In(q)' \in Claims \ {In(r)}
    <3>1. In(q)' = In(q) /\ q # r /\ q \in Holders
      BY <1>2 DEF In
    <3>2. In(q) \in Claims
      BY <3>1 DEF Claims
    <3>3. In(q) # In(r)
      BY <3>1 DEF In
    <3> QED BY <3>1, <3>2, <3>3
  <2>2. ASSUME NEW t \in RecentTicks, NEW k \in 1..admits'[t]
        PROVE  Out(t, k) \in (Claims \ {In(r)}) \union {e}
    <3>1. CASE k \in 1..admits[t]
      <4>1. Out(t, k) \in Claims
        BY <3>1 DEF Claims
      <4>2. Out(t, k) # In(r)
        BY DEF Out, In
      <4> QED BY <4>1, <4>2
    <3>2. CASE k \notin 1..admits[t]
      <4>1. t = flight[r] /\ k = n
        BY <1>4, <3>2 DEF Admit
      <4> QED BY <4>1
    <3> QED BY <3>1, <3>2
  <2>3. RecentTicks' = RecentTicks
    BY DEF RecentTicks
  <2>4. ASSUME NEW c \in Claims' PROVE c \in (Claims \ {In(r)}) \union {e}
    <3>1. \/ \E q \in Holders' : c = In(q)'
          \/ \E t \in RecentTicks : \E k \in 1..admits'[t] : c = Out(t, k)
      BY <2>3 DEF Claims
    <3> QED BY <2>1, <2>2, <3>1
  <2>5. In(r)[1] = e[1]
    BY DEF In, Out
  <2> QED BY <1>1, <2>4, <2>5
<1> QED BY <1>3, <1>4

\* A request counted within the limit has a claim of age 0; any other has none.
LEMMA CountedClaim ==
    ASSUME TypeOK, NEW r \in Requests, Incr(r)
    PROVE  /\ Claims' \subseteq Claims \union {<<0, <<"in", r>>>>}
           /\ count + 1 > Limit => Claims' \subseteq Claims
<1> USE LimiterAssumption DEF TypeOK
<1>1. r \notin Holders
  BY DEF Incr, Holders, InFlight
<1>2. /\ Holders' \subseteq Holders \union {r}
      /\ r \in Holders' => count + 1 <= Limit
  BY DEF Incr, Holders, InFlight
<1>3. ASSUME NEW q \in Holders', q # r PROVE In(q)' \in Claims
  <2>1. In(q)' = In(q) /\ q \in Holders
    BY <1>2, <1>3 DEF Incr, In
  <2> QED BY <2>1 DEF Claims
<1>4. In(r)' = <<0, <<"in", r>>>>
  BY DEF Incr, In
<1>5. RecentTicks' = RecentTicks /\ admits' = admits
  BY DEF Incr, RecentTicks
<1>6. ASSUME NEW c \in Claims', c \notin Claims
      PROVE  c = <<0, <<"in", r>>>> /\ count + 1 <= Limit
  <2>1. \/ \E q \in Holders' : c = In(q)'
        \/ \E t \in RecentTicks : \E k \in 1..admits[t] : c = Out(t, k)
    BY <1>5 DEF Claims
  <2>2. ~ \E t \in RecentTicks : \E k \in 1..admits[t] : c = Out(t, k)
    BY <1>6, ClaimMembers
  <2>3. PICK q \in Holders' : c = In(q)'
    BY <2>1, <2>2
  <2>4. q = r
    BY <1>3, <1>6, <2>3
  <2> QED BY <1>2, <1>4, <2>3, <2>4
<1>7. count \in Nat
  OBVIOUS
<1> QED BY <1>6, <1>7

LEMMA IncrStep ==
    ASSUME TypeOK, TypeOK', MakerInv, WindowInv, NEW r \in Requests, Incr(r)
    PROVE  WindowInv'
<1> DEFINE e == <<0, <<"in", r>>>>
<1>1. /\ count \in Nat /\ age \in Nat /\ Limit \in Nat /\ Limit > 0 /\ Window \in Nat
      /\ count' = count + 1 /\ ttl' = ttl
      /\ age' = IF count = 0 THEN 0 ELSE age
  BY LimiterAssumption DEF TypeOK, MaxAge, Incr
<1>2. IsFiniteSet(Claims) /\ IsFiniteSet(Claims')
  BY CountedClaim, GrownSet DEF WindowInv
<1>3. ASSUME NEW lo \in Int, NEW hi \in Int
      PROVE  IsFiniteSet(Within(Claims, lo, hi)) /\ IsFiniteSet(Within(Claims', lo, hi))
  BY <1>2, SmallerSet DEF Within
<1>4. CASE count = 0
  <2>1. age' = 0 /\ Least' = 1 /\ ttl' = 0
    BY <1>1, <1>4 DEF Least, MakerInv, OneMaker, TypeOK
  <2>2. Cardinality(Within(Claims', 0, 0)) <= 1
    <3>1. Within(Claims', 0, 0) \subseteq {} \union {e}
      BY <1>4, CountedClaim DEF WindowInv, Within
    <3>2. IsFiniteSet({}) /\ Cardinality({}) = 0
      BY FS_EmptySet
    <3> HIDE DEF e
    <3>3. Cardinality(Within(Claims', 0, 0)) <= Cardinality({}) + 1
      BY <3>1, <3>2, GrownSet
    <3> QED BY <3>2, <3>3
  <2>3. Cardinality(Within(Claims', 0, -1)) = 0
    <3>1. Within(Claims', 0, -1) = {}
      BY DEF Within
    <3> QED BY <3>1, FS_EmptySet
  <2>4. Cardinality(Within(Claims', 1, Window - 1)) <= Limit - 1
    <3>1. Within(Claims', 1, Window - 1) \subseteq Within(Claims, 0, Window - 1)
      BY <1>1, CountedClaim DEF Within
    <3>2. IsFiniteSet(Within(Claims, 0, Window - 1))
      BY <1>1, <1>3
    <3>3. Cardinality(Within(Claims, 0, Window - 1)) <= Limit - 1
      BY <1>4 DEF WindowInv
    <3>4. /\ Cardinality(Within(Claims', 1, Window - 1)) \in Nat
          /\ Cardinality(Within(Claims, 0, Window - 1)) \in Nat
          /\ Cardinality(Within(Claims', 1, Window - 1)) <= Cardinality(Within(Claims, 0, Window - 1))
      BY <3>1, <3>2, SmallerSet
    <3> QED BY <1>1, <3>3, <3>4
  <2>5. age' - 1 = -1 /\ age' + 1 = 1 /\ count' = 1
    BY <1>1, <1>4, <2>1
  <2> QED BY <1>2, <2>1, <2>2, <2>3, <2>4, <2>5 DEF WindowInv
<1>5. CASE count > 0
  <2>1. age' = age /\ count' > 0
    BY <1>1, <1>5
  <2>2. ASSUME NEW lo \in Int, NEW hi \in Int
        PROVE  /\ Cardinality(Within(Claims', lo, hi)) \in Nat
               /\ Cardinality(Within(Claims, lo, hi)) \in Nat
               /\ Cardinality(Within(Claims', lo, hi)) <= Cardinality(Within(Claims, lo, hi)) + 1
               /\ count + 1 > Limit \/ lo > 0
                     => Cardinality(Within(Claims', lo, hi)) <= Cardinality(Within(Claims, lo, hi))
    <3>1. Within(Claims', lo, hi) \subseteq Within(Claims, lo, hi) \union {e}
      BY CountedClaim DEF Within
    <3>2. count + 1 > Limit \/ lo > 0 => Within(Claims', lo, hi) \subseteq Within(Claims, lo, hi)
      BY CountedClaim DEF Within
    <3> HIDE DEF e
    <3> QED BY <1>3, <3>1, <3>2, GrownSet, SmallerSet
  <2>3. /\ Least \in Nat /\ Least' \in Nat
        /\ count + 1 > Limit => Least' = Least
        /\ ~(count + 1 > Limit) => Least' = Least + 1
    BY <1>1 DEF Least
  <2>4. /\ Cardinality(Within(Claims', 0, age')) <= Least'
        /\ Cardinality(Within(Claims', 0, age' - 1)) <= Least' - 1
    <3>1. Cardinality(Within(Claims', 0, age)) <= Least'
      <4>1. 0 \in Int /\ age \in Int
        BY <1>1
      <4>2. /\ Cardinality(Within(Claims', 0, age)) \in Nat
            /\ Cardinality(Within(Claims, 0, age)) \in Nat
            /\ Cardinality(Within(Claims', 0, age)) <= Cardinality(Within(Claims, 0, age)) + 1
            /\ count + 1 > Limit
                  => Cardinality(Within(Claims', 0, age)) <= Cardinality(Within(Claims, 0, age))
        BY <2>2, <4>1, Zenon
      <4> QED BY <1>5, <2>3, <4>2 DEF WindowInv
    <3>2. Cardinality(Within(Claims', 0, age - 1)) <= Least' - 1
      <4>1. 0 \in Int /\ age - 1 \in Int
        BY <1>1
      <4>2. /\ Cardinality(Within(Claims', 0, age - 1)) \in Nat
            /\ Cardinality(Within(Claims, 0, age - 1)) \in Nat
            /\ Cardinality(Within(Claims', 0, age - 1)) <= Cardinality(Within(Claims, 0, age - 1)) + 1
            /\ count + 1 > Limit
                  => Cardinality(Within(Claims', 0, age - 1)) <= Cardinality(Within(Claims, 0, age - 1))
        BY <2>2, <4>1, Zenon
      <4> QED BY <1>5, <2>3, <4>2 DEF WindowInv
    <3> QED BY <2>1, <3>1, <3>2
  <2>5. Cardinality(Within(Claims', age' + 1, Window - 1)) <= Limit - 1
    <3>1. age + 1 \in Int /\ Window - 1 \in Int /\ age + 1 > 0
      BY <1>1
    <3>2. /\ Cardinality(Within(Claims', age + 1, Window - 1)) \in Nat
          /\ Cardinality(Within(Claims, age + 1, Window - 1)) \in Nat
          /\ Cardinality(Within(Claims', age + 1, Window - 1))
                <= Cardinality(Within(Claims, age + 1, Window - 1))
      BY <2>2, <3>1
    <3>3. Cardinality(Within(Claims', age + 1, Window - 1)) <= Limit - 1
      BY <1>1, <1>5, <3>2 DEF WindowInv
    <3> QED BY <2>1, <3>3
  <2> QED BY <1>1, <1>2, <1>5, <2>1, <2>4, <2>5 DEF WindowInv
<1> QED BY <1>1, <1>4, <1>5

\* After a tick every claim is one that was there, a tick older.
LEMMA AgedClaims ==
    ASSUME TypeOK, TypeOK', Tick
    PROVE  /\ Claims' \subseteq Nat \X ClaimTypes
           /\ \A c \in Claims' : c[1] >= 1 /\ <<c[1] - 1, c[2]>> \in Claims
<1> USE LimiterAssumption DEF TypeOK
<1>1. ASSUME NEW q \in Holders'
      PROVE  /\ In(q)' \in Nat \X ClaimTypes
             /\ In(q)'[1] >= 1 /\ <<In(q)'[1] - 1, In(q)'[2]>> \in Claims
  <2>1. q \in Holders /\ flight'[q] = flight[q] + 1 /\ flight[q] \in Nat
    BY DEF Tick, Holders, InFlight
  <2>2. In(q)' = <<flight[q] + 1, <<"in", q>>>> /\ In(q) = <<flight[q], <<"in", q>>>>
    BY <2>1 DEF In
  <2>3. In(q)'[1] = flight[q] + 1 /\ In(q)'[2] = <<"in", q>>
    BY <2>2
  <2>4. <<In(q)'[1] - 1, In(q)'[2]>> = In(q)
    BY <2>1, <2>2, <2>3
  <2>5. In(q) \in Claims
    BY <2>1 DEF Claims
  <2>6. q \in Requests
    BY <2>1 DEF Holders
  <2> QED BY <2>1, <2>2, <2>3, <2>4, <2>5, <2>6 DEF ClaimTypes
<1>2. ASSUME NEW t \in RecentTicks, NEW k \in 1..admits'[t]
      PROVE  /\ Out(t, k) \in Nat \X ClaimTypes
             /\ Out(t, k)[1] >= 1 /\ <<Out(t, k)[1] - 1, Out(t, k)[2]>> \in Claims
  <2>1. t \in Nat /\ t # 0 /\ t - 1 \in RecentTicks /\ k \in 1..admits[t - 1]
    BY DEF Tick, RecentTicks
  <2>2. Out(t - 1, k) \in Claims
    BY <2>1 DEF Claims
  <2> QED BY <2>1, <2>2 DEF Out, ClaimTypes
<1>3. RecentTicks' = RecentTicks
  BY DEF RecentTicks
<1>4. ASSUME NEW c \in Claims'
      PROVE  \/ \E q \in Holders' : c = In(q)'
             \/ \E t \in RecentTicks : \E k \in 1..admits'[t] : c = Out(t, k)
  BY <1>3, <1>4 DEF Claims
<1>5. ASSUME NEW c \in Claims'
      PROVE  /\ c \in Nat \X ClaimTypes
             /\ c[1] >= 1 /\ <<c[1] - 1, c[2]>> \in Claims
  <2>1. CASE \E q \in Holders' : c = In(q)'
    <3>1. PICK q \in Holders' : c = In(q)'
      BY <2>1
    <3> QED BY <1>1, <3>1
  <2>2. CASE \E t \in RecentTicks : \E k \in 1..admits'[t] : c = Out(t, k)
    <3>1. PICK t \in RecentTicks : \E k \in 1..admits'[t] : c = Out(t, k)
      BY <2>2
    <3>2. PICK k \in 1..admits'[t] : c = Out(t, k)
      BY <3>1
    <3> QED BY <1>2, <3>2
  <2> QED BY <1>4, <2>1, <2>2
<1> QED BY <1>5

LEMMA TickStep ==
    ASSUME TypeOK, TypeOK', MakerInv, WindowInv, Tick
    PROVE  WindowInv'
<1>1. /\ count \in Nat /\ age \in Nat /\ Limit \in Nat /\ Limit > 0 /\ Window \in Nat
      /\ Window > 0 /\ ttl \in Nat /\ MaxFlight \in Nat /\ age <= Window + MaxFlight
      /\ count = 0 => ttl = 0
      /\ ttl' = IF ttl > 0 THEN ttl - 1 ELSE 0
      /\ count' = IF ttl = 1 THEN 0 ELSE count
      /\ age' = IF count = 0 \/ ttl = 1 THEN 0
                ELSE IF age < Window + MaxFlight THEN age + 1 ELSE age
  BY LimiterAssumption DEF TypeOK, MaxAge, Tick, MakerInv, OneMaker
<1>2. ASSUME NEW lo \in Int, NEW hi \in Int, NEW lo2 \in Int, NEW hi2 \in Int,
             lo2 <= 0 \/ lo2 <= lo - 1, hi - 1 <= hi2
      PROVE  /\ Cardinality(Within(Claims', lo, hi)) \in Nat
             /\ Cardinality(Within(Claims, lo2, hi2)) \in Nat
             /\ Cardinality(Within(Claims', lo, hi)) <= Cardinality(Within(Claims, lo2, hi2))
  <2>1. IsFiniteSet(Within(Claims, lo2, hi2))
    BY SmallerSet DEF WindowInv, Within
  <2>2. Within(Claims', lo, hi) \subseteq Int \X ClaimTypes
    BY AgedClaims DEF Within
  <2>3. ASSUME NEW c \in Within(Claims', lo, hi)
        PROVE  <<c[1] - 1, c[2]>> \in Within(Claims, lo2, hi2)
    <3>1. c[1] \in lo..hi /\ c[1] >= 1 /\ <<c[1] - 1, c[2]>> \in Claims
      BY AgedClaims DEF Within
    <3>2. c[1] - 1 \in lo2..hi2
      BY <1>2, <3>1
    <3> QED BY <3>1, <3>2 DEF Within
  <2> QED BY <2>1, <2>2, <2>3, AgedSet
<1>3. IsFiniteSet(Claims')
  <2>1. Claims' \subseteq Int \X ClaimTypes /\ \A c \in Claims' : <<c[1] - 1, c[2]>> \in Claims
    BY AgedClaims
  <2> QED BY <2>1, AgedSet DEF WindowInv
<1>4. /\ Least \in Int /\ Least <= Limit
      /\ count' = count => Least' = Least
  BY <1>1 DEF Least
<1>5. CASE count = 0 \/ ttl = 1
  <2>1. count' = 0 /\ ttl' = 0
    BY <1>1, <1>5
  <2>2. Within(Claims', 0, 0) = {}
    <3>1. \A c \in Claims' : c[1] >= 1
      BY AgedClaims
    <3> QED BY <3>1 DEF Within
  <2>3. Cardinality(Within(Claims', 0, Window - 1)) <= Limit - 1
    <3>1. CASE count = 0
      <4>1. 0 \in Int /\ Window - 1 \in Int /\ 0 <= 0 /\ Window - 1 - 1 <= Window - 1
        BY <1>1
      <4>2. /\ Cardinality(Within(Claims', 0, Window - 1)) \in Nat
            /\ Cardinality(Within(Claims, 0, Window - 1)) \in Nat
            /\ Cardinality(Within(Claims', 0, Window - 1)) <= Cardinality(Within(Claims, 0, Window - 1))
        BY <1>2, <4>1, Zenon
      <4> QED BY <1>1, <3>1, <4>2 DEF WindowInv
    <3>2. CASE count > 0 /\ ttl = 1
      <4>1. 0 \in Int /\ Window - 1 \in Int /\ age - 1 \in Int /\ 0 <= 0 /\ Window - 1 - 1 <= age - 1
        BY <1>1, <3>2 DEF WindowInv
      <4>2. /\ Cardinality(Within(Claims', 0, Window - 1)) \in Nat
            /\ Cardinality(Within(Claims, 0, age - 1)) \in Nat
            /\ Cardinality(Within(Claims', 0, Window - 1)) <= Cardinality(Within(Claims, 0, age - 1))
        BY <1>2, <4>1, Zenon
      <4> QED BY <1>1, <1>4, <3>2, <4>2 DEF WindowInv
    <3> QED BY <1>1, <1>5, <3>1, <3>2
  <2> QED BY <1>3, <2>1, <2>2, <2>3 DEF WindowInv
<1>6. CASE count > 0 /\ ttl # 1
  <2>1. /\ count' = count /\ Least' = Least
        /\ age' \in Nat /\ age' <= age + 1
        /\ age' = age + 1 \/ (age' = age /\ age >= Window)
        /\ ttl' > 0 => ttl > 0 /\ ttl' = ttl - 1
    BY <1>1, <1>4, <1>6
  <2>2. Cardinality(Within(Claims', 0, age')) <= Least'
    <3>1. 0 \in Int /\ age' \in Int /\ age \in Int /\ 0 <= 0 /\ age' - 1 <= age
      BY <1>1, <2>1
    <3>2. /\ Cardinality(Within(Claims', 0, age')) \in Nat
          /\ Cardinality(Within(Claims, 0, age)) \in Nat
          /\ Cardinality(Within(Claims', 0, age')) <= Cardinality(Within(Claims, 0, age))
      BY <1>2, <3>1, Zenon
    <3> QED BY <1>4, <1>6, <2>1, <3>2 DEF WindowInv
  <2>3. Cardinality(Within(Claims', 0, age' - 1)) <= Least' - 1
    <3>1. 0 \in Int /\ age' - 1 \in Int /\ age - 1 \in Int /\ 0 <= 0 /\ age' - 1 - 1 <= age - 1
      BY <1>1, <2>1
    <3>2. /\ Cardinality(Within(Claims', 0, age' - 1)) \in Nat
          /\ Cardinality(Within(Claims, 0, age - 1)) \in Nat
          /\ Cardinality(Within(Claims', 0, age' - 1)) <= Cardinality(Within(Claims, 0, age - 1))
      BY <1>2, <3>1, Zenon
    <3> QED BY <1>4, <1>6, <2>1, <3>2 DEF WindowInv
  <2>4. Cardinality(Within(Claims', age' + 1, Window - 1)) <= Limit - 1
    <3>1. CASE age' = age + 1
      <4> DEFINE lo == age' + 1
                 lo2 == age + 1
                 hi == Window - 1
      <4>1. /\ lo \in Int /\ lo2 \in Int /\ hi \in Int
            /\ lo2 <= 0 \/ lo2 <= lo - 1
            /\ hi - 1 <= hi
        BY <1>1, <3>1
      <4> HIDE DEF lo, lo2, hi
      <4>2. /\ Cardinality(Within(Claims', lo, hi)) \in Nat
            /\ Cardinality(Within(Claims, lo2, hi)) \in Nat
            /\ Cardinality(Within(Claims', lo, hi)) <= Cardinality(Within(Claims, lo2, hi))
        BY <1>2, <4>1
      <4>3. Cardinality(Within(Claims, lo2, hi)) <= Limit - 1
        BY <1>6 DEF WindowInv, lo2, hi
      <4>4. Cardinality(Within(Claims', lo, hi)) <= Limit - 1
        BY <1>1, <4>2, <4>3
      <4> QED BY <4>4 DEF lo, hi
    <3>2. CASE age' = age /\ age >= Window
      <4>1. Within(Claims', age' + 1, Window - 1) = {}
        BY <1>1, <3>2 DEF Within
      <4> QED BY <1>1, <4>1, FS_EmptySet
    <3> QED BY <2>1, <3>1, <3>2
  <2>5. ttl' > 0 => age' + ttl' >= Window
    BY <1>1, <2>1 DEF WindowInv
  <2> QED BY <1>3, <1>6, <2>1, <2>2, <2>3, <2>4, <2>5 DEF WindowInv
<1> QED BY <1>1, <1>5, <1>6

LEMMA WindowInit == Init => WindowInv
<1> SUFFICES ASSUME Init PROVE WindowInv
  OBVIOUS
<1>1. Claims = {}
  BY DEF Init, Claims, Holders, InFlight
<1>2. \A lo, hi : Within(Claims, lo, hi) = {}
  BY <1>1 DEF Within
<1>3. IsFiniteSet({}) /\ Cardinality({}) = 0
  BY FS_EmptySet
<1>4. count = 0 /\ ttl = 0 /\ Limit \in Nat \ {0}
  BY LimiterAssumption DEF Init
<1> QED BY <1>1, <1>2, <1>3, <1>4 DEF WindowInv

LEMMA WindowStep == TypeOK /\ MakerInv /\ WindowInv /\ [Next]_vars => WindowInv'
<1> SUFFICES ASSUME TypeOK, MakerInv, WindowInv, [Next]_vars PROVE WindowInv'
  OBVIOUS
<1>1. TypeOK'
  BY TypeStep
<1>2. ASSUME UNCHANGED <<count, age, ttl>>, Claims' \subseteq Claims PROVE WindowInv'
  BY <1>1, <1>2, NoMoreClaims DEF WindowInv
<1>3. ASSUME UNCHANGED admits, Holders' \subseteq Holders, \A q \in Holders' : flight'[q] = flight[q],
             UNCHANGED <<count, age, ttl>>
      PROVE  WindowInv'
  BY <1>2, <1>3, KeptClaims
<1>4. ASSUME NEW r \in Requests, Incr(r) PROVE WindowInv'
  BY <1>1, <1>4, IncrStep
<1>5. ASSUME NEW r \in Requests, Expire(r) PROVE WindowInv'
  <2>1. Holders' \subseteq Holders /\ \A q \in Holders' : flight'[q] = flight[q]
    BY <1>5 DEF Expire, Holders, InFlight, TypeOK
  <2>2. Claims' \subseteq Claims /\ UNCHANGED <<count, age>>
    BY <1>5, <2>1, KeptClaims DEF Expire
  <2>3. ttl' = Window /\ Window \in Nat /\ age \in Nat
    BY <1>5, LimiterAssumption DEF Expire, TypeOK, MakerInv, OneMaker, Maker, MaxAge
  <2> QED BY <1>1, <2>2, <2>3, NoMoreClaims
<1>6. ASSUME NEW r \in Requests, Admit(r) PROVE WindowInv'
  <2>1. UNCHANGED <<count, age, ttl>>
    BY <1>6 DEF Admit
  <2> QED BY <1>1, <1>6, <2>1, AdmittedClaim, NoMoreClaims DEF WindowInv
<1>7. ASSUME NEW r \in Requests, Refuse(r) \/ Cancel(r) PROVE WindowInv'
  <2>1. Holders' \subseteq Holders /\ \A q \in Holders' : flight'[q] = flight[q]
    BY <1>7 DEF Refuse, Cancel, Leave, Holders, InFlight, TypeOK
  <2>2. UNCHANGED admits /\ UNCHANGED <<count, age, ttl>>
    BY <1>7 DEF Refuse, Cancel
  <2> QED BY <1>3, <2>1, <2>2
<1>8. CASE Tick
  BY <1>1, <1>8, TickStep
<1>9. CASE UNCHANGED vars
  BY <1>3, <1>9 DEF vars, Holders, InFlight
<1> QED BY <1>4, <1>5, <1>6, <1>7, <1>8, <1>9 DEF Next

LEMMA WindowInvariance == Spec => [](TypeOK /\ WindowInv)
<1>1. Init => TypeOK /\ WindowInv
  BY TypeInit, WindowInit
<1>2. MakerInv /\ TypeOK /\ WindowInv /\ [Next]_vars => (TypeOK /\ WindowInv)'
  BY TypeStep, WindowStep
<1> QED BY <1>1, <1>2, MakerInvariance, PTL DEF Spec

\* The requests let through are no more than the claims, ...
LEMMA AdmittedClaims ==
    ASSUME TypeOK, IsFiniteSet(Claims)
    PROVE  /\ Cardinality(Admitted) \in Nat
           /\ Cardinality(Within(Claims, 0, Window - 1)) \in Nat
           /\ Cardinality(Admitted) <= Cardinality(Within(Claims, 0, Window - 1))
<1> DEFINE W == Within(Claims, 0, Window - 1)
           F == [a \in Admitted |-> Out(a[1], a[2])]
<1>1. IsFiniteSet(W)
  BY SmallerSet DEF Within
<1>2. ASSUME NEW a \in Admitted
      PROVE  a = <<a[1], a[2]>> /\ a[1] \in RecentTicks /\ a[2] \in 1..admits[a[1]]
  BY DEF Admitted
<1>3. ASSUME NEW a \in Admitted PROVE F[a] \in W
  <2>1. Out(a[1], a[2]) \in Claims
    BY <1>2 DEF Claims
  <2>2. Out(a[1], a[2])[1] \in 0..(Window - 1)
    BY <1>2 DEF Out, RecentTicks
  <2> QED BY <2>1, <2>2 DEF Within
<1>4. ASSUME NEW a \in Admitted, NEW b \in Admitted, F[a] = F[b] PROVE a = b
  <2>1. a[1] = b[1] /\ a[2] = b[2]
    BY <1>4 DEF Out
  <2> QED BY <1>2, <2>1
<1>5. F \in [Admitted -> W]
  BY <1>3
<1> HIDE DEF F, W
<1>6. F \in Injection(Admitted, W)
  BY <1>4, <1>5, Fun_IsInj
<1>7. IsFiniteSet(Admitted) /\ Cardinality(Admitted) <= Cardinality(W)
  BY <1>1, <1>6, FS_Injection
<1>8. Cardinality(Admitted) \in Nat /\ Cardinality(W) \in Nat
  BY <1>1, <1>7, FS_CardinalityType
<1> QED BY <1>7, <1>8 DEF W

\* ... and these at most Limit of the counter there is and Limit - 1 of the
\* one before: whatever the interleaving of INCR, EXPIRE, refusals, clients
\* that go away and expiries, fewer than twice Limit requests are let through
\* in any Window ticks.
THEOREM SlidingWindowIsBounded == Spec => []SlidingBound
<1>1. ASSUME TypeOK, WindowInv PROVE SlidingBound
  <2>1. /\ count \in Nat /\ age \in Nat /\ Window \in Nat
        /\ Limit \in Nat /\ Limit > 0 /\ Least <= Limit
    BY <1>1, LimiterAssumption DEF TypeOK, MaxAge, Least
  <2>2. \A lo, hi : IsFiniteSet(Within(Claims, lo, hi))
    BY <1>1, SmallerSet DEF WindowInv, Within
  <2>3. \A lo, hi : Cardinality(Within(Claims, lo, hi)) \in Nat
    BY <2>2, FS_CardinalityType
  <2>4. Cardinality(Within(Claims, 0, Window - 1)) < 2 * Limit
    <3>1. CASE count = 0
      <4>1. Cardinality(Within(Claims, 0, Window - 1)) <= Limit - 1
        BY <1>1, <3>1 DEF WindowInv
      <4> QED BY <2>1, <2>3, <4>1
    <3>2. CASE count > 0
      <4> DEFINE A == Within(Claims, 0, age)
                 B == Within(Claims, age + 1, Window - 1)
      <4>1. Within(Claims, 0, Window - 1) \subseteq A \union B
        BY <2>1 DEF Within
      <4>2. IsFiniteSet(A) /\ IsFiniteSet(B)
        BY <2>2
      <4>3. Cardinality(A) <= Limit /\ Cardinality(B) <= Limit - 1
        <5>1. Cardinality(A) <= Least /\ Least \in Nat
          BY <1>1, <2>1, <3>2 DEF WindowInv, Least
        <5>2. Cardinality(B) <= Limit - 1
          BY <1>1, <3>2 DEF WindowInv
        <5> QED BY <2>1, <2>3, <5>1, <5>2
      <4>4. Cardinality(A) \in Nat /\ Cardinality(B) \in Nat
        BY <2>3
      <4> HIDE DEF A, B
      <4>5. /\ IsFiniteSet(A \union B)
            /\ Cardinality(A \union B) = Cardinality(A) + Cardinality(B) - Cardinality(A \cap B)
        BY <4>2, FS_Union
      <4>6. Cardinality(A \cap B) \in Nat
        BY <4>2, SmallerSet
      <4>7. /\ Cardinality(Within(Claims, 0, Window - 1)) \in Nat
            /\ Cardinality(Within(Claims, 0, Window - 1)) <= Cardinality(A \union B)
        BY <4>1, <4>5, SmallerSet
      <4> QED BY <2>1, <4>3, <4>4, <4>5, <4>6, <4>7
    <3> QED BY <2>1, <3>1, <3>2
  <2> QED BY <1>1, <2>1, <2>4, AdmittedClaims DEF WindowInv, SlidingBound
<1> QED BY <1>1, WindowInvariance, PTL

=============================================================================
