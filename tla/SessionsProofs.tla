--------------------------- MODULE SessionsProofs ---------------------------
(***************************************************************************)
(* Proofs about Sessions, for any number of logins, any limits and times.  *)
(***************************************************************************)
EXTENDS Sessions, SequenceTheorems, FunctionTheorems, FiniteSetTheorems, TLAPS

LEMMA TypeInit == Init => TypeOK
<1> SUFFICES ASSUME Init PROVE TypeOK
  OBVIOUS
<1>1. list \in Seq(Logins) /\ made \in Seq(Logins)
  BY EmptySeq DEF Init
<1>2. /\ exp \in [Logins -> (-Leeway - 1)..Ttl]
      /\ key \in [Logins -> 0..Ttl] /\ due \in [Logins -> 0..Ttl]
  BY SessionsAssumption DEF Init
<1> QED BY <1>1, <1>2 DEF Init, TypeOK

\* What a push makes of the list, and a pop of the pushed list.
LEMMA PushAndPop ==
    ASSUME NEW S, NEW seq \in Seq(S), NEW s \in S
    PROVE  LET pushed == Append(seq, s) IN
           /\ pushed \in Seq(S) /\ pushed # <<>> /\ Len(pushed) = Len(seq) + 1
           /\ \A i \in 1..Len(seq) : pushed[i] = seq[i]
           /\ pushed[Len(seq) + 1] = s
           /\ Head(pushed) = pushed[1]
           /\ Tail(pushed) \in Seq(S) /\ Len(Tail(pushed)) = Len(seq)
           /\ \A i \in 1..Len(seq) : Tail(pushed)[i] = pushed[i + 1]
<1> DEFINE pushed == Append(seq, s)
<1>1. /\ pushed \in Seq(S) /\ pushed # <<>> /\ Len(pushed) = Len(seq) + 1
      /\ \A i \in 1..Len(seq) : pushed[i] = seq[i]
      /\ pushed[Len(seq) + 1] = s
  BY AppendProperties
<1>2. Len(seq) \in Nat
  BY LenProperties
<1> HIDE DEF pushed
<1>3. Head(pushed) = pushed[1]
  BY <1>1
<1>4. /\ Tail(pushed) \in Seq(S) /\ Len(Tail(pushed)) = Len(pushed) - 1
      /\ \A i \in 1..Len(Tail(pushed)) : Tail(pushed)[i] = pushed[i + 1]
  BY <1>1, HeadTailProperties
<1>5. Len(Tail(pushed)) = Len(seq)
  BY <1>1, <1>2, <1>4
<1>6. /\ Tail(pushed) \in Seq(S) /\ Len(Tail(pushed)) = Len(seq)
      /\ \A i \in 1..Len(seq) : Tail(pushed)[i] = pushed[i + 1]
  BY <1>4, <1>5
<1> QED BY <1>1, <1>3, <1>6 DEF pushed

LEMMA TypeStep == TypeOK /\ [Next]_vars => TypeOK'
<1> SUFFICES ASSUME TypeOK, [Next]_vars PROVE TypeOK'
  OBVIOUS
<1> USE SessionsAssumption DEF TypeOK, Live
<1>1. ASSUME NEW s \in Logins, Sign(s) PROVE TypeOK'
  BY <1>1 DEF Sign
<1>2. ASSUME NEW s \in Logins, CreateSession(s) PROVE TypeOK'
  <2> DEFINE pushed == Append(list, s)
  <2>1. pushed \in Seq(Logins) /\ Tail(pushed) \in Seq(Logins)
    BY PushAndPop
  <2>2. Append(made, s) \in Seq(Logins)
    BY AppendProperties
  <2>3. list' \in Seq(Logins) /\ made' \in Seq(Logins)
    BY <1>2, <2>1, <2>2 DEF CreateSession, Script
  <2>4. key' \in [Logins -> 0..Ttl] /\ due' \in [Logins -> 0..Ttl]
    BY <1>2 DEF CreateSession, Script
  <2> QED BY <1>2, <2>3, <2>4 DEF CreateSession, Script
<1>3. ASSUME NEW s \in Logins, Answer(s) PROVE TypeOK'
  BY <1>3 DEF Answer
<1>4. ASSUME NEW s \in Logins, LoginFails(s) PROVE TypeOK'
  BY <1>4 DEF LoginFails
<1>5. ASSUME NEW s \in Logins, Decode(s) PROVE TypeOK'
  BY <1>5 DEF Decode
<1>6. ASSUME NEW s \in Logins, FindSession(s) \/ Admit(s) \/ EndRequest(s) PROVE TypeOK'
  <2>1. CASE FindSession(s)
    BY <2>1 DEF FindSession
  <2>2. CASE Admit(s)
    BY <2>2 DEF Admit
  <2>3. CASE EndRequest(s)
    BY <2>3 DEF EndRequest
  <2> QED BY <1>6, <2>1, <2>2, <2>3
<1>7. ASSUME NEW l \in Limits, Restart(l) PROVE TypeOK'
  BY <1>7 DEF Restart
<1>8. CASE Tick
  <2>1. exp' \in [Logins -> (-Leeway - 1)..Ttl]
    BY <1>8 DEF Tick
  <2>2. key' \in [Logins -> 0..Ttl] /\ due' \in [Logins -> 0..Ttl]
    BY <1>8 DEF Tick, Less
  <2> QED BY <1>8, <2>1, <2>2 DEF Tick
<1>9. CASE UNCHANGED vars
  BY <1>9 DEF vars
<1> QED BY <1>1, <1>2, <1>3, <1>4, <1>5, <1>6, <1>7, <1>8, <1>9 DEF Next

\* Logins, sessions and requests keep their types.
THEOREM TypeCorrect == Spec => []TypeOK
<1>1. QED BY TypeInit, TypeStep, PTL DEF Spec

-----------------------------------------------------------------------------
(* A request knows more than it did when it came only about a session that *)
(* was there then: no step makes the session of a token that is answered.  *)

RequestInv ==
    \A s \in Logins :
        /\ req \in {"decoded", "session_found", "admitted"} \X {s} => pc[s] = "answered"
        /\ req = <<"decoded", s>> /\ Live(s) => wasLive
        /\ req \in {"session_found", "admitted"} \X {s} => wasLive

LEMMA RequestStep == TypeOK /\ RequestInv /\ [Next]_vars => RequestInv'
<1> SUFFICES ASSUME TypeOK, RequestInv, [Next]_vars PROVE RequestInv'
  OBVIOUS
<1> USE SessionsAssumption DEF TypeOK, RequestInv, Live
<1>1. ASSUME NEW s \in Logins, Sign(s) \/ Answer(s) \/ LoginFails(s) PROVE RequestInv'
  BY <1>1 DEF Sign, Answer, LoginFails
<1>2. ASSUME NEW s \in Logins, CreateSession(s) PROVE RequestInv'
  BY <1>2 DEF CreateSession, Script
<1>3. ASSUME NEW s \in Logins, Decode(s) PROVE RequestInv'
  BY <1>3 DEF Decode
<1>4. ASSUME NEW s \in Logins, FindSession(s) PROVE RequestInv'
  BY <1>4 DEF FindSession
<1>5. ASSUME NEW s \in Logins, Admit(s) PROVE RequestInv'
  BY <1>5 DEF Admit
<1>6. ASSUME NEW s \in Logins, EndRequest(s) PROVE RequestInv'
  BY <1>6 DEF EndRequest
<1>7. ASSUME NEW l \in Limits, Restart(l) PROVE RequestInv'
  BY <1>7 DEF Restart
<1>8. CASE Tick
  BY <1>8 DEF Tick, Less
<1>9. CASE UNCHANGED vars
  BY <1>9 DEF vars
<1> QED BY <1>1, <1>2, <1>3, <1>4, <1>5, <1>6, <1>7, <1>8, <1>9 DEF Next

\* Nobody is let through with a session that was not there when the request
\* came.
THEOREM AdmittedSessionWasLive == Spec => []AdmittedWasLive
<1>1. Init => RequestInv
  BY DEF Init, RequestInv
<1>2. TypeOK /\ RequestInv /\ [Next]_vars => RequestInv'
  BY RequestStep
<1>3. TypeOK /\ RequestInv => AdmittedWasLive
  BY DEF TypeOK, RequestInv, AdmittedWasLive
<1> QED BY <1>1, <1>2, <1>3, TypeCorrect, PTL DEF Spec

-----------------------------------------------------------------------------
(* The token is older than its session by no more than the login took      *)
(* between the two.                                                        *)

AgesInv ==
    /\ \A s \in Logins : pc[s] = "signed" => Ttl - exp[s] <= MaxFlight
    /\ \A s \in Logins : Live(s) => key[s] - exp[s] <= MaxFlight /\ pc[s] # "none"

LEMMA AgesStep == TypeOK /\ AgesInv /\ [Next]_vars => AgesInv'
<1> SUFFICES ASSUME TypeOK, AgesInv, [Next]_vars PROVE AgesInv'
  OBVIOUS
<1> USE SessionsAssumption DEF TypeOK, AgesInv, Live
<1>1. ASSUME NEW s \in Logins, Sign(s) PROVE AgesInv'
  BY <1>1 DEF Sign
<1>2. ASSUME NEW s \in Logins, CreateSession(s) PROVE AgesInv'
  <2>1. /\ pc[s] = "signed" /\ pc' = [pc EXCEPT ![s] = "made"] /\ exp' = exp
        /\ \A t \in Logins : key'[t] > 0 => key'[t] = IF t = s THEN Ttl ELSE key[t]
    BY <1>2 DEF CreateSession, Script
  <2> QED BY <2>1
<1>3. ASSUME NEW s \in Logins, Answer(s) \/ LoginFails(s) PROVE AgesInv'
  BY <1>3 DEF Answer, LoginFails
<1>4. ASSUME NEW s \in Logins, Decode(s) \/ FindSession(s) \/ Admit(s) \/ EndRequest(s)
      PROVE  AgesInv'
  <2>1. UNCHANGED <<pc, exp, key>>
    BY <1>4 DEF Decode, FindSession, Admit, EndRequest
  <2> QED BY <2>1
<1>5. ASSUME NEW l \in Limits, Restart(l) PROVE AgesInv'
  BY <1>5 DEF Restart
<1>6. CASE Tick
  <2>1. \A t \in Logins : (exp'[t] = exp[t] \/ exp'[t] = exp[t] - 1) /\ pc' = pc
    BY <1>6 DEF Tick
  <2>2. \A t \in Logins : key'[t] = Less(key[t]) /\ key[t] \in Int /\ exp[t] \in Int
    BY <1>6 DEF Tick
  <2>3. ASSUME NEW t \in Logins, pc[t] = "signed" PROVE Ttl - exp'[t] <= MaxFlight
    <3>1. Ttl - exp[t] < MaxFlight
      BY <1>6, <2>3 DEF Tick
    <3> HIDE DEF TypeOK, AgesInv
    <3> QED BY <2>1, <2>2, <3>1
  <2>4. ASSUME NEW t \in Logins, key'[t] > 0 PROVE key'[t] - exp'[t] <= MaxFlight /\ pc[t] # "none"
    <3>1. key[t] > 0 /\ key'[t] = key[t] - 1
      BY <2>2, <2>4 DEF Less
    <3>2. key[t] - exp[t] <= MaxFlight /\ pc[t] # "none"
      BY <3>1
    <3> HIDE DEF TypeOK, AgesInv
    <3> QED BY <2>1, <2>2, <3>1, <3>2
  <2> QED BY <2>1, <2>3, <2>4
<1>7. CASE UNCHANGED vars
  BY <1>7 DEF vars
<1> QED BY <1>1, <1>2, <1>3, <1>4, <1>5, <1>6, <1>7 DEF Next

\* If a login cannot take longer than the library forgives, a token is good
\* as long as its session is there.
THEOREM LiveTokensDecode ==
    ASSUME MaxFlight <= Leeway + 1
    PROVE  Spec => []LiveTokenDecodes
<1>1. Init => AgesInv
  BY SessionsAssumption DEF Init, AgesInv, Live
<1>2. TypeOK /\ AgesInv /\ [Next]_vars => AgesInv'
  BY AgesStep
<1>3. TypeOK /\ AgesInv => LiveTokenDecodes
  BY SessionsAssumption, MaxFlight <= Leeway + 1 DEF TypeOK, AgesInv, LiveTokenDecodes, Live
<1> QED BY <1>1, <1>2, <1>3, TypeCorrect, PTL DEF Spec

-----------------------------------------------------------------------------
(* The list holds the sessions made last, in the order they were made, and *)
(* what it has lost was deleted with it.                                   *)

ListInv ==
    /\ \A s \in Logins : Live(s) => \E i \in 1..Len(list) : list[i] = s
    /\ Len(list) <= top
    /\ low <= limit /\ limit <= top

\* A login by its parts.
LEMMA Creation ==
    ASSUME TypeOK, NEW s \in Logins, CreateSession(s)
    PROVE  LET pushed == Append(list, s)
               over == Len(list) + 1 > limit IN
           /\ pc[s] = "signed" /\ pc' = [pc EXCEPT ![s] = "made"]
           /\ list' = IF over THEN Tail(pushed) ELSE pushed
           /\ \A t \in Logins :
                 key'[t] = IF over /\ t = Head(pushed) THEN 0
                           ELSE IF t = s THEN Ttl ELSE key[t]
           /\ made' = Append(made, s)
           /\ \A t \in Logins : due'[t] = IF t = s THEN Ttl ELSE due[t]
           /\ UNCHANGED <<limit, low, top>>
BY DEF CreateSession, Script, TypeOK

LEMMA ListStep == TypeOK /\ ListInv /\ [Next]_vars => ListInv'
<1> SUFFICES ASSUME TypeOK, ListInv, [Next]_vars PROVE ListInv'
  OBVIOUS
<1> USE DEF Live
<1>a. list \in Seq(Logins)
  BY DEF TypeOK
<1>b. Len(list) \in Nat
  BY <1>a, LenProperties
<1>c. {limit, low, top} \subseteq Nat \ {0} /\ \A s \in Logins : key[s] \in Nat
  <2>1. {limit, low, top} \subseteq Limits /\ Limits \subseteq Nat \ {0}
    BY SessionsAssumption DEF TypeOK
  <2>2. key \in [Logins -> 0..Ttl] /\ Ttl \in Nat
    BY SessionsAssumption DEF TypeOK
  <2>3. {limit, low, top} \subseteq Nat \ {0}
    BY <2>1, Zenon
  <2>4. \A s \in Logins : key[s] \in Nat
    BY <2>2
  <2> QED BY <2>3, <2>4
<1>0. /\ Len(list) \in Nat /\ {limit, low, top} \subseteq Nat \ {0}
      /\ \A s \in Logins : key[s] \in Nat
  BY <1>b, <1>c
<1>1. ASSUME NEW s \in Logins, CreateSession(s) PROVE ListInv'
  <2> DEFINE pushed == Append(list, s)
             over == Len(list) + 1 > limit
  <2>1. /\ pushed \in Seq(Logins) /\ Len(pushed) = Len(list) + 1
        /\ \A i \in 1..Len(list) : pushed[i] = list[i]
        /\ pushed[Len(list) + 1] = s
        /\ Head(pushed) = pushed[1]
        /\ Len(Tail(pushed)) = Len(list)
        /\ \A i \in 1..Len(list) : Tail(pushed)[i] = pushed[i + 1]
    BY <1>a, PushAndPop
  <2>2. /\ list' = IF over THEN Tail(pushed) ELSE pushed
        /\ \A t \in Logins :
              key'[t] = IF over /\ t = Head(pushed) THEN 0
                        ELSE IF t = s THEN Ttl ELSE key[t]
        /\ UNCHANGED <<limit, low, top>>
    BY <1>1, Creation
  <2> HIDE DEF pushed
  <2>3. Len(list') <= top
    BY <1>0, <2>1, <2>2 DEF ListInv
  <2>4. ASSUME NEW t \in Logins, key'[t] > 0
        PROVE  \E i \in 1..Len(list') : list'[i] = t
    <3>1. PICK i \in 1..Len(pushed) : pushed[i] = t
      <4>1. CASE t = s
        BY <1>0, <2>1, <4>1
      <4>2. CASE t # s
        <5>1. key[t] > 0
          BY <2>2, <2>4, <4>2
        <5>2. PICK i \in 1..Len(list) : list[i] = t
          BY <5>1 DEF ListInv
        <5> QED BY <1>0, <2>1, <5>2
      <4> QED BY <4>1, <4>2
    <3>2. CASE over
      <4>1. i # 1
        BY <2>1, <2>2, <2>4, <3>1, <3>2
      <4>2. i - 1 \in 1..Len(list) /\ Tail(pushed)[i - 1] = t
        BY <1>0, <2>1, <3>1, <4>1
      <4> QED BY <2>1, <2>2, <3>2, <4>2
    <3>3. CASE ~over
      BY <2>2, <3>1, <3>3
    <3> QED BY <3>2, <3>3
  <2> QED BY <2>2, <2>3, <2>4 DEF ListInv
<1>2. ASSUME NEW s \in Logins,
             Sign(s) \/ Answer(s) \/ LoginFails(s) \/ Decode(s) \/ FindSession(s)
             \/ Admit(s) \/ EndRequest(s)
      PROVE  ListInv'
  <2>1. UNCHANGED <<key, list, limit, low, top>>
    BY <1>2 DEF Sign, Answer, LoginFails, Decode, FindSession, Admit, EndRequest
  <2> QED BY <2>1 DEF ListInv
<1>3. ASSUME NEW l \in Limits, Restart(l) PROVE ListInv'
  <2>1. /\ limit' = l /\ low' = IF l < low THEN l ELSE low
        /\ top' = IF l > top THEN l ELSE top
        /\ UNCHANGED <<key, list>>
    BY <1>3 DEF Restart
  <2>2. l \in Nat
    BY SessionsAssumption
  <2> QED BY <1>0, <2>1, <2>2 DEF ListInv
<1>4. CASE Tick
  <2>1. /\ UNCHANGED <<list, limit, low, top>>
        /\ \A s \in Logins : key'[s] = Less(key[s])
    BY <1>4 DEF Tick, TypeOK
  <2> QED BY <1>0, <2>1 DEF ListInv, Less
<1>5. CASE UNCHANGED vars
  BY <1>5 DEF vars, ListInv
<1> QED BY <1>1, <1>2, <1>3, <1>4, <1>5 DEF Next

LEMMA ListInvariant == Spec => []ListInv
<1>1. Init => ListInv
  BY SessionsAssumption DEF Init, ListInv, Live
<1>2. TypeOK /\ ListInv /\ [Next]_vars => ListInv'
  BY ListStep
<1> QED BY <1>1, <1>2, TypeCorrect, PTL DEF Spec

\* No session lives outside the list, and the list is never longer than the
\* largest limit so far.
THEOREM LiveSessionsAreBounded == Spec => []LiveBounded
<1>1. TypeOK /\ ListInv => LiveBounded
  <2> SUFFICES ASSUME TypeOK, ListInv PROVE LiveBounded
    OBVIOUS
  <2>1. \A i \in 1..Len(list) : list[i] \in ToSet(list)
    BY LenProperties DEF ToSet, TypeOK
  <2> QED BY <2>1 DEF ListInv, LiveBounded
<1> QED BY <1>1, ListInvariant, TypeCorrect, PTL

-----------------------------------------------------------------------------
(* Of the sessions made last, the list has dropped none that the limit     *)
(* still allowed, and each it holds lives until it expires.                *)

\* How many of the sessions the list has lost.
Lost == Len(made) - Len(list)

NewestInv ==
    /\ Lost >= 0
    /\ \A i \in 1..Len(list) : list[i] = made[Lost + i]
    /\ Lost = 0 \/ Len(list) >= low
    /\ \A i, j \in 1..Len(made) : made[i] = made[j] => i = j
    /\ \A i \in 1..Len(made) : pc[made[i]] \notin {"none", "signed"}
    /\ \A i \in 1..Len(list) : key[list[i]] = due[list[i]]

LEMMA Lengths ==
    ASSUME TypeOK
    PROVE  /\ list \in Seq(Logins) /\ made \in Seq(Logins)
           /\ Len(list) \in Nat /\ Len(made) \in Nat
           /\ \A i \in 1..Len(list) : list[i] \in Logins
           /\ \A i \in 1..Len(made) : made[i] \in Logins
           /\ limit \in Nat \ {0} /\ low \in Nat \ {0}
<1>1. list \in Seq(Logins) /\ made \in Seq(Logins)
  BY DEF TypeOK
<1>2. /\ Len(list) \in Nat /\ Len(made) \in Nat
      /\ \A i \in 1..Len(list) : list[i] \in Logins
      /\ \A i \in 1..Len(made) : made[i] \in Logins
  BY <1>1, LenProperties, ElementOfSeq
<1>3. {limit, low} \subseteq Limits /\ Limits \subseteq Nat \ {0}
  BY SessionsAssumption DEF TypeOK
<1>4. limit \in Nat \ {0} /\ low \in Nat \ {0}
  BY <1>3, Zenon
<1> QED BY <1>1, <1>2, <1>4

LEMMA NewestCreate ==
    ASSUME TypeOK, ListInv, NewestInv, NEW s \in Logins, CreateSession(s)
    PROVE  NewestInv'
<1> DEFINE pushed == Append(list, s)
           over == Len(list) + 1 > limit
<1>0. /\ list \in Seq(Logins) /\ made \in Seq(Logins)
      /\ Len(list) \in Nat /\ Len(made) \in Nat
      /\ \A i \in 1..Len(list) : list[i] \in Logins
      /\ \A i \in 1..Len(made) : made[i] \in Logins
      /\ limit \in Nat \ {0} /\ low \in Nat \ {0}
  BY Lengths
<1>1. /\ Len(pushed) = Len(list) + 1
      /\ \A i \in 1..Len(list) : pushed[i] = list[i]
      /\ pushed[Len(list) + 1] = s
      /\ Head(pushed) = pushed[1]
      /\ Len(Tail(pushed)) = Len(list)
      /\ \A i \in 1..Len(list) : Tail(pushed)[i] = pushed[i + 1]
  BY <1>0, PushAndPop
<1>2. /\ Len(made') = Len(made) + 1
      /\ \A i \in 1..Len(made) : made'[i] = made[i]
      /\ made'[Len(made) + 1] = s
  <2>1. made' = Append(made, s)
    BY Creation
  <2> QED BY <1>0, <2>1, AppendProperties
<1>3. /\ pc[s] = "signed" /\ pc' = [pc EXCEPT ![s] = "made"]
      /\ list' = IF over THEN Tail(pushed) ELSE pushed
      /\ \A t \in Logins :
            key'[t] = IF over /\ t = Head(pushed) THEN 0
                      ELSE IF t = s THEN Ttl ELSE key[t]
      /\ \A t \in Logins : due'[t] = IF t = s THEN Ttl ELSE due[t]
      /\ UNCHANGED <<limit, low, top>>
  BY Creation
<1> HIDE DEF pushed
<1>4. \A i \in 1..Len(made) : made[i] # s
  BY <1>3 DEF NewestInv
<1>5. \A i, j \in 1..Len(made') : made'[i] = made'[j] => i = j
  <2>1. \A i \in 1..Len(made') : i \in 1..Len(made) \/ i = Len(made) + 1
    BY <1>0, <1>2
  <2> QED BY <1>2, <1>4, <2>1 DEF NewestInv
<1>6. \A i \in 1..Len(made') : pc'[made'[i]] \notin {"none", "signed"}
  <2>1. \A i \in 1..Len(made') : i \in 1..Len(made) \/ i = Len(made) + 1
    BY <1>0, <1>2
  <2>2. pc \in [Logins -> {"none", "signed", "made", "answered", "failed"}]
    BY DEF TypeOK
  <2>3. \A t \in Logins : pc'[t] = IF t = s THEN "made" ELSE pc[t]
    BY <1>3, <2>2
  <2>4. ASSUME NEW i \in 1..Len(made) PROVE pc'[made'[i]] \notin {"none", "signed"}
    BY <1>0, <1>2, <1>4, <2>3, <2>4 DEF NewestInv
  <2>5. pc'[made'[Len(made) + 1]] \notin {"none", "signed"}
    BY <1>2, <2>3
  <2> QED BY <2>1, <2>4, <2>5
<1>7. \A i \in 1..Len(pushed) : pushed[i] = made'[Lost + i]
  <2>1. ASSUME NEW i \in 1..Len(list) PROVE pushed[i] = made'[Lost + i]
    BY <1>0, <1>1, <1>2, <2>1 DEF NewestInv, Lost
  <2>2. pushed[Len(list) + 1] = made'[Lost + Len(list) + 1]
    BY <1>0, <1>1, <1>2 DEF Lost
  <2>3. Lost \in Int
    BY <1>0 DEF Lost
  <2> QED BY <1>0, <1>1, <2>1, <2>2, <2>3
<1>8. \A i, j \in 1..Len(pushed) : pushed[i] = pushed[j] => i = j
  <2>1. Lost \in Nat /\ \A i \in 1..Len(pushed) : Lost + i \in 1..Len(made')
    BY <1>0, <1>1, <1>2 DEF NewestInv, Lost
  <2>2. ASSUME NEW i \in 1..Len(pushed), NEW j \in 1..Len(pushed), pushed[i] = pushed[j]
        PROVE  i = j
    <3>1. Lost + i = Lost + j
      BY <1>5, <1>7, <2>1, <2>2
    <3> QED BY <1>0, <1>1, <2>1, <3>1
  <2> QED BY <2>2
<1>9. \A i \in 1..Len(pushed) :
         pushed[i] \in Logins /\ (~(over /\ i = 1) => key'[pushed[i]] = due'[pushed[i]])
  <2> SUFFICES ASSUME NEW i \in 1..Len(pushed)
               PROVE  /\ pushed[i] \in Logins
                      /\ ~(over /\ i = 1) => key'[pushed[i]] = due'[pushed[i]]
    OBVIOUS
  <2>1. i \in 1..Len(list) \/ i = Len(list) + 1
    BY <1>0, <1>1
  <2>2. 1 \in 1..Len(pushed)
    BY <1>0, <1>1
  <2>3. pushed[i] \in Logins
    BY <1>0, <1>1, <2>1
  <2>4. ASSUME ~(over /\ i = 1) PROVE ~(over /\ pushed[i] = Head(pushed))
    BY <1>1, <1>8, <2>2, <2>4
  <2>5. CASE i \in 1..Len(list)
    <3>1. key[pushed[i]] = due[pushed[i]]
      BY <1>1, <2>5 DEF NewestInv
    <3> QED BY <1>3, <2>3, <2>4, <3>1
  <2>6. CASE i = Len(list) + 1
    BY <1>1, <1>3, <2>3, <2>4, <2>6
  <2> QED BY <2>1, <2>5, <2>6
<1>10. CASE over
  <2>1. list' = Tail(pushed) /\ Len(list') = Len(list) /\ Lost' = Lost + 1
    <3>1. list' = Tail(pushed)
      BY <1>3, <1>10
    <3>2. Len(list') = Len(list)
      BY <1>1, <3>1
    <3>3. Lost' = Lost + 1
      BY <1>0, <1>2, <3>2 DEF Lost
    <3> QED BY <3>1, <3>2, <3>3
  <2>2. \A i \in 1..Len(list') : i + 1 \in 1..Len(pushed) /\ i + 1 # 1 /\ list'[i] = pushed[i + 1]
    BY <1>0, <1>1, <2>1
  <2>3. Lost \in Int /\ Lost' >= 0
    <3>1. Lost \in Int
      BY <1>0 DEF Lost
    <3>2. Lost >= 0
      BY DEF NewestInv
    <3> QED BY <2>1, <3>1, <3>2
  <2>4. \A i \in 1..Len(list') : list'[i] = made'[Lost' + i]
    <3> SUFFICES ASSUME NEW i \in 1..Len(list') PROVE list'[i] = made'[Lost' + i]
      OBVIOUS
    <3>1. i + 1 \in 1..Len(pushed) /\ list'[i] = pushed[i + 1]
      BY <2>2
    <3>2. pushed[i + 1] = made'[Lost + (i + 1)]
      BY <1>7, <3>1
    <3>3. i \in Int
      BY <1>0, <2>1
    <3>4. Lost + (i + 1) = Lost' + i
      BY <2>1, <2>3, <3>3
    <3> QED BY <3>1, <3>2, <3>4
  <2>5. Len(list') >= low'
    BY <1>0, <1>3, <1>10, <2>1 DEF ListInv
  <2>6. \A i \in 1..Len(list') : key'[list'[i]] = due'[list'[i]]
    BY <1>9, <2>2
  <2> QED BY <1>5, <1>6, <2>3, <2>4, <2>5, <2>6 DEF NewestInv
<1>11. CASE ~over
  <2>1. list' = pushed /\ Len(list') = Len(list) + 1 /\ Lost' = Lost
    <3>1. list' = pushed
      BY <1>3, <1>11
    <3>2. Len(list') = Len(list) + 1
      BY <1>1, <3>1
    <3>3. Lost' = Lost
      BY <1>0, <1>2, <3>2 DEF Lost
    <3> QED BY <3>1, <3>2, <3>3
  <2>2. Lost' = 0 \/ Len(list') >= low'
    BY <1>0, <1>3, <2>1 DEF NewestInv
  <2>3. Lost' >= 0
    BY <2>1 DEF NewestInv
  <2>4. \A i \in 1..Len(list') : list'[i] = made'[Lost' + i]
    BY <1>7, <2>1
  <2>5. \A i \in 1..Len(list') : key'[list'[i]] = due'[list'[i]]
    BY <1>9, <1>11, <2>1
  <2> QED BY <1>5, <1>6, <2>2, <2>3, <2>4, <2>5 DEF NewestInv
<1> QED BY <1>10, <1>11

LEMMA NewestStep == TypeOK /\ ListInv /\ NewestInv /\ [Next]_vars => NewestInv'
<1> SUFFICES ASSUME TypeOK, ListInv, NewestInv, [Next]_vars PROVE NewestInv'
  OBVIOUS
<1>0. /\ \A i \in 1..Len(list) : list[i] \in Logins
      /\ \A i \in 1..Len(made) : made[i] \in Logins
      /\ low \in Nat /\ Len(list) \in Nat
      /\ pc \in [Logins -> {"none", "signed", "made", "answered", "failed"}]
  BY Lengths DEF TypeOK
<1>1. ASSUME NEW s \in Logins, CreateSession(s) PROVE NewestInv'
  BY <1>1, NewestCreate
<1>2. ASSUME NEW s \in Logins, Sign(s) \/ Answer(s) \/ LoginFails(s) PROVE NewestInv'
  <2>1. /\ UNCHANGED <<key, list, made, due, low>>
        /\ \A t \in Logins : pc[t] \notin {"none", "signed"} => pc'[t] \notin {"none", "signed"}
    BY <1>0, <1>2 DEF Sign, Answer, LoginFails
  <2> QED BY <1>0, <2>1 DEF NewestInv, Lost
<1>3. ASSUME NEW s \in Logins, Decode(s) \/ FindSession(s) \/ Admit(s) \/ EndRequest(s)
      PROVE  NewestInv'
  <2>1. UNCHANGED <<pc, key, list, made, due, low>>
    BY <1>3 DEF Decode, FindSession, Admit, EndRequest
  <2> QED BY <2>1 DEF NewestInv, Lost
<1>4. ASSUME NEW l \in Limits, Restart(l) PROVE NewestInv'
  <2>1. /\ UNCHANGED <<key, list, made, due>>
        /\ low' \in Nat /\ low' <= low
    <3>1. l \in Nat
      BY SessionsAssumption
    <3> QED BY <1>0, <1>4, <3>1 DEF Restart
  <2>2. \A t \in Logins : pc[t] \notin {"none", "signed"} => pc'[t] \notin {"none", "signed"}
    BY <1>0, <1>4 DEF Restart
  <2>3. Lost' = Lost /\ (Lost = 0 \/ Len(list) >= low')
    BY <1>0, <2>1 DEF NewestInv, Lost
  <2> QED BY <1>0, <2>1, <2>2, <2>3 DEF NewestInv
<1>5. CASE Tick
  <2>1. /\ UNCHANGED <<pc, list, made, low>>
        /\ key' = [t \in Logins |-> Less(key[t])]
        /\ due' = [t \in Logins |-> Less(due[t])]
    BY <1>5 DEF Tick
  <2>2. \A i \in 1..Len(list) : key'[list[i]] = due'[list[i]]
    BY <1>0, <2>1 DEF NewestInv
  <2> QED BY <2>1, <2>2 DEF NewestInv, Lost
<1>6. CASE UNCHANGED vars
  BY <1>6 DEF vars, NewestInv, Lost
<1> QED BY <1>1, <1>2, <1>3, <1>4, <1>5, <1>6 DEF Next

LEMMA NewestInvariant == Spec => []NewestInv
<1>1. Init => NewestInv
  BY DEF Init, NewestInv, Lost
<1>2. TypeOK /\ ListInv /\ NewestInv /\ [Next]_vars => NewestInv'
  BY NewestStep
<1> QED BY <1>1, <1>2, TypeCorrect, ListInvariant, PTL DEF Spec

\* Of the sessions made last, as many as the smallest limit so far, none is
\* gone before it expires.
THEOREM NewestSessionsLive == Spec => []NewestLive
<1>1. TypeOK /\ NewestInv => NewestLive
  <2> SUFFICES ASSUME TypeOK, NewestInv, NEW i \in DOMAIN made,
                      i > Len(made) - low, due[made[i]] > 0
               PROVE  Live(made[i])
    BY DEF NewestLive
  <2>1. /\ Len(list) \in Nat /\ Len(made) \in Nat /\ low \in Nat
        /\ DOMAIN made = 1..Len(made)
    BY Lengths, LenProperties
  <2>2. Lost \in Nat /\ i - Lost \in 1..Len(list)
    BY <2>1 DEF NewestInv, Lost
  <2>3. made[i] = list[i - Lost]
    BY <2>1, <2>2 DEF NewestInv
  <2> QED BY <2>2, <2>3 DEF NewestInv, Live
<1> QED BY <1>1, TypeCorrect, NewestInvariant, PTL

-----------------------------------------------------------------------------
(* Sessions expire in the order they were made, so that the one evicted, if  *)
(* it is live, is the last of those in the list to be missed.                *)

OrderInv == \A i, j \in 1..Len(made) : i <= j => due[made[i]] <= due[made[j]]

LEMMA OrderStep == TypeOK /\ NewestInv /\ OrderInv /\ [Next]_vars => OrderInv'
<1> SUFFICES ASSUME TypeOK, NewestInv, OrderInv, [Next]_vars PROVE OrderInv'
  OBVIOUS
<1>0. /\ made \in Seq(Logins) /\ Len(made) \in Nat
      /\ \A i \in 1..Len(made) : made[i] \in Logins
      /\ \A t \in Logins : due[t] \in Nat /\ due[t] <= Ttl
      /\ Ttl \in Nat
  <2>1. /\ made \in Seq(Logins) /\ Len(made) \in Nat
        /\ \A i \in 1..Len(made) : made[i] \in Logins
    BY Lengths
  <2>2. due \in [Logins -> 0..Ttl] /\ Ttl \in Nat
    BY SessionsAssumption DEF TypeOK
  <2> QED BY <2>1, <2>2
<1>1. ASSUME NEW s \in Logins, CreateSession(s) PROVE OrderInv'
  <2>1. /\ Len(made') = Len(made) + 1
        /\ \A i \in 1..Len(made) : made'[i] = made[i]
        /\ made'[Len(made) + 1] = s
    <3>1. made' = Append(made, s)
      BY <1>1, Creation
    <3> QED BY <1>0, <3>1, AppendProperties
  <2>2. \A t \in Logins : due'[t] = IF t = s THEN Ttl ELSE due[t]
    BY <1>1, Creation
  <2>3. \A i \in 1..Len(made) : made[i] # s
    BY <1>1, Creation DEF NewestInv
  <2> SUFFICES ASSUME NEW i \in 1..Len(made'), NEW j \in 1..Len(made'), i <= j
               PROVE  due'[made'[i]] <= due'[made'[j]]
    BY DEF OrderInv
  <2>4. CASE j = Len(made) + 1
    <3>1. made'[i] \in Logins /\ due'[made'[i]] <= Ttl
      BY <1>0, <2>1, <2>2
    <3> QED BY <2>1, <2>2, <2>4, <3>1
  <2>5. CASE j # Len(made) + 1
    <3>1. i \in 1..Len(made) /\ j \in 1..Len(made)
      BY <1>0, <2>1, <2>5
    <3> QED BY <1>0, <2>1, <2>2, <2>3, <3>1 DEF OrderInv
  <2> QED BY <2>4, <2>5
<1>2. ASSUME NEW s \in Logins,
             Sign(s) \/ Answer(s) \/ LoginFails(s) \/ Decode(s) \/ FindSession(s)
             \/ Admit(s) \/ EndRequest(s)
      PROVE  OrderInv'
  <2>1. UNCHANGED <<made, due>>
    BY <1>2 DEF Sign, Answer, LoginFails, Decode, FindSession, Admit, EndRequest
  <2> QED BY <2>1 DEF OrderInv
<1>3. ASSUME NEW l \in Limits, Restart(l) PROVE OrderInv'
  BY <1>3 DEF Restart, OrderInv
<1>4. CASE Tick
  <2>1. made' = made /\ \A t \in Logins : due'[t] = Less(due[t])
    BY <1>4 DEF Tick
  <2> QED BY <1>0, <2>1 DEF OrderInv, Less
<1>5. CASE UNCHANGED vars
  BY <1>5 DEF vars, OrderInv
<1> QED BY <1>1, <1>2, <1>3, <1>4, <1>5 DEF Next

LEMMA OrderInvariant == Spec => []OrderInv
<1>1. Init => OrderInv
  BY DEF Init, OrderInv
<1>2. TypeOK /\ NewestInv /\ OrderInv /\ [Next]_vars => OrderInv'
  BY OrderStep
<1> QED BY <1>1, <1>2, TypeCorrect, NewestInvariant, PTL DEF Spec

\* A list without repetitions whose members are all in a set that it covers
\* is no longer than the set is large.
LEMMA DistinctMembers ==
    ASSUME NEW S, NEW seq \in Seq(S), NEW T,
           \A i \in 1..Len(seq) : seq[i] \in T,
           \A i, j \in 1..Len(seq) : seq[i] = seq[j] => i = j,
           \A t \in T : \E i \in 1..Len(seq) : seq[i] = t
    PROVE  IsFiniteSet(T) /\ Cardinality(T) = Len(seq)
<1> DEFINE F == [i \in 1..Len(seq) |-> seq[i]]
<1>1. Len(seq) \in Nat
  BY LenProperties
<1>2. IsFiniteSet(1..Len(seq)) /\ Cardinality(1..Len(seq)) = Len(seq)
  <2>1. ASSUME NEW n \in Nat PROVE IsFiniteSet(1..n) /\ Cardinality(1..n) = n
    <3>1. 1 \in Int /\ n \in Int
      OBVIOUS
    <3>2. IsFiniteSet(1..n) /\ Cardinality(1..n) = IF 1 > n THEN 0 ELSE n - 1 + 1
      BY <3>1, FS_Interval, Zenon
    <3> QED BY <3>2
  <2> QED BY <1>1, <2>1
<1>3. F \in [1..Len(seq) -> T]
  OBVIOUS
<1>4. F \in Bijection(1..Len(seq), T)
  BY <1>3, Fun_IsBij
<1>5. ExistsBijection(1..Len(seq), T)
  BY <1>4 DEF ExistsBijection
<1> QED BY <1>2, <1>5, FS_Bijection

\* A login that evicts a live session leaves as many as the limit allows, for
\* every limit, number of logins and order of their steps.
THEOREM EvictionsMakeRoom == Spec => EvictedByLive
<1> DEFINE A == \A s \in Logins :
                   key[s] > 1 /\ key'[s] = 0
                       => Cardinality({t \in Logins : key'[t] > 0}) >= limit
<1>1. ASSUME TypeOK, ListInv, NewestInv, OrderInv, TypeOK', ListInv', NewestInv',
             NEW u \in Logins, CreateSession(u),
             NEW s \in Logins, key[s] > 1, key'[s] = 0
      PROVE  Cardinality({t \in Logins : key'[t] > 0}) >= limit
  <2> DEFINE pushed == Append(list, u)
             over == Len(list) + 1 > limit
             T == {t \in Logins : key'[t] > 0}
  <2>0. /\ list \in Seq(Logins) /\ Len(list) \in Nat
        /\ \A i \in 1..Len(list) : list[i] \in Logins
        /\ limit \in Nat \ {0} /\ Len(made) \in Nat
    BY <1>1, Lengths
  <2>1. /\ Len(pushed) = Len(list) + 1
        /\ \A i \in 1..Len(list) : pushed[i] = list[i]
        /\ pushed[Len(list) + 1] = u
        /\ Head(pushed) = pushed[1]
        /\ Tail(pushed) \in Seq(Logins)
        /\ Len(Tail(pushed)) = Len(list)
        /\ \A i \in 1..Len(list) : Tail(pushed)[i] = pushed[i + 1]
    BY <2>0, PushAndPop
  <2>2. /\ list' = IF over THEN Tail(pushed) ELSE pushed
        /\ \A t \in Logins :
              key'[t] = IF over /\ t = Head(pushed) THEN 0
                        ELSE IF t = u THEN Ttl ELSE key[t]
    BY <1>1, Creation
  <2> HIDE DEF pushed
  <2>3. Ttl \in Nat \ {0} /\ \A t \in Logins : key[t] \in Nat
    BY <1>1, SessionsAssumption DEF TypeOK
  <2>4. over /\ s = pushed[1]
    BY <1>1, <2>1, <2>2, <2>3
  <2>5. /\ list' = Tail(pushed) /\ Len(list') = Len(list) /\ Len(list) >= limit
        /\ list' \in Seq(Logins)
        /\ \A i \in 1..Len(list') : list'[i] = pushed[i + 1]
    BY <2>0, <2>1, <2>2, <2>4
  <2>6. /\ 1 \in 1..Len(list) /\ s = list[1]
    BY <2>0, <2>1, <2>4, <2>5
  <2>7. \A i, j \in 1..Len(list) : list[i] = list[j] => i = j
    <3>1. Lost \in Nat
      BY <2>0, <1>1 DEF NewestInv, Lost
    <3>2. \A i \in 1..Len(list) : Lost + i \in 1..Len(made) /\ list[i] = made[Lost + i]
      BY <1>1, <2>0, <3>1 DEF NewestInv, Lost
    <3> QED BY <1>1, <2>0, <3>1, <3>2 DEF NewestInv
  <2>8. \A i \in 1..Len(list) : key[list[i]] >= key[s]
    <3>1. Lost \in Nat
      BY <2>0, <1>1 DEF NewestInv, Lost
    <3>2. \A i \in 1..Len(list) : Lost + i \in 1..Len(made) /\ list[i] = made[Lost + i]
      BY <1>1, <2>0, <3>1 DEF NewestInv, Lost
    <3>3. \A i \in 1..Len(list) : key[list[i]] = due[made[Lost + i]]
      BY <1>1, <3>2 DEF NewestInv
    <3> QED BY <1>1, <2>0, <2>6, <3>1, <3>2, <3>3 DEF OrderInv
  \* All that is left in the list is live ...
  <2>9. \A i \in 1..Len(list') : list'[i] \in T
    <3> SUFFICES ASSUME NEW i \in 1..Len(list') PROVE list'[i] \in T
      OBVIOUS
    <3>1. CASE i = Len(list)
      <4>1. list'[i] = u
        BY <2>0, <2>1, <2>5, <3>1
      <4>2. key[u] \in Nat
        BY <1>1 DEF TypeOK
      <4>3. u # s
        <5>1. /\ \A k \in 1..Len(made) : made[k] # u
          BY <1>1, Creation DEF NewestInv
        <5>2. Lost + 1 \in 1..Len(made) /\ list[1] = made[Lost + 1]
          BY <1>1, <2>0, <2>6 DEF NewestInv, Lost
        <5> QED BY <2>6, <5>1, <5>2
      <4> QED BY <2>1, <2>2, <2>3, <2>4, <4>1, <4>3
    <3>2. CASE i # Len(list)
      <4>1. i + 1 \in 1..Len(list) /\ i + 1 # 1 /\ list'[i] = list[i + 1]
        BY <2>0, <2>1, <2>5, <3>2
      <4>2. list[i + 1] # s /\ list[i + 1] \in Logins
        BY <2>0, <2>6, <2>7, <4>1
      <4>3. key[list[i + 1]] > 1
        BY <1>1, <2>3, <2>8, <4>1, <4>2
      <4>4. key'[list[i + 1]] > 0
        <5>1. CASE list[i + 1] = u
          BY <2>1, <2>2, <2>3, <2>4, <4>2, <5>1
        <5>2. CASE list[i + 1] # u
          <6>1. key'[list[i + 1]] = key[list[i + 1]]
            BY <2>1, <2>2, <2>4, <4>2, <5>2
          <6>2. key[list[i + 1]] \in Nat
            BY <2>3, <4>2
          <6> QED BY <4>3, <6>1, <6>2
        <5> QED BY <5>1, <5>2
      <4> QED BY <4>1, <4>2, <4>4
    <3> QED BY <3>1, <3>2
  \* ... and distinct.
  <2>10. \A i, j \in 1..Len(list') : list'[i] = list'[j] => i = j
    <3>1. Lost' \in Nat
      BY <1>1, Lengths DEF NewestInv, Lost
    <3>2. Len(made') \in Nat /\ Len(list') \in Nat
      BY <1>1, Lengths
    <3>3. \A i \in 1..Len(list') : Lost' + i \in 1..Len(made') /\ list'[i] = made'[Lost' + i]
      BY <1>1, <3>1, <3>2 DEF NewestInv, Lost
    <3>4. \A i, j \in 1..Len(made') : made'[i] = made'[j] => i = j
      BY <1>1 DEF NewestInv
    <3> SUFFICES ASSUME NEW i \in 1..Len(list'), NEW j \in 1..Len(list'), list'[i] = list'[j]
                 PROVE  i = j
      OBVIOUS
    <3>5. Lost' + i = Lost' + j
      BY <3>3, <3>4
    <3> QED BY <3>1, <3>2, <3>5
  <2>11. \A t \in T : \E i \in 1..Len(list') : list'[i] = t
    BY <1>1 DEF ListInv, Live
  <2>12. Cardinality(T) = Len(list')
    <3> DEFINE left == list'
    <3>1. left \in Seq(Logins)
      BY <2>5
    <3>2. \A i \in 1..Len(left) : left[i] \in T
      BY <2>9
    <3>3. \A i, j \in 1..Len(left) : left[i] = left[j] => i = j
      BY <2>10
    <3>4. \A t \in T : \E i \in 1..Len(left) : left[i] = t
      BY <2>11
    <3> HIDE DEF T, left
    <3>5. Cardinality(T) = Len(left)
      BY <3>1, <3>2, <3>3, <3>4, DistinctMembers
    <3> QED BY <3>5 DEF left
  <2> QED BY <2>0, <2>5, <2>12
<1>2. TypeOK /\ ListInv /\ NewestInv /\ OrderInv /\ TypeOK' /\ ListInv' /\ NewestInv'
        /\ [Next]_vars => [A]_vars
  <2> SUFFICES ASSUME TypeOK, ListInv, NewestInv, OrderInv, TypeOK', ListInv', NewestInv',
                      Next, NEW s \in Logins, key[s] > 1, key'[s] = 0
               PROVE  Cardinality({t \in Logins : key'[t] > 0}) >= limit
    OBVIOUS
  <2>1. key[s] \in Nat
    BY SessionsAssumption DEF TypeOK
  <2>2. ASSUME NEW u \in Logins, CreateSession(u)
        PROVE  Cardinality({t \in Logins : key'[t] > 0}) >= limit
    BY <1>1, <2>2
  <2>3. CASE Tick
    BY <2>1, <2>3 DEF Tick, Less
  <2>4. CASE UNCHANGED key
    BY <2>1, <2>4
  <2>5. (\E u \in Logins : CreateSession(u)) \/ Tick \/ UNCHANGED key
    BY DEF Next, Sign, Answer, LoginFails, Decode, FindSession, Admit, EndRequest, Restart
  <2> QED BY <2>2, <2>3, <2>4, <2>5
<1>3. TypeOK /\ ListInv /\ NewestInv /\ OrderInv /\ [Next]_vars => TypeOK' /\ ListInv' /\ NewestInv'
  BY TypeStep, ListStep, NewestStep
<1> QED BY <1>2, <1>3, TypeCorrect, ListInvariant, NewestInvariant, OrderInvariant, PTL
        DEF Spec, EvictedByLive

-----------------------------------------------------------------------------
(* Sessions implements NewestSessions.  A tick closes those whose time is    *)
(* over, and these are older than the others; a login closes the head of the *)
(* list, if that is live, and then the whole list is.                        *)

LiveSet == {s \in Logins : Live(s)}

\* NewestSessions counts with a Cardinality of its own, which is the same.
LEMMA SameCardinality ==
    ASSUME NEW S
    PROVE  N!Cardinality(S) = Cardinality(S)
BY DEF N!Cardinality, Cardinality

\* A list that has all of a set is no shorter than the set is large.
LEMMA CoveringList ==
    ASSUME NEW S, NEW seq \in Seq(S), NEW T, \A t \in T : \E i \in 1..Len(seq) : seq[i] = t
    PROVE  IsFiniteSet(T) /\ Cardinality(T) \in Nat /\ Cardinality(T) <= Len(seq)
<1> DEFINE I == 1..Len(seq)
           F == [t \in T |-> CHOOSE i \in I : seq[i] = t]
<1>1. \A t \in T : F[t] \in I /\ seq[F[t]] = t
  OBVIOUS
<1>2. IsFiniteSet(I) /\ Cardinality(I) = Len(seq)
  <2>1. ASSUME NEW n \in Nat PROVE IsFiniteSet(1..n) /\ Cardinality(1..n) = n
    <3>1. 1 \in Int /\ n \in Int
      OBVIOUS
    <3>2. IsFiniteSet(1..n) /\ Cardinality(1..n) = IF 1 > n THEN 0 ELSE n - 1 + 1
      BY <3>1, FS_Interval, Zenon
    <3> QED BY <3>2
  <2>2. Len(seq) \in Nat
    BY LenProperties
  <2> QED BY <2>1, <2>2
<1>3. F \in [T -> I]
  BY <1>1
<1>4. \A a, b \in T : F[a] = F[b] => a = b
  BY <1>1
<1> HIDE DEF F, I
<1>5. F \in Injection(T, I)
  BY <1>3, <1>4, Fun_IsInj
<1>6. IsFiniteSet(T) /\ Cardinality(T) <= Cardinality(I)
  BY <1>2, <1>5, FS_Injection
<1> QED BY <1>2, <1>6, FS_CardinalityType

\* Where a live session is, in the list and in the history.
LEMMA LivePlaces ==
    ASSUME TypeOK, ListInv, NewestInv
    PROVE  /\ Lost \in Nat /\ DOMAIN made = 1..Len(made)
           /\ \A i \in 1..Len(list) : /\ Lost + i \in 1..Len(made)
                                       /\ list[i] = made[Lost + i]
                                       /\ key[list[i]] = due[made[Lost + i]]
           /\ \A s \in LiveSet : \E i \in 1..Len(list) : list[i] = s
           /\ \A i, j \in 1..Len(list) : list[i] = list[j] => i = j
<1>1. Len(list) \in Nat /\ Len(made) \in Nat /\ made \in Seq(Logins)
  BY Lengths
<1>2. Lost \in Nat /\ DOMAIN made = 1..Len(made)
  BY <1>1, LenProperties DEF NewestInv, Lost
<1>3. \A i \in 1..Len(list) : /\ Lost + i \in 1..Len(made)
                             /\ list[i] = made[Lost + i]
                             /\ key[list[i]] = due[made[Lost + i]]
  <2> SUFFICES ASSUME NEW i \in 1..Len(list)
               PROVE  /\ Lost + i \in 1..Len(made) /\ list[i] = made[Lost + i]
                      /\ key[list[i]] = due[made[Lost + i]]
    OBVIOUS
  <2>1. Lost + i \in 1..Len(made)
    BY <1>1, <1>2 DEF Lost
  <2>2. list[i] = made[Lost + i] /\ key[list[i]] = due[list[i]]
    BY DEF NewestInv
  <2> QED BY <2>1, <2>2
<1>4. \A s \in LiveSet : \E i \in 1..Len(list) : list[i] = s
  BY DEF LiveSet, ListInv
<1>5. \A i, j \in 1..Len(list) : list[i] = list[j] => i = j
  <2> SUFFICES ASSUME NEW i \in 1..Len(list), NEW j \in 1..Len(list), list[i] = list[j]
               PROVE  i = j
    OBVIOUS
  <2>1. Lost + i = Lost + j
    BY <1>3 DEF NewestInv
  <2> QED BY <1>1, <1>2, <2>1
<1> QED BY <1>2, <1>3, <1>4, <1>5

LEMMA PlacesOrdered ==
    ASSUME TypeOK, ListInv, NewestInv, NEW i \in 1..Len(list), NEW j \in 1..Len(list), i < j
    PROVE  N!Older(list[i], list[j])
<1>1. /\ Lost + i \in DOMAIN made /\ Lost + j \in DOMAIN made
      /\ made[Lost + i] = list[i] /\ made[Lost + j] = list[j]
  BY LivePlaces
<1>2. Lost \in Nat /\ Len(list) \in Nat
  BY LivePlaces, Lengths
<1>3. Lost + i < Lost + j
  BY <1>2
<1> QED BY <1>1, <1>3 DEF N!Older

LEMMA TickCloses ==
    ASSUME TypeOK, ListInv, NewestInv, OrderInv, Tick
    PROVE  N!Expire
<1> DEFINE S == {s \in Logins : key[s] = 1}
<1>1. \A s \in Logins : key[s] \in Nat /\ key'[s] = Less(key[s])
  BY SessionsAssumption DEF Tick, TypeOK
<1>2. S \subseteq LiveSet /\ LiveSet' = LiveSet \ S
  BY <1>1 DEF LiveSet, Live, Less
<1>3. ASSUME NEW s \in S, NEW t \in LiveSet \ S PROVE N!Older(s, t)
  <2>1. PICK i \in 1..Len(list), j \in 1..Len(list) : list[i] = s /\ list[j] = t
    BY <1>2, LivePlaces
  <2>2. key[s] = 1 /\ key[t] > 1
    BY <1>1 DEF LiveSet, Live
  <2>3. i < j
    <3>1. Lost \in Nat /\ Len(list) \in Nat
      BY LivePlaces, Lengths
    <3>2. /\ Lost + i \in 1..Len(made) /\ Lost + j \in 1..Len(made)
          /\ due[made[Lost + i]] = 1 /\ due[made[Lost + j]] > 1
      BY <2>1, <2>2, LivePlaces
    <3>3. due[made[Lost + j]] \in Nat
      <4>1. due[made[Lost + j]] = key[t] /\ t \in Logins
        BY <2>1, LivePlaces DEF LiveSet
      <4> QED BY <1>1, <4>1
    <3>4. ~(Lost + j <= Lost + i)
      BY <3>2, <3>3 DEF OrderInv
    <3> QED BY <3>1, <3>4
  <2> QED BY <2>1, <2>3, PlacesOrdered
<1>4. UNCHANGED <<made, limit, top, AcceptedSession>>
  BY DEF Tick, AcceptedSession
<1> HIDE DEF S
<1>5. S \in SUBSET LiveSet /\ \A s \in S, t \in LiveSet \ S : N!Older(s, t)
  BY <1>2, <1>3
<1> QED BY <1>2, <1>4, <1>5 DEF N!Expire, N!Oldest, LiveSet

LEMMA LoginOpens ==
    ASSUME TypeOK, ListInv, NewestInv, OrderInv, TypeOK', ListInv',
           NEW u \in Logins, CreateSession(u)
    PROVE  N!Open(u)
<1> DEFINE pushed == Append(list, u)
           over == Len(list) + 1 > limit
           o == list[1]
<1>0. /\ list \in Seq(Logins) /\ Len(list) \in Nat /\ limit \in Nat \ {0}
      /\ \A i \in 1..Len(list) : list[i] \in Logins
      /\ Ttl \in Nat \ {0} /\ \A t \in Logins : key[t] \in Nat
  BY Lengths, SessionsAssumption DEF TypeOK
<1>1. /\ Len(pushed) = Len(list) + 1
      /\ \A i \in 1..Len(list) : pushed[i] = list[i]
      /\ pushed[Len(list) + 1] = u
      /\ Head(pushed) = pushed[1]
  BY <1>0, PushAndPop
<1>2. /\ \A t \in Logins :
            key'[t] = IF over /\ t = Head(pushed) THEN 0
                      ELSE IF t = u THEN Ttl ELSE key[t]
      /\ made' = Append(made, u) /\ pc[u] = "signed"
      /\ UNCHANGED <<limit, top>>
  BY Creation
<1> HIDE DEF pushed
<1>3. /\ \A i \in DOMAIN made : made[i] # u
      /\ \A i \in 1..Len(list) : list[i] # u
  <2>1. \A i \in 1..Len(made) : made[i] # u
    BY <1>2 DEF NewestInv
  <2> QED BY <2>1, LivePlaces
<1>4. N!Cardinality(LiveSet') <= top
  <2>1. \A s \in LiveSet' : \E i \in 1..Len(list') : list'[i] = s
    BY DEF LiveSet, ListInv
  <2>2. Len(list') <= top /\ Len(list') \in Nat /\ list' \in Seq(Logins)
    BY <1>2, Lengths DEF ListInv, TypeOK
  <2> DEFINE left == list'
             T == LiveSet'
  <2>3. left \in Seq(Logins) /\ \A s \in T : \E i \in 1..Len(left) : left[i] = s
    BY <2>1, <2>2
  <2>4. top \in Int
    <3>1. top \in Limits /\ Limits \subseteq Nat
      BY SessionsAssumption DEF TypeOK
    <3> QED BY <3>1
  <2>5. Len(left) <= top /\ Len(left) \in Nat
    BY <2>2
  <2> HIDE DEF left, T
  <2>6. Cardinality(T) \in Nat /\ Cardinality(T) <= Len(left)
    BY <2>3, CoveringList
  <2>7. N!Cardinality(T) <= top
    BY <2>4, <2>5, <2>6, SameCardinality
  <2> QED BY <2>7 DEF T
<1>5. UNCHANGED AcceptedSession
  BY DEF CreateSession, Script, AcceptedSession
<1>6. CASE over /\ Len(list) > 0 /\ Live(o)
  <2>1. 1 \in 1..Len(list) /\ o \in LiveSet /\ Head(pushed) = o /\ o # u
    BY <1>0, <1>1, <1>3, <1>6 DEF LiveSet
  <2>2. LiveSet' = (LiveSet \ {o}) \cup {u}
    BY <1>0, <1>2, <1>6, <2>1 DEF LiveSet, Live
  <2>3. ASSUME NEW t \in LiveSet \ {o} PROVE N!Older(o, t)
    <3>1. PICK j \in 1..Len(list) : list[j] = t
      BY LivePlaces
    <3>2. 1 < j
      BY <1>0, <3>1
    <3> QED BY <2>1, <3>1, <3>2, PlacesOrdered
  <2>4. \A i \in 1..Len(list) : list[i] \in LiveSet
    <3> SUFFICES ASSUME NEW i \in 1..Len(list) PROVE list[i] \in LiveSet
      OBVIOUS
    <3>1. /\ Lost \in Nat /\ Lost + 1 \in 1..Len(made) /\ Lost + i \in 1..Len(made)
          /\ key[o] = due[made[Lost + 1]] /\ key[list[i]] = due[made[Lost + i]]
      BY <2>1, LivePlaces
    <3>2. Lost + 1 <= Lost + i
      BY <1>0, <3>1
    <3>3. key[o] <= key[list[i]]
      BY <3>1, <3>2 DEF OrderInv
    <3> QED BY <1>0, <1>6, <2>1, <3>3 DEF LiveSet, Live
  <2>5. Cardinality(LiveSet) = Len(list)
    <3> HIDE DEF o
    <3>1. /\ \A i, j \in 1..Len(list) : list[i] = list[j] => i = j
          /\ \A t \in LiveSet : \E i \in 1..Len(list) : list[i] = t
      BY LivePlaces
    <3> QED BY <1>0, <2>4, <3>1, DistinctMembers
  <2>6. N!Cardinality(LiveSet) >= limit
    <3>1. Cardinality(LiveSet) >= limit
      BY <1>0, <1>6, <2>5
    <3> QED BY <3>1, SameCardinality
  <2>7. \E p \in LiveSet : /\ N!Oldest({p})
                          /\ N!Cardinality(LiveSet) >= limit
                          /\ LiveSet' = (LiveSet \ {p}) \cup {u}
    <3>1. N!Oldest({o})
      BY <2>1, <2>3 DEF N!Oldest, LiveSet
    <3> QED BY <2>1, <2>2, <2>6, <3>1
  <2> QED BY <1>2, <1>3, <1>4, <1>5, <2>7 DEF N!Open, LiveSet
<1>7. CASE ~(over /\ Len(list) > 0 /\ Live(o))
  <2>1. LiveSet' = LiveSet \cup {u}
    <3>1. over => Head(pushed) = o /\ o # u /\ o \in Logins /\ ~Live(o)
      BY <1>0, <1>1, <1>3, <1>7
    <3> QED BY <1>0, <1>2, <3>1 DEF LiveSet, Live
  <2> QED BY <1>2, <1>3, <1>4, <1>5, <2>1 DEF N!Open, LiveSet
<1> QED BY <1>6, <1>7

LEMMA NewestRefined ==
    TypeOK /\ ListInv /\ NewestInv /\ OrderInv /\ TypeOK' /\ ListInv' /\ [Next]_vars
        => [N!Next]_(N!vars)
<1> SUFFICES ASSUME TypeOK, ListInv, NewestInv, OrderInv, TypeOK', ListInv', [Next]_vars
             PROVE  [N!Next]_(N!vars)
  OBVIOUS
<1>1. ASSUME NEW s \in Logins, CreateSession(s) PROVE N!Next
  BY <1>1, LoginOpens DEF N!Next
<1>2. ASSUME NEW s \in Logins, Sign(s) \/ Answer(s) \/ LoginFails(s) \/ Decode(s) \/ Admit(s)
      PROVE  UNCHANGED N!vars
  <2>1. UNCHANGED <<made, key, limit, top>>
    BY <1>2 DEF Sign, Answer, LoginFails, Decode, Admit
  <2>2. AcceptedSession' = AcceptedSession
    BY <1>2 DEF Sign, Answer, LoginFails, Decode, Admit, AcceptedSession
  <2> QED BY <2>1, <2>2 DEF N!vars, Live
<1>3. ASSUME NEW s \in Logins, FindSession(s) PROVE N!Next
  <2>1. /\ AcceptedSession = {} /\ AcceptedSession' = {s} /\ s \in LiveSet
        /\ UNCHANGED <<made, key, limit, top>>
    BY <1>3 DEF FindSession, AcceptedSession, LiveSet
  <2>2. N!Accept(s)
    BY <2>1 DEF N!Accept, LiveSet, Live
  <2> QED BY <2>2 DEF N!Next
<1>4. ASSUME NEW s \in Logins, EndRequest(s) PROVE N!Next
  <2>1. AcceptedSession' = {} /\ UNCHANGED <<made, key, limit, top>>
    BY <1>4 DEF EndRequest, AcceptedSession
  <2>2. N!End
    BY <2>1 DEF N!End, Live
  <2> QED BY <2>2 DEF N!Next
<1>5. ASSUME NEW l \in Limits, Restart(l) PROVE N!Next
  <2>1. AcceptedSession' = {} /\ UNCHANGED <<made, key>>
    BY <1>5 DEF Restart, AcceptedSession
  <2>2. limit' = l /\ top' = IF l > top THEN l ELSE top
    BY <1>5 DEF Restart
  <2>3. N!Relimit(l)
    BY <2>1, <2>2 DEF N!Relimit, Live
  <2> QED BY <2>3 DEF N!Next
<1>6. CASE Tick
  BY <1>6, TickCloses DEF N!Next
<1>7. CASE UNCHANGED vars
  BY <1>7 DEF vars, N!vars, Live, AcceptedSession
<1> QED BY <1>1, <1>2, <1>3, <1>4, <1>5, <1>6, <1>7 DEF Next

\* What runs under the script, the keys and the check of the middleware is what
\* NewestSessions describes: a login closes the oldest open session, and only
\* when as many are open as the limit; time closes the oldest; nobody is let
\* through with a session that is not open at the check (session.rs:21-33,
\* auth.rs:57-72).
THEOREM ImplementsNewest == Spec => ImplementsNewestSessions
<1>1. Init => N!Init
  <2> SUFFICES ASSUME Init PROVE N!Init
    OBVIOUS
  <2>1. AcceptedSession = {}
    BY DEF Init, AcceptedSession
  <2> QED BY <2>1 DEF Init, N!Init, Live
<1>2. TypeOK /\ ListInv /\ NewestInv /\ OrderInv /\ [Next]_vars => TypeOK' /\ ListInv'
  BY TypeStep, ListStep
<1> QED BY <1>1, <1>2, NewestRefined, TypeCorrect, ListInvariant, NewestInvariant, OrderInvariant,
           PTL DEF Spec, ImplementsNewestSessions, N!Spec

=============================================================================
