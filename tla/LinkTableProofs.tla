--------------------------- MODULE LinkTableProofs ---------------------------
(***************************************************************************)
(* Proofs about LinkTable: the encoding of ids, for every alphabet, and    *)
(* the creates and deletes, for any number of them, of candidates and of   *)
(* links.  The library's induction theorems take an operator, so that what *)
(* is proved by induction here is proved by the least counterexample.      *)
(***************************************************************************)
EXTENDS LinkTable, SequenceTheorems, WellFoundedInduction, TLAPS

-----------------------------------------------------------------------------
(* encode_base62                                                           *)

\* A set of numbers has a least one: the induction principle used here.
LEMMA LeastNatural ==
    ASSUME NEW T, T \subseteq Nat, T # {}
    PROVE  \E x \in T : \A y \in T : x <= y
<1> DEFINE R == OpToRel(<, Nat)
<1>1. IsWellFoundedOn(R, Nat)
  BY NatLessThanWellFounded
<1>2. \A x, y \in Nat : <<y, x>> \in R <=> y < x
  BY DEF OpToRel
<1> HIDE DEF R
<1>3. PICK x \in T : \A y \in T : ~ (<<y, x>> \in R)
  BY <1>1, WFMin
<1>4. \A y \in T : ~ (y < x)
  BY <1>2, <1>3
<1> QED BY <1>4

LEMMA DivMod ==
    ASSUME NEW n \in Nat
    PROVE  /\ Base \in Nat /\ Base > 2
           /\ n % Base \in 0..(Base - 1)
           /\ n \div Base \in Nat
           /\ n = Base * (n \div Base) + (n % Base)
           /\ n >= Base => n \div Base < n
<1>1. Base \in Nat /\ Base > 2
  BY LinkTableAssumption DEF Base
<1> HIDE DEF Base
<1>2. n % Base \in 0..(Base - 1)
  BY <1>1
<1>3. n \div Base \in Nat
  BY <1>1
<1>4. n = Base * (n \div Base) + (n % Base)
  BY <1>1
<1>5. \A q \in Nat, b \in Nat : q > 0 /\ b > 2 => b * q > q
  OBVIOUS
<1>6. ASSUME NEW q \in Nat, NEW r \in Nat, n = Base * q + r, n >= Base PROVE q < n
  BY <1>1, <1>5, <1>6
<1>7. n >= Base => n \div Base < n
  <2> DEFINE q == n \div Base
             r == n % Base
  <2>1. q \in Nat /\ r \in Nat /\ n = Base * q + r
    BY <1>1, <1>2, <1>3, <1>4
  <2> HIDE DEF q, r
  <2>2. n >= Base => q < n
    BY <2>1, <1>6
  <2> QED BY <2>2 DEF q
<1> QED BY <1>1, <1>2, <1>3, <1>4, <1>7

Digit == 0..(Base - 1)
Words == Seq(Digit) \ {<<>>}
EncodeStep(f, n) == IF n < Base THEN <<n>> ELSE Append(f[n \div Base], n % Base)
Approx(f, n) == \A m \in 0..n : f[m] \in Words /\ f[m] = EncodeStep(f, m)

LEMMA EncodeStepCode ==
    ASSUME NEW n \in Nat, NEW f, n >= Base => f[n \div Base] \in Words
    PROVE  EncodeStep(f, n) \in Words
<1>1. CASE n < Base
  <2>1. n \in Digit
    BY <1>1, DivMod DEF Digit
  <2> QED BY <1>1, <2>1 DEF EncodeStep, Words
<1>2. CASE ~(n < Base)
  <2>a. n >= Base
    BY <1>2, DivMod
  <2>b. f[n \div Base] \in Seq(Digit)
    BY <2>a DEF Words
  <2>1. f[n \div Base] \in Seq(Digit) /\ n % Base \in Digit
    BY <2>b, DivMod DEF Digit
  <2>2. Append(f[n \div Base], n % Base) \in Seq(Digit) \ {<<>>}
    <3> DEFINE front == f[n \div Base]
               last == n % Base
    <3>1. front \in Seq(Digit) /\ last \in Digit
      BY <2>1
    <3> HIDE DEF front, last
    <3>2. Append(front, last) \in Seq(Digit) /\ Append(front, last) # <<>>
      BY <3>1, AppendProperties
    <3> QED BY <3>2 DEF front, last
  <2> QED BY <1>2, <2>2 DEF EncodeStep, Words
<1> QED BY <1>1, <1>2

LEMMA SameStep ==
    ASSUME NEW n \in Nat, NEW f, NEW g, n >= Base => f[n \div Base] = g[n \div Base]
    PROVE  EncodeStep(f, n) = EncodeStep(g, n)
<1>1. CASE n < Base
  BY <1>1 DEF EncodeStep
<1>2. CASE ~(n < Base)
  <2>1. n >= Base
    BY <1>2, DivMod
  <2>2. f[n \div Base] = g[n \div Base]
    BY <2>1
  <2> QED BY <1>2, <2>2, Zenon DEF EncodeStep
<1> QED BY <1>1, <1>2

LEMMA Approximations == \A n \in Nat : \E f : Approx(f, n)
<1> DEFINE T == {n \in Nat : ~ \E f : Approx(f, n)}
<1> SUFFICES ASSUME T # {} PROVE FALSE
  OBVIOUS
<1>1. PICK n \in T : \A m \in T : n <= m
  BY LeastNatural
<1>2. n \in Nat /\ ~ \E f : Approx(f, n)
  BY <1>1
<1>3. \E g : \A m \in 0..(n - 1) : g[m] \in Words /\ g[m] = EncodeStep(g, m)
  <2>1. CASE n = 0
    BY <2>1
  <2>2. CASE n > 0
    <3>1. n - 1 \in Nat /\ n - 1 \notin T
      BY <1>1, <2>2
    <3>2. \E g : Approx(g, n - 1)
      BY <3>1
    <3> QED BY <3>2 DEF Approx
  <2> QED BY <1>2, <2>1, <2>2
<1>4. PICK g : \A m \in 0..(n - 1) : g[m] \in Words /\ g[m] = EncodeStep(g, m)
  BY <1>3
<1> DEFINE f == [m \in 0..n |-> IF m = n THEN EncodeStep(g, n) ELSE g[m]]
<1>5. ASSUME NEW m \in 0..n PROVE f[m] \in Words /\ f[m] = EncodeStep(f, m)
  <2>1. m \in Nat /\ (m >= Base => m \div Base \in 0..(n - 1))
    <3>1. m \in Nat
      BY <1>2
    <3>2. m >= Base => m \div Base \in Nat /\ m \div Base < m
      BY <3>1, DivMod
    <3> QED BY <1>2, <3>1, <3>2
  <2>2. m >= Base => f[m \div Base] = g[m \div Base]
    BY <1>2, <2>1
  <2>3. EncodeStep(f, m) = EncodeStep(g, m)
    <3> HIDE DEF f
    <3> QED BY <2>1, <2>2, SameStep
  <2>4. EncodeStep(g, m) \in Words
    BY <1>4, <2>1, EncodeStepCode
  <2>5. f[m] = EncodeStep(g, m)
    <3>1. CASE m = n
      BY <3>1
    <3>2. CASE m # n
      BY <1>2, <1>4, <3>2
    <3> QED BY <3>1, <3>2
  <2> QED BY <2>3, <2>4, <2>5
<1>6. Approx(f, n)
  BY <1>5 DEF Approx
<1> QED BY <1>2, <1>6

LEMMA Agreement ==
    ASSUME NEW f, NEW g, NEW n \in Nat, Approx(f, n), NEW k \in Nat, Approx(g, k)
    PROVE  \A m \in Nat : m <= n /\ m <= k => f[m] = g[m]
<1> DEFINE T == {m \in Nat : m <= n /\ m <= k /\ f[m] # g[m]}
<1> SUFFICES ASSUME T # {} PROVE FALSE
  OBVIOUS
<1>1. PICK m \in T : \A l \in T : m <= l
  BY LeastNatural
<1>2. m \in Nat /\ m <= n /\ m <= k /\ f[m] # g[m]
  BY <1>1
<1>3. f[m] = EncodeStep(f, m) /\ g[m] = EncodeStep(g, m)
  BY <1>2 DEF Approx
<1>4. m >= Base => f[m \div Base] = g[m \div Base]
  <2> SUFFICES ASSUME m >= Base PROVE f[m \div Base] = g[m \div Base]
    OBVIOUS
  <2>1. m \div Base \in Nat /\ m \div Base < m
    BY <1>2, DivMod
  <2>2. m \div Base \notin T
    BY <1>1, <1>2, <2>1
  <2> QED BY <1>2, <2>1, <2>2
<1>5. EncodeStep(f, m) = EncodeStep(g, m)
  BY <1>2, <1>4, SameStep
<1> QED BY <1>2, <1>3, <1>5

LEMMA EncodeUnfolds == \A n \in Nat : Encode[n] = EncodeStep(Encode, n) /\ Encode[n] \in Words
<1> DEFINE A(n) == CHOOSE f : Approx(f, n)
           F == [n \in Nat |-> A(n)[n]]
<1>1. \A n \in Nat : Approx(A(n), n)
  BY Approximations
<1> HIDE DEF A
<1>2. ASSUME NEW n \in Nat PROVE F[n] = EncodeStep(F, n) /\ F[n] \in Words
  <2>1. A(n)[n] = EncodeStep(A(n), n) /\ A(n)[n] \in Words
    BY <1>1 DEF Approx
  <2>2. n >= Base => A(n)[n \div Base] = F[n \div Base]
    <3> SUFFICES ASSUME n >= Base PROVE A(n)[n \div Base] = A(n \div Base)[n \div Base]
      BY DivMod
    <3>1. n \div Base \in Nat /\ n \div Base < n
      BY DivMod
    <3> QED BY <1>1, <3>1, Agreement
  <2>3. F[n] = A(n)[n]
    OBVIOUS
  <2> HIDE DEF F
  <2>4. EncodeStep(A(n), n) = EncodeStep(F, n)
    BY <2>2, SameStep
  <2> QED BY <2>1, <2>3, <2>4
<1>3. F = [n \in Nat |-> IF n < Base THEN <<n>> ELSE Append(F[n \div Base], n % Base)]
  <2> DEFINE G == [n \in Nat |-> IF n < Base THEN <<n>> ELSE Append(F[n \div Base], n % Base)]
  <2>1. \A n \in Nat : F[n] = G[n]
    BY <1>2 DEF EncodeStep
  <2> QED BY <2>1
<1> HIDE DEF F
<1>4. Encode = [n \in Nat |-> IF n < Base THEN <<n>> ELSE Append(Encode[n \div Base], n % Base)]
  BY <1>3 DEF Encode
<1>5. \A n \in Nat : Encode[n] = EncodeStep(Encode, n)
  BY <1>4 DEF EncodeStep
<1>6. \A n \in Nat : Encode[n] = F[n]
  <2> DEFINE T == {n \in Nat : Encode[n] # F[n]}
  <2> SUFFICES ASSUME T # {} PROVE FALSE
    OBVIOUS
  <2>1. PICK n \in T : \A m \in T : n <= m
    BY LeastNatural
  <2>2. n \in Nat /\ Encode[n] # F[n]
    BY <2>1
  <2>3. ASSUME n >= Base PROVE Encode[n \div Base] = F[n \div Base]
    <3>1. n \div Base \in Nat /\ n \div Base < n
      BY <2>2, <2>3, DivMod
    <3>2. n \div Base \notin T
      BY <2>1, <2>2, <3>1
    <3> QED BY <3>1, <3>2
  <2>4. EncodeStep(Encode, n) = EncodeStep(F, n)
    BY <2>2, <2>3, SameStep
  <2> QED BY <1>2, <1>5, <2>2, <2>4
<1> QED BY <1>2, <1>5, <1>6

LEMMA ShortCode == ASSUME NEW n \in Nat, n < Base PROVE Encode[n] = <<n>>
<1>1. Encode[n] = EncodeStep(Encode, n)
  BY EncodeUnfolds
<1> QED BY <1>1 DEF EncodeStep

LEMMA LongCode ==
    ASSUME NEW n \in Nat, ~(n < Base)
    PROVE  \E q \in Nat, r \in Digit :
              /\ n = Base * q + r /\ q < n
              /\ Encode[n] = Append(Encode[q], r)
              /\ Encode[q] \in Seq(Digit) /\ Encode[q] # <<>>
<1> DEFINE q == n \div Base
           r == n % Base
<1>1. n >= Base
  BY DivMod
<1>2. q \in Nat /\ r \in Digit /\ n = Base * q + r /\ q < n
  BY <1>1, DivMod DEF Digit
<1>3. Encode[n] = Append(Encode[q], r)
  <2>1. Encode[n] = EncodeStep(Encode, n)
    BY EncodeUnfolds
  <2> QED BY <2>1, Zenon DEF EncodeStep
<1> HIDE DEF q
<1>4. Encode[q] \in Seq(Digit) /\ Encode[q] # <<>>
  BY <1>2, EncodeUnfolds DEF Words
<1> HIDE DEF r
<1> QED BY <1>2, <1>3, <1>4

\* encode_base62 gives different ids different codes.
THEOREM EncodingIsInjective == \A m, n \in Nat : Encode[m] = Encode[n] => m = n
<1> DEFINE T == {n \in Nat : \E m \in Nat : m # n /\ Encode[m] = Encode[n]}
<1> SUFFICES ASSUME T # {} PROVE FALSE
  OBVIOUS
<1>1. PICK n \in T : \A k \in T : n <= k
  BY LeastNatural
<1>2. PICK m \in Nat : m # n /\ Encode[m] = Encode[n]
  BY <1>1
<1>3. n \in Nat /\ m >= n /\ m \in Nat
  <2>1. m \in T
    BY <1>1, <1>2
  <2> QED BY <1>1, <2>1
<1>4. CASE m < Base
  <2>1. n < Base
    BY <1>3, <1>4, DivMod
  <2>2. Encode[m] = <<m>> /\ Encode[n] = <<n>>
    BY <1>3, <1>4, <2>1, ShortCode
  <2>3. <<m>>[1] = m /\ <<n>>[1] = n
    OBVIOUS
  <2> QED BY <1>2, <2>2, <2>3, Zenon
<1>5. CASE ~(m < Base)
  <2>1. PICK q \in Nat, r \in Digit :
            /\ m = Base * q + r /\ q < m
            /\ Encode[m] = Append(Encode[q], r)
            /\ Encode[q] \in Seq(Digit) /\ Encode[q] # <<>>
    BY <1>3, <1>5, LongCode
  <2>2. CASE n < Base
    <3>1. Encode[n] = <<n>>
      BY <1>3, <2>2, ShortCode
    <3>2. Len(Encode[m]) = Len(Encode[q]) + 1
      BY <2>1, AppendProperties
    <3>3. Len(Encode[q]) \in Nat \ {0}
      BY <2>1, EmptySeq
    <3>4. Len(<<n>>) = 1
      OBVIOUS
    <3> QED BY <1>2, <3>1, <3>2, <3>3, <3>4
  <2>3. CASE ~(n < Base)
    <3>1. PICK p \in Nat, d \in Digit :
              /\ n = Base * p + d /\ p < n
              /\ Encode[n] = Append(Encode[p], d)
              /\ Encode[p] \in Seq(Digit) /\ Encode[p] # <<>>
      BY <1>3, <2>3, LongCode
    <3>2. Encode[q] = Encode[p] /\ r = d
      <4>1. Append(Encode[q], r) = Append(Encode[p], d)
        BY <1>2, <2>1, <3>1
      <4> DEFINE a == Encode[q]
                 b == Encode[p]
      <4>2. a \in Seq(Digit) /\ b \in Seq(Digit) /\ Append(a, r) = Append(b, d)
        BY <2>1, <3>1, <4>1
      <4> HIDE DEF a, b
      <4>3. a = b /\ r = d
        BY <4>2, AppendInjective
      <4> QED BY <4>3 DEF a, b
    <3>3. q # p
      BY <1>2, <2>1, <3>1, <3>2
    <3>4. p \in T
      BY <3>2, <3>3
    <3> QED BY <1>1, <1>3, <3>1, <3>4
  <2> QED BY <2>2, <2>3
<1> QED BY <1>4, <1>5

-----------------------------------------------------------------------------
(* Types                                                                   *)

\* A create that is looking has a row and a candidate left.
TypeInv ==
    /\ TypeOK
    /\ \A r \in Creators :
          /\ at[r] = "inserted" => tried[r] < Tries
          /\ at[r] # "idle" => row[r] # 0

LEMMA CandidateWord ==
    ASSUME TypeOK, NEW r \in Creators
    PROVE  Candidate(r) \in Words
<1>1. want[r] \in Customs \cup {Null} /\ row[r] \in Nat /\ tried[r] \in Nat
  BY LinkTableAssumption DEF TypeOK
<1>2. Encode[row[r] + tried[r]] \in Words
  BY <1>1, EncodeUnfolds
<1>3. Customs \subseteq Words
  BY LinkTableAssumption DEF Words, Digit, Base
<1> QED BY <1>1, <1>2, <1>3 DEF Candidate

LEMMA TypeInit == Init => TypeInv
<1> SUFFICES ASSUME Init PROVE TypeInv
  OBVIOUS
<1>1. Null \in Seq(0..(Base - 1))
  BY EmptySeq DEF Null
<1>2. /\ nextId \in 1..(MaxId + 1) /\ fails \in 0..MaxFails
      /\ tried \in [Creators -> 0..Tries] /\ row \in [Creators -> 0..(nextId - 1)]
  BY LinkTableAssumption DEF Init
<1> QED BY <1>1, <1>2 DEF Init, TypeInv, TypeOK

LEMMA CreateEndsType ==
    ASSUME TypeInv, NEW r \in Creators, CreateEnds(r), nextId' = nextId
    PROVE  /\ at' \in [Creators -> {"idle", "inserted", "coded", "no_code"}]
           /\ row' \in [Creators -> 0..(nextId' - 1)]
           /\ want' \in [Creators -> Customs \cup {Null}]
           /\ tried' \in [Creators -> 0..Tries]
           /\ \A s \in Creators :
                 /\ at'[s] = "inserted" => tried'[s] < Tries
                 /\ at'[s] # "idle" => row'[s] # 0
<1>1. 0 \in 0..(nextId - 1) /\ 0 \in 0..Tries
  BY LinkTableAssumption DEF TypeInv, TypeOK
<1> QED BY <1>1 DEF CreateEnds, TypeInv, TypeOK

LEMMA CreateType ==
    ASSUME TypeInv, NEW r \in Creators, CreateStep(r) \/ CreateFails(r)
    PROVE  TypeInv'
<1> USE DEF TypeInv, TypeOK, creating, deleting
<1>1. CASE UpdateShortCode(r)
  <2>1. Candidate(r) \in Seq(0..(Base - 1))
    BY CandidateWord DEF Words, Digit
  <2> QED BY <1>1, <2>1 DEF UpdateShortCode
<1>2. CASE NextCandidate(r)
  <2>1. tried[r] < Tries
    BY <1>2 DEF NextCandidate
  <2>2. tried' \in [Creators -> 0..Tries]
    BY <1>2, <2>1, LinkTableAssumption DEF NextCandidate
  <2>3. \A s \in Creators : at'[s] = "inserted" => tried'[s] < Tries
    BY <1>2 DEF NextCandidate
  <2> QED BY <1>2, <2>2, <2>3 DEF NextCandidate
<1>3. CASE GiveUp(r) \/ CustomTaken(r) \/ CreateTimesOut(r)
  <2>1. CreateEnds(r) /\ UNCHANGED <<nextId, links, code, deleting, logs, fails>>
    BY <1>3 DEF GiveUp, CustomTaken, CreateTimesOut
  <2> QED BY <2>1, CreateEndsType
<1>4. CASE Commit(r)
  <2>1. CreateEnds(r) /\ UNCHANGED <<nextId, code, deleting, logs, fails>>
    BY <1>4 DEF Commit
  <2>2. links' \subseteq 1..(nextId - 1)
    <3>1. nextId \in Int /\ row[r] \in 0..(nextId - 1) /\ row[r] # 0
      BY <1>4 DEF Commit
    <3>2. row[r] \in 1..(nextId - 1)
      BY <3>1
    <3>3. links' = links \cup {row[r]} /\ links \subseteq 1..(nextId - 1)
      BY <1>4 DEF Commit
    <3> QED BY <3>2, <3>3
  <2> QED BY <2>1, <2>2, CreateEndsType
<1>5. CASE CreateFails(r)
  <2>1. CreateEnds(r) /\ UNCHANGED <<nextId, links, code, deleting, logs>>
    BY <1>5 DEF CreateFails
  <2>2. fails' \in 0..MaxFails
    BY <1>5, LinkTableAssumption DEF CreateFails
  <2> QED BY <2>1, <2>2, CreateEndsType
<1> QED BY <1>1, <1>2, <1>3, <1>4, <1>5 DEF CreateStep

LEMMA InsertType ==
    ASSUME TypeInv, NEW r \in Creators, NEW c \in Customs \cup {Null}, InsertLongUrl(r, c)
    PROVE  TypeInv'
<1>1. nextId' \in 1..(MaxId + 1) /\ nextId' = nextId + 1 /\ nextId \in Nat
  BY LinkTableAssumption DEF InsertLongUrl, TypeInv, TypeOK
<1>2. 1..(nextId - 1) \subseteq 1..(nextId' - 1) /\ 0..(nextId - 1) \subseteq 0..(nextId' - 1)
  BY <1>1
<1>3. row' \in [Creators -> 0..(nextId' - 1)] /\ row'[r] # 0
  BY <1>1, <1>2 DEF InsertLongUrl, TypeInv, TypeOK
<1>4. tried' \in [Creators -> 0..Tries] /\ tried'[r] < Tries
  BY LinkTableAssumption DEF InsertLongUrl, TypeInv, TypeOK
<1>5. \A s \in Creators : /\ at'[s] = "inserted" => tried'[s] < Tries
                          /\ at'[s] # "idle" => row'[s] # 0
  BY <1>3, <1>4 DEF InsertLongUrl, TypeInv, TypeOK
<1>6. /\ ids' \in [Deleters -> SUBSET (1..(nextId' - 1))]
      /\ hit' \in [Deleters -> SUBSET (1..(nextId' - 1))]
      /\ links' \subseteq 1..(nextId' - 1) /\ logs' \subseteq 1..(nextId' - 1)
  BY <1>2 DEF InsertLongUrl, deleting, TypeInv, TypeOK
<1> QED BY <1>1, <1>3, <1>4, <1>5, <1>6 DEF InsertLongUrl, deleting, TypeInv, TypeOK

LEMMA DeleteEndsType ==
    ASSUME TypeInv, NEW d \in Deleters, DeleteEnds(d), nextId' = nextId
    PROVE  /\ del' \in [Deleters -> {"idle", "read", "deleted"}]
           /\ ids' \in [Deleters -> SUBSET (1..(nextId' - 1))]
           /\ codes' \in [Deleters -> SUBSET Seq(0..(Base - 1))]
           /\ hit' \in [Deleters -> SUBSET (1..(nextId' - 1))]
BY DEF DeleteEnds, TypeInv, TypeOK

LEMMA DeleteType ==
    ASSUME TypeInv, NEW d \in Deleters, DeleteStep(d) \/ DeleteFails(d)
    PROVE  TypeInv'
<1> USE DEF TypeInv, TypeOK, creating, deleting
<1>1. CASE DeleteRows(d)
  <2>1. ids[d] \cap links \subseteq 1..(nextId - 1)
    OBVIOUS
  <2> QED BY <1>1, <2>1 DEF DeleteRows
<1>2. CASE CommitDelete(d)
  <2>1. DeleteEnds(d) /\ UNCHANGED <<nextId, code, creating, fails>>
    BY <1>2 DEF CommitDelete
  <2>2. links' \subseteq links /\ logs' \subseteq logs
    BY <1>2 DEF CommitDelete
  <2> QED BY <2>1, <2>2, DeleteEndsType
<1>3. CASE DeleteTimesOut(d)
  <2>1. DeleteEnds(d) /\ UNCHANGED <<nextId, links, code, creating, logs, fails>>
    BY <1>3 DEF DeleteTimesOut
  <2> QED BY <2>1, DeleteEndsType
<1>4. CASE DeleteFails(d)
  <2>1. DeleteEnds(d) /\ UNCHANGED <<nextId, links, code, creating, logs>>
    BY <1>4 DEF DeleteFails
  <2>2. fails' \in 0..MaxFails
    BY <1>4, LinkTableAssumption DEF DeleteFails
  <2> QED BY <2>1, <2>2, DeleteEndsType
<1> QED BY <1>1, <1>2, <1>3, <1>4 DEF DeleteStep

LEMMA ReadType ==
    ASSUME TypeInv, NEW d \in Deleters, NEW named \in SUBSET (1..(nextId - 1)),
           ReadCodes(d, named)
    PROVE  TypeInv'
<1>1. {code[i] : i \in named \cap links} \subseteq Seq(0..(Base - 1))
  <2>1. \A i \in links : i \in 1..MaxId
    BY LinkTableAssumption DEF TypeInv, TypeOK
  <2> QED BY <2>1 DEF TypeInv, TypeOK
<1> QED BY <1>1 DEF ReadCodes, creating, TypeInv, TypeOK

LEMMA TypeStep == TypeInv /\ [Next]_vars => TypeInv'
<1> SUFFICES ASSUME TypeInv, [Next]_vars PROVE TypeInv'
  OBVIOUS
<1>1. ASSUME NEW i \in links, Purge(i) \/ Visit(i) PROVE TypeInv'
  BY <1>1 DEF Purge, Visit, creating, deleting, TypeInv, TypeOK
<1>2. CASE UNCHANGED vars
  BY <1>2 DEF vars, creating, deleting, TypeInv, TypeOK
<1> QED BY <1>1, <1>2, InsertType, CreateType, ReadType, DeleteType DEF Next

LEMMA TypeInvariant == Spec => []TypeInv
<1>1. QED BY TypeInit, TypeStep, PTL DEF Spec

\* Rows, codes and requests keep their types: a code is never longer than its
\* digits say, and a create never tries more candidates than it has.
THEOREM TypeCorrect == Spec => []TypeOK
<1>1. TypeInv => TypeOK
  BY DEF TypeInv
<1> QED BY <1>1, TypeInvariant, PTL

-----------------------------------------------------------------------------
(* The unique key: rows under way, the codes they have been given, and the *)
(* committed links.                                                        *)

\* Every create under way has a row of its own.
RowsInv ==
    \A r \in Creators : at[r] # "idle" =>
        /\ row[r] \notin links
        /\ \A s \in Creators \ {r} : at[s] # "idle" => row[s] # row[r]

\* A code that was set is nobody else's, committed or not.
KeyInv ==
    /\ \A i \in links : code[i] # Null
    /\ \A i, j \in links : Same(code[i], code[j]) => i = j
    /\ \A r \in Creators : at[r] = "coded" =>
          /\ code[row[r]] # Null
          /\ \A i \in links : ~Same(code[i], code[row[r]])
          /\ \A s \in Creators \ {r} : at[s] = "coded" => ~Same(code[row[s]], code[row[r]])

\* A delete holds the rows it has deleted.
HitInv ==
    \A d \in Deleters :
        /\ hit[d] \subseteq links \cap ids[d]
        /\ del[d] # "deleted" => hit[d] = {}
        /\ \A e \in Deleters \ {d} : hit[d] \cap hit[e] = {}

TableInv == RowsInv /\ KeyInv /\ HitInv

LEMMA TableInit == Init => TableInv
BY DEF Init, TableInv, RowsInv, KeyInv, HitInv

LEMMA SameSymmetric == \A a, b : Same(a, b) => Same(b, a)
BY DEF Same

\* A create that ends leaves the others as they are.
LEMMA CreateEndsTable ==
    ASSUME TypeInv, TableInv, NEW r \in Creators, CreateEnds(r),
           UNCHANGED <<links, code, deleting>>
    PROVE  TableInv'
<1>1. /\ \A s \in Creators : at'[s] # "idle" => s # r /\ at'[s] = at[s] /\ row'[s] = row[s]
      /\ UNCHANGED <<links, code, del, ids, hit>>
  BY DEF CreateEnds, deleting, TypeInv, TypeOK
<1>2. RowsInv'
  BY <1>1 DEF TableInv, RowsInv
<1>3. KeyInv'
  BY <1>1 DEF TableInv, KeyInv
<1>4. HitInv'
  BY <1>1 DEF TableInv, HitInv
<1> QED BY <1>2, <1>3, <1>4 DEF TableInv

LEMMA UpdateTable ==
    ASSUME TypeInv, TableInv, NEW r \in Creators, UpdateShortCode(r)
    PROVE  TableInv'
<1> DEFINE c == Candidate(r)
<1>1. c # Null
  BY CandidateWord DEF TypeInv, Words, Null
<1>2. /\ at[r] = "inserted" /\ at' = [at EXCEPT ![r] = "coded"]
      /\ code' = [code EXCEPT ![row[r]] = c]
      /\ UNCHANGED <<links, row, del, ids, hit>>
  BY DEF UpdateShortCode, deleting
<1>3. /\ \A i \in links : ~Same(code[i], c)
      /\ \A s \in Creators \ {r} : at[s] = "coded" => ~Same(code[row[s]], c)
  BY DEF UpdateShortCode, Collides, Waits
<1> HIDE DEF c
<1>4. row[r] \in 1..MaxId
  BY <1>2, LinkTableAssumption DEF TypeInv, TypeOK
<1>5. /\ code'[row[r]] = c
      /\ \A i \in 1..MaxId : i # row[r] => code'[i] = code[i]
  BY <1>2, <1>4 DEF TypeInv, TypeOK
<1>6. /\ \A i \in links : i \in 1..MaxId /\ code'[i] = code[i]
      /\ \A s \in Creators \ {r} : at[s] # "idle" => code'[row[s]] = code[row[s]]
  <2>1. \A i \in links : i \in 1..MaxId /\ i # row[r]
    BY <1>2, LinkTableAssumption DEF TypeInv, TypeOK, TableInv, RowsInv
  <2>2. \A s \in Creators \ {r} : at[s] # "idle" => row[s] \in 1..MaxId /\ row[s] # row[r]
    BY <1>2, LinkTableAssumption DEF TypeInv, TypeOK, TableInv, RowsInv
  <2> QED BY <1>5, <2>1, <2>2
<1>7. \A s \in Creators : at'[s] = IF s = r THEN "coded" ELSE at[s]
  BY <1>2 DEF TypeInv, TypeOK
<1>8. RowsInv'
  BY <1>2, <1>7 DEF TableInv, RowsInv
<1>9. KeyInv'
  <2>1. /\ \A i \in links' : code'[i] # Null
        /\ \A i, j \in links' : Same(code'[i], code'[j]) => i = j
    BY <1>2, <1>6 DEF TableInv, KeyInv
  <2>2. ASSUME NEW s \in Creators, at'[s] = "coded"
        PROVE  /\ code'[row'[s]] # Null
               /\ \A i \in links' : ~Same(code'[i], code'[row'[s]])
               /\ \A t \in Creators \ {s} :
                     at'[t] = "coded" => ~Same(code'[row'[t]], code'[row'[s]])
    <3>1. CASE s = r
      BY <1>1, <1>2, <1>3, <1>5, <1>6, <1>7, <3>1
    <3>2. CASE s # r
      <4>1. at[s] = "coded" /\ code'[row'[s]] = code[row[s]]
        BY <1>2, <1>6, <1>7, <2>2, <3>2
      <4>2. ASSUME NEW t \in Creators \ {s}, at'[t] = "coded"
            PROVE  ~Same(code'[row'[t]], code'[row'[s]])
        <5>1. CASE t = r
          BY <1>2, <1>3, <1>5, <4>1, <3>2, <5>1, SameSymmetric
        <5>2. CASE t # r
          BY <1>2, <1>6, <1>7, <4>1, <4>2, <5>2 DEF TableInv, KeyInv
        <5> QED BY <5>1, <5>2
      <4> QED BY <1>2, <1>6, <4>1, <4>2 DEF TableInv, KeyInv
    <3> QED BY <3>1, <3>2
  <2> QED BY <2>1, <2>2 DEF KeyInv
<1>10. HitInv'
  BY <1>2 DEF TableInv, HitInv
<1> QED BY <1>8, <1>9, <1>10 DEF TableInv

LEMMA CommitTable ==
    ASSUME TypeInv, TableInv, NEW r \in Creators, Commit(r)
    PROVE  TableInv'
<1>1. /\ at[r] = "coded" /\ links' = links \cup {row[r]}
      /\ \A s \in Creators : at'[s] # "idle" => s # r /\ at'[s] = at[s] /\ row'[s] = row[s]
      /\ UNCHANGED <<code, del, ids, hit>>
  BY DEF Commit, CreateEnds, deleting, TypeInv, TypeOK
<1>2. RowsInv'
  BY <1>1 DEF TableInv, RowsInv
<1>3. KeyInv'
  BY <1>1, SameSymmetric DEF TableInv, KeyInv
<1>4. HitInv'
  BY <1>1 DEF TableInv, HitInv
<1> QED BY <1>2, <1>3, <1>4 DEF TableInv

\* Links go, and nothing else of the table changes.
LEMMA LinksGo ==
    ASSUME TypeInv, TableInv, links' \subseteq links, UNCHANGED <<code, creating>>, HitInv'
    PROVE  TableInv'
<1>1. UNCHANGED <<code, at, row>>
  BY DEF creating
<1>2. RowsInv'
  BY <1>1 DEF TableInv, RowsInv
<1>3. KeyInv'
  BY <1>1 DEF TableInv, KeyInv
<1> QED BY <1>2, <1>3 DEF TableInv

LEMMA DeleteTable ==
    ASSUME TypeInv, TableInv, NEW d \in Deleters,
           DeleteStep(d) \/ DeleteFails(d) \/ (\E named : ReadCodes(d, named))
    PROVE  TableInv'
<1>1. CASE DeleteRows(d)
  <2>1. /\ hit' = [hit EXCEPT ![d] = ids[d] \cap links]
        /\ del' = [del EXCEPT ![d] = "deleted"]
        /\ UNCHANGED <<links, code, creating, ids>>
        /\ \A e \in Deleters \ {d} : hit[e] \cap ids[d] = {}
    BY <1>1 DEF DeleteRows, RowsLocked
  <2>2. \A e \in Deleters :
           /\ hit'[e] = IF e = d THEN ids[d] \cap links ELSE hit[e]
           /\ del'[e] = IF e = d THEN "deleted" ELSE del[e]
    BY <2>1 DEF TypeInv, TypeOK
  <2>3. HitInv'
    BY <2>1, <2>2 DEF TableInv, HitInv
  <2> QED BY <2>1, <2>3, LinksGo
<1>2. CASE CommitDelete(d)
  <2>1. /\ links' = links \ hit[d] /\ UNCHANGED <<code, creating>>
        /\ DeleteEnds(d)
    BY <1>2 DEF CommitDelete
  <2>2. \A e \in Deleters :
           /\ hit'[e] = IF e = d THEN {} ELSE hit[e]
           /\ e # d => del'[e] = del[e] /\ ids'[e] = ids[e]
    BY <2>1 DEF DeleteEnds, TypeInv, TypeOK
  <2>3. HitInv'
    BY <2>1, <2>2 DEF TableInv, HitInv
  <2> QED BY <2>1, <2>3, LinksGo
<1>3. CASE DeleteTimesOut(d) \/ DeleteFails(d)
  <2>1. DeleteEnds(d) /\ UNCHANGED <<links, code, creating>>
    BY <1>3 DEF DeleteTimesOut, DeleteFails
  <2>2. \A e \in Deleters :
           /\ hit'[e] = IF e = d THEN {} ELSE hit[e]
           /\ e # d => del'[e] = del[e] /\ ids'[e] = ids[e]
    BY <2>1 DEF DeleteEnds, TypeInv, TypeOK
  <2>3. HitInv'
    BY <2>1, <2>2 DEF TableInv, HitInv
  <2> QED BY <2>1, <2>3, LinksGo
<1>4. ASSUME NEW named, ReadCodes(d, named) PROVE TableInv'
  <2>1. /\ del[d] = "idle" /\ del' = [del EXCEPT ![d] = "read"]
        /\ ids' = [ids EXCEPT ![d] = named]
        /\ UNCHANGED <<links, code, creating, hit>>
    BY <1>4 DEF ReadCodes
  <2>2. \A e \in Deleters : e # d => del'[e] = del[e] /\ ids'[e] = ids[e]
    BY <2>1 DEF TypeInv, TypeOK
  <2>3. HitInv'
    BY <2>1, <2>2 DEF TableInv, HitInv
  <2> QED BY <2>1, <2>3, LinksGo
<1> QED BY <1>1, <1>2, <1>3, <1>4 DEF DeleteStep

LEMMA TableStep == TypeInv /\ TableInv /\ [Next]_vars => TableInv'
<1> SUFFICES ASSUME TypeInv, TableInv, [Next]_vars PROVE TableInv'
  OBVIOUS
<1>1. ASSUME NEW r \in Creators, NEW c \in Customs \cup {Null}, InsertLongUrl(r, c)
      PROVE  TableInv'
  <2>1. /\ \A s \in Creators : s # r => at'[s] = at[s] /\ row'[s] = row[s]
        /\ row'[r] = nextId /\ at'[r] = "inserted"
        /\ UNCHANGED <<links, code, del, ids, hit>>
    BY <1>1 DEF InsertLongUrl, deleting, TypeInv, TypeOK
  <2>2. nextId \notin links /\ \A s \in Creators : row[s] # nextId
    BY DEF TypeInv, TypeOK
  <2>3. RowsInv'
    BY <2>1, <2>2 DEF TableInv, RowsInv
  <2>4. KeyInv'
    BY <2>1 DEF TableInv, KeyInv
  <2>5. HitInv'
    BY <2>1 DEF TableInv, HitInv
  <2> QED BY <2>3, <2>4, <2>5 DEF TableInv
<1>2. ASSUME NEW r \in Creators, NextCandidate(r) PROVE TableInv'
  <2>1. /\ \A s \in Creators : at'[s] # "idle" => at[s] # "idle"
        /\ \A s \in Creators : at'[s] = "coded" => at[s] = "coded"
        /\ UNCHANGED <<links, code, row, del, ids, hit>>
    BY <1>2 DEF NextCandidate, deleting, TypeInv, TypeOK
  <2>2. RowsInv'
    BY <2>1 DEF TableInv, RowsInv
  <2>3. KeyInv'
    BY <2>1 DEF TableInv, KeyInv
  <2>4. HitInv'
    BY <2>1 DEF TableInv, HitInv
  <2> QED BY <2>2, <2>3, <2>4 DEF TableInv
<1>3. ASSUME NEW r \in Creators,
             GiveUp(r) \/ CustomTaken(r) \/ CreateTimesOut(r) \/ CreateFails(r)
      PROVE  TableInv'
  <2>1. CreateEnds(r) /\ UNCHANGED <<links, code, deleting>>
    BY <1>3 DEF GiveUp, CustomTaken, CreateTimesOut, CreateFails
  <2> QED BY <2>1, CreateEndsTable
<1>4. ASSUME NEW i \in links, Purge(i) PROVE TableInv'
  <2>1. /\ links' = links \ {i} /\ \A d \in Deleters : i \notin hit[d]
        /\ UNCHANGED <<code, creating, del, ids, hit>>
    BY <1>4 DEF Purge, deleting
  <2>2. HitInv'
    BY <2>1 DEF TableInv, HitInv
  <2> QED BY <2>1, <2>2, LinksGo
<1>5. ASSUME UNCHANGED <<links, code, creating, deleting>> PROVE TableInv'
  BY <1>5 DEF creating, deleting, TableInv, RowsInv, KeyInv, HitInv
<1>6. ASSUME NEW i \in links, Visit(i) PROVE TableInv'
  BY <1>5, <1>6 DEF Visit
<1>7. CASE UNCHANGED vars
  BY <1>5, <1>7 DEF vars
<1> QED BY <1>1, <1>2, <1>3, <1>4, <1>6, <1>7, UpdateTable, CommitTable, DeleteTable
        DEF Next, CreateStep

LEMMA TableInvariant == Spec => []TableInv
<1>1. QED BY TableInit, TableStep, TypeInvariant, PTL DEF Spec

\* Every committed link has a code that finds it and no other, for any number
\* of creates, candidates and letters.
THEOREM CodesFindTheirLinks == Spec => []CodeFindsLink
<1>1. KeyInv => CodeFindsLink
  BY DEF KeyInv, CodeFindsLink, Same
<1> QED BY <1>1, TableInvariant, PTL DEF TableInv

\* A delete that found its rows removes no visits of another's link.
THEOREM DeletesWipeTheirOwn == Spec => []WipesOwn
<1>1. TypeInv /\ TableInv => WipesOwn
  <2> SUFFICES ASSUME TypeInv, TableInv, NEW d \in Deleters,
                      codes[d] = {code[i] : i \in hit[d]},
                      NEW i \in Wiped(d) \cap links
               PROVE  i \in ids[d]
    BY DEF WipesOwn
  <2>1. PICK j \in hit[d] : Same(code[i], code[j])
    BY DEF Wiped
  <2>2. j \in links /\ j \in ids[d]
    BY DEF TableInv, HitInv
  <2> QED BY <2>1, <2>2 DEF TableInv, KeyInv
<1> QED BY <1>1, TableInvariant, TypeInvariant, PTL
=============================================================================
