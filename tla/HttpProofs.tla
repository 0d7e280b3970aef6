------------------------------ MODULE HttpProofs ------------------------------
(* Proofs about the HTTP transport: letting requests in, for any limit,     *)
(* period, resolution of the clock, and any number of addresses, tokens and *)
(* threads; and event streams, for any number of streams, any size of the   *)
(* queue and any number of notices.                                         *)
EXTENDS HttpAccess, SseStream, TLAPS

LEMMA WholeSeconds ==
  ASSUME NEW d \in Int, NEW s \in Nat \ {0}, NEW p \in Nat
  PROVE  d \div s >= p <=> d >= p * s
<1> DEFINE q == d \div s
<1>1. q \in Int
  OBVIOUS
<1>2. s * q <= d /\ d < s * q + s
  OBVIOUS
<1> HIDE DEF q
<1>3. CASE q >= p
  <2>1. s * q >= p * s
    BY <1>1, <1>2, <1>3
  <2> QED
    BY <1>1, <1>2, <1>3, <2>1 DEF q
<1>4. CASE q <= p - 1
  <2>1. s * q <= s * (p - 1)
    BY <1>1, <1>2, <1>4
  <2>2. s * (p - 1) = p * s - s
    OBVIOUS
  <2> QED
    BY <1>1, <1>2, <1>4, <2>1, <2>2 DEF q
<1> QED
  BY <1>1, <1>3, <1>4

-----------------------------------------------------------------------------
(* The deque of an address is the end of its admissions, and what is no    *)
(* longer in it is a period old.                                           *)
Suffix(k) ==
    /\ Len(buckets[k]) <= Len(admitted[k])
    /\ \A i \in 1..Len(buckets[k]) :
          buckets[k][i] = admitted[k][Len(admitted[k]) - Len(buckets[k]) + i]
    /\ \A i \in 1..Len(admitted[k]) - Len(buckets[k]) :
          now - admitted[k][i] >= Period * Second

Spaced(k) ==
    \A i \in 1 .. Len(admitted[k]) - Limit :
        admitted[k][i + Limit] - admitted[k][i] >= Period * Second

LimiterInv == LimiterTypeOK /\ \A k \in Keys : Suffix(k) /\ Spaced(k)

LEMMA Window ==
  /\ Period \in Nat /\ Second \in Nat \ {0} /\ Period * Second \in Nat
  /\ MaxTime \in Nat /\ Limit \in Nat /\ Limit >= 1
BY ClockAssumption, LimiterAssumption

LEMMA AgedIsOld ==
  ASSUME now \in Times, NEW t \in Times PROVE Aged(t) <=> now - t >= Period * Second
<1>1. now - t \in Int
  BY Window DEF Times
<1> QED
  BY <1>1, Window, WholeSeconds DEF Aged, SecondsSince

LEMMA Element ==
  ASSUME NEW q \in Seq(Times), NEW i \in 1..Len(q) PROVE q[i] \in Times /\ q[i] \in Int
<1>1. q[i] \in Times
  OBVIOUS
<1> QED
  BY <1>1 DEF Times

(* A suffix of a sequence, item by item. *)
LEMMA SuffixFacts ==
  ASSUME NEW q \in Seq(Times), NEW n \in 0..Len(q)
  PROVE  /\ SubSeq(q, n + 1, Len(q)) \in Seq(Times)
         /\ Len(SubSeq(q, n + 1, Len(q))) = Len(q) - n
         /\ \A i \in 1..Len(q) - n : SubSeq(q, n + 1, Len(q))[i] = q[n + i]
<1>1. Len(q) \in Nat /\ n \in Nat /\ n <= Len(q)
  OBVIOUS
<1>2. Len(SubSeq(q, n + 1, Len(q))) = Len(q) - n
  BY <1>1
<1>3. ASSUME NEW i \in 1..Len(q) - n PROVE SubSeq(q, n + 1, Len(q))[i] = q[n + i]
  BY <1>1
<1>4. SubSeq(q, n + 1, Len(q)) \in Seq(Times)
  BY <1>1
<1> QED
  BY <1>2, <1>3, <1>4

(* What the eviction leaves, item by item. *)
LEMMA KeptFacts ==
  ASSUME LimiterInv, NEW k \in Keys, NEW n \in 0..Len(buckets[k]), Evicts(k, n)
  PROVE  /\ Kept(k, n) \in Seq(Times) /\ Len(Kept(k, n)) = Len(buckets[k]) - n
         /\ Len(Kept(k, n)) \in Nat /\ Len(admitted[k]) \in Nat
         /\ Len(Kept(k, n)) <= Len(admitted[k])
         /\ \A i \in 1..Len(Kept(k, n)) :
               Kept(k, n)[i] = admitted[k][Len(admitted[k]) - Len(Kept(k, n)) + i]
         /\ \A i \in 1..Len(admitted[k]) - Len(Kept(k, n)) :
               now - admitted[k][i] >= Period * Second
<1> DEFINE b == buckets[k]
           a == admitted[k]
           c == Kept(k, n)
<1>1. /\ b \in Seq(Times) /\ a \in Seq(Times) /\ now \in Times
      /\ Len(b) \in Nat /\ Len(a) \in Nat /\ n \in Nat /\ n <= Len(b)
  BY DEF LimiterInv, LimiterTypeOK
<1>2. /\ c \in Seq(Times) /\ Len(c) = Len(b) - n
      /\ \A i \in 1..Len(c) : c[i] = b[n + i]
  <2>1. c = SubSeq(b, n + 1, Len(b))
    BY DEF Kept
  <2> HIDE DEF b, c
  <2>2. /\ c \in Seq(Times) /\ Len(c) = Len(b) - n
        /\ \A i \in 1..Len(b) - n : c[i] = b[n + i]
    BY <1>1, <2>1, SuffixFacts
  <2> QED
    BY <2>2
<1>3. /\ Len(b) <= Len(a)
      /\ \A i \in 1..Len(b) : b[i] = a[Len(a) - Len(b) + i]
      /\ \A i \in 1..Len(a) - Len(b) : now - a[i] >= Period * Second
  BY DEF LimiterInv, Suffix
<1>4. \A i \in 1..n : now - b[i] >= Period * Second
  BY <1>1, AgedIsOld DEF Evicts
<1> HIDE DEF b, a, c
<1>5. ASSUME NEW i \in 1..Len(c) PROVE c[i] = a[Len(a) - Len(c) + i]
  <2>1. n + i \in 1..Len(b) /\ Len(a) - Len(b) + (n + i) = Len(a) - Len(c) + i
    BY <1>1, <1>2
  <2> QED
    BY <1>2, <1>3, <2>1
<1>6. ASSUME NEW i \in 1..Len(a) - Len(c) PROVE now - a[i] >= Period * Second
  <2>1. CASE i <= Len(a) - Len(b)
    BY <1>1, <1>2, <1>3, <2>1
  <2>2. CASE i > Len(a) - Len(b)
    <3> DEFINE j == i - (Len(a) - Len(b))
    <3>1. j \in 1..n /\ Len(a) - Len(b) + j = i
      BY <1>1, <1>2, <1>3, <2>2
    <3>2. b[j] = a[i]
      BY <1>1, <1>3, <3>1
    <3> QED
      BY <1>4, <3>1, <3>2
  <2> QED
    BY <1>1, <1>3, <2>1, <2>2
<1>7. Len(c) \in Nat /\ Len(c) <= Len(a)
  BY <1>1, <1>2, <1>3
<1>8. /\ c \in Seq(Times) /\ Len(c) = Len(b) - n /\ Len(c) \in Nat /\ Len(a) \in Nat
      /\ Len(c) <= Len(a)
      /\ \A i \in 1..Len(c) : c[i] = a[Len(a) - Len(c) + i]
      /\ \A i \in 1..Len(a) - Len(c) : now - a[i] >= Period * Second
  BY <1>1, <1>2, <1>5, <1>6, <1>7
<1> QED
  BY <1>8, Zenon DEF b, a, c

-----------------------------------------------------------------------------
LEMMA AppendTimes ==
  ASSUME NEW q \in Seq(Times), NEW t \in Times
  PROVE  /\ Append(q, t) \in Seq(Times) /\ Len(Append(q, t)) = Len(q) + 1
         /\ \A i \in 1..Len(q) : Append(q, t)[i] = q[i]
         /\ Append(q, t)[Len(q) + 1] = t
OBVIOUS

(* An admission: the Limit-th admission before it is no longer kept. *)
LEMMA AdmitKeeps ==
  ASSUME LimiterInv, NEW k \in Keys, Admit(k), UNCHANGED now
  PROVE  LimiterInv'
<1>1. PICK n \in 0..Len(buckets[k]) :
        /\ Evicts(k, n)
        /\ Len(Kept(k, n)) < Limit
        /\ buckets' = [buckets EXCEPT ![k] = Append(Kept(k, n), now)]
        /\ admitted' = [admitted EXCEPT ![k] = Append(@, now)]
  BY DEF Admit
<1> DEFINE c == Kept(k, n)
           a == admitted[k]
<1>2. /\ a \in Seq(Times) /\ now \in Times /\ now \in Int
      /\ buckets \in [Keys -> Seq(Times)] /\ admitted \in [Keys -> Seq(Times)]
      /\ \A j \in Keys : Suffix(j) /\ Spaced(j) /\ Len(buckets[j]) <= Limit
  BY DEF LimiterInv, LimiterTypeOK, Times
<1>3. /\ c \in Seq(Times) /\ Len(c) \in Nat /\ Len(a) \in Nat
      /\ Len(c) <= Len(a) /\ Len(c) < Limit
      /\ \A i \in 1..Len(c) : c[i] = a[Len(a) - Len(c) + i]
      /\ \A i \in 1..Len(a) - Len(c) : now - a[i] >= Period * Second
  BY <1>1, KeptFacts
<1> HIDE DEF c, a
<1>4. /\ buckets'[k] = Append(c, now) /\ admitted'[k] = Append(a, now) /\ now' = now
      /\ Append(c, now) \in Seq(Times) /\ Append(a, now) \in Seq(Times)
  BY <1>1, <1>2, <1>3, AppendTimes DEF c, a
<1>5. /\ Len(Append(c, now)) = Len(c) + 1 /\ Len(Append(a, now)) = Len(a) + 1
      /\ \A i \in 1..Len(c) : Append(c, now)[i] = c[i]
      /\ Append(c, now)[Len(c) + 1] = now
      /\ \A i \in 1..Len(a) : Append(a, now)[i] = a[i]
      /\ Append(a, now)[Len(a) + 1] = now
  BY <1>2, <1>3, AppendTimes
<1>6. LimiterTypeOK'
  <2>1. buckets' \in [Keys -> Seq(Times)] /\ admitted' \in [Keys -> Seq(Times)]
    BY <1>1, <1>2, <1>4 DEF c, a
  <2>2. ASSUME NEW j \in Keys PROVE Len(buckets'[j]) <= Limit
    <3>1. CASE j = k
      BY <1>3, <1>4, <1>5, <3>1, Window
    <3>2. CASE j # k
      BY <1>1, <1>2, <3>2
    <3> QED
      BY <3>1, <3>2
  <2> QED
    BY <1>2, <1>4, <2>1, <2>2 DEF LimiterTypeOK
<1>7. Suffix(k)'
  <2>1. ASSUME NEW i \in 1..Len(c) + 1
        PROVE Append(c, now)[i] = Append(a, now)[Len(a) + 1 - (Len(c) + 1) + i]
    <3>1. CASE i = Len(c) + 1
      <4>1. Len(a) + 1 - (Len(c) + 1) + i = Len(a) + 1
        BY <1>3, <3>1
      <4> QED
        BY <1>5, <3>1, <4>1
    <3>2. CASE i \in 1..Len(c)
      <4>1. /\ Len(a) + 1 - (Len(c) + 1) + i = Len(a) - Len(c) + i
            /\ Len(a) - Len(c) + i \in 1..Len(a)
        BY <1>3, <3>2
      <4> QED
        BY <1>3, <1>5, <3>2, <4>1
    <3>3. i = Len(c) + 1 \/ i \in 1..Len(c)
      <4>1. Len(c) \in Int /\ i \in Int /\ 1 <= i /\ i <= Len(c) + 1
        BY <1>3
      <4> QED
        BY <4>1
    <3> QED
      BY <3>1, <3>2, <3>3, Zenon
  <2>2. ASSUME NEW i \in 1..Len(a) + 1 - (Len(c) + 1)
        PROVE now - Append(a, now)[i] >= Period * Second
    <3>1. i \in 1..Len(a) - Len(c) /\ i \in 1..Len(a)
      BY <1>3
    <3> QED
      BY <1>3, <1>5, <3>1
  <2>3. Len(c) + 1 <= Len(a) + 1
    BY <1>3
  <2>4. Len(buckets'[k]) = Len(c) + 1 /\ Len(admitted'[k]) = Len(a) + 1
    BY <1>4, <1>5, Zenon
  <2>5. Len(buckets'[k]) <= Len(admitted'[k])
    BY <2>3, <2>4, Zenon
  <2>6. ASSUME NEW i \in 1..Len(buckets'[k])
        PROVE buckets'[k][i] = admitted'[k][Len(admitted'[k]) - Len(buckets'[k]) + i]
    <3>1. i \in 1..Len(c) + 1
      BY <2>4
    <3>2. Append(c, now)[i] = Append(a, now)[Len(a) + 1 - (Len(c) + 1) + i]
      BY <2>1, <3>1
    <3>3. buckets'[k][i] = Append(c, now)[i]
      BY <1>4, Zenon
    <3>4. admitted'[k][Len(admitted'[k]) - Len(buckets'[k]) + i]
            = Append(a, now)[Len(a) + 1 - (Len(c) + 1) + i]
      <4>1. Len(admitted'[k]) - Len(buckets'[k]) + i = Len(a) + 1 - (Len(c) + 1) + i
        BY <2>4
      <4>2. admitted'[k] = Append(a, now)
        BY <1>4, Zenon
      <4> QED
        BY <4>1, <4>2, Zenon
    <3> QED
      BY <3>2, <3>3, <3>4, Zenon
  <2>7. ASSUME NEW i \in 1..Len(admitted'[k]) - Len(buckets'[k])
        PROVE now' - admitted'[k][i] >= Period * Second
    <3>1. i \in 1..Len(a) + 1 - (Len(c) + 1)
      BY <2>4
    <3>2. now - Append(a, now)[i] >= Period * Second
      BY <2>2, <3>1
    <3> QED
      BY <1>4, <3>2
  <2> QED
    BY <2>5, <2>6, <2>7, Zenon DEF Suffix
<1>8. Spaced(k)'
  <2>1. SUFFICES ASSUME NEW i \in 1 .. Len(admitted'[k]) - Limit
                 PROVE admitted'[k][i + Limit] - admitted'[k][i] >= Period * Second
    BY DEF Spaced
  <2> i \in 1 .. Len(a) + 1 - Limit
    <3>1. Len(admitted'[k]) = Len(a) + 1
      BY <1>4, <1>5, Zenon
    <3> QED
      BY <1>3, <3>1, Window
  <2> SUFFICES Append(a, now)[i + Limit] - Append(a, now)[i] >= Period * Second
    BY <1>4, Zenon
  <2>2. i \in 1..Len(a) /\ Append(a, now)[i] = a[i]
    BY <1>3, <1>5, Window
  <2>3. CASE i + Limit = Len(a) + 1
    <3>1. i \in 1..Len(a) - Len(c)
      BY <1>3, <2>3, Window
    <3> QED
      BY <1>3, <1>5, <2>2, <2>3, <3>1
  <2>4. CASE i + Limit # Len(a) + 1
    <3>1. i \in 1..Len(a) - Limit /\ i + Limit \in 1..Len(a)
      <4>1. /\ i \in Int /\ Limit \in Int /\ Len(a) \in Int /\ 1 <= i /\ 1 <= Limit
            /\ i <= Len(a) + 1 - Limit
        BY <1>3, Window
      <4> QED
        BY <2>4, <4>1
    <3>2. a[i + Limit] - a[i] >= Period * Second
      BY <1>2, <3>1 DEF Spaced, a
    <3> QED
      BY <1>5, <2>2, <3>1, <3>2
  <2> QED
    BY <2>3, <2>4
<1>9. ASSUME NEW j \in Keys, j # k PROVE (Suffix(j) /\ Spaced(j))'
  <2>1. buckets'[j] = buckets[j] /\ admitted'[j] = admitted[j]
    BY <1>1, <1>2, <1>9
  <2> QED
    BY <1>2, <1>4, <2>1 DEF Suffix, Spaced
<1> QED
  BY <1>6, <1>7, <1>8, <1>9 DEF LimiterInv

(* A refusal evicts and adds nothing. *)
LEMMA RefuseKeeps ==
  ASSUME LimiterInv, NEW k \in Keys, Refuse(k), UNCHANGED now
  PROVE  LimiterInv'
<1>1. PICK n \in 0..Len(buckets[k]) :
        Evicts(k, n) /\ buckets' = [buckets EXCEPT ![k] = Kept(k, n)] /\ admitted' = admitted
  BY DEF Refuse
<1>2. /\ now' = now
      /\ buckets \in [Keys -> Seq(Times)] /\ admitted \in [Keys -> Seq(Times)] /\ now \in Times
      /\ \A j \in Keys : Suffix(j) /\ Spaced(j) /\ Len(buckets[j]) <= Limit
  BY DEF LimiterInv, LimiterTypeOK
<1>3. /\ Kept(k, n) \in Seq(Times) /\ Len(Kept(k, n)) <= Len(admitted[k])
      /\ Len(Kept(k, n)) = Len(buckets[k]) - n
      /\ \A i \in 1..Len(Kept(k, n)) :
            Kept(k, n)[i] = admitted[k][Len(admitted[k]) - Len(Kept(k, n)) + i]
      /\ \A i \in 1..Len(admitted[k]) - Len(Kept(k, n)) :
            now - admitted[k][i] >= Period * Second
  BY <1>1, KeptFacts
<1>4. Len(Kept(k, n)) <= Limit
  BY <1>2, <1>3, Window
<1>5. LimiterTypeOK'
  BY <1>1, <1>2, <1>3, <1>4 DEF LimiterTypeOK
<1>6. ASSUME NEW j \in Keys PROVE (Suffix(j) /\ Spaced(j))'
  <2>1. CASE j = k
    <3>1. buckets'[k] = Kept(k, n)
      BY <1>1, <1>2
    <3> QED
      BY <1>1, <1>2, <1>3, <2>1, <3>1 DEF Suffix, Spaced
  <2>2. CASE j # k
    BY <1>1, <1>2, <2>2 DEF Suffix, Spaced
  <2> QED
    BY <2>1, <2>2
<1> QED
  BY <1>5, <1>6 DEF LimiterInv

(* Time passes: what is old stays old. *)
LEMMA PassesKeeps ==
  ASSUME LimiterInv, Passes, UNCHANGED limiterVars PROVE LimiterInv'
<1>1. now' = now + 1 /\ now \in Int /\ now' \in Times
  BY Window DEF Passes, LimiterInv, LimiterTypeOK, Times
<1>2. buckets' = buckets /\ admitted' = admitted
  BY DEF limiterVars
<1>3. ASSUME NEW k \in Keys PROVE Suffix(k)'
  <2> DEFINE a == admitted[k]
             w == Period * Second
  <2>1. a \in Seq(Times) /\ Len(a) \in Nat /\ Len(buckets[k]) \in Nat
    BY DEF LimiterInv, LimiterTypeOK
  <2>2. /\ Len(buckets[k]) <= Len(a)
        /\ \A i \in 1..Len(buckets[k]) : buckets[k][i] = a[Len(a) - Len(buckets[k]) + i]
        /\ \A i \in 1..Len(a) - Len(buckets[k]) : now - a[i] >= w
    BY DEF LimiterInv, Suffix
  <2>3. w \in Int
    BY Window
  <2> HIDE DEF a, w
  <2>4. ASSUME NEW i \in 1..Len(a) - Len(buckets[k]) PROVE now' - a[i] >= w
    <3>1. i \in 1..Len(a)
      BY <2>1
    <3>2. a[i] \in Int
      BY <2>1, <3>1, Element
    <3>3. now - a[i] >= w
      BY <2>2
    <3> QED
      BY <1>1, <2>3, <3>2, <3>3
  <2> QED
    BY <1>2, <2>2, <2>4, Zenon DEF Suffix, a, w
<1>4. LimiterTypeOK' /\ \A k \in Keys : Spaced(k)'
  BY <1>1, <1>2 DEF LimiterInv, LimiterTypeOK, Spaced
<1> QED
  BY <1>3, <1>4 DEF LimiterInv

-----------------------------------------------------------------------------
LEMMA EmptyIsKept == now \in Times /\ buckets = Empty /\ admitted = Empty => LimiterInv
<1> SUFFICES ASSUME now \in Times, buckets = Empty, admitted = Empty PROVE LimiterInv
  OBVIOUS
<1>1. \A k \in Keys : buckets[k] = <<>> /\ admitted[k] = <<>>
  BY DEF Empty
<1>2. LimiterTypeOK
  BY <1>1, Window DEF LimiterTypeOK, Empty
<1>3. ASSUME NEW k \in Keys PROVE Suffix(k) /\ Spaced(k)
  BY <1>1, Window DEF Suffix, Spaced
<1> QED
  BY <1>2, <1>3 DEF LimiterInv

LEMMA LimiterStarts == Init => LimiterInv
<1> SUFFICES ASSUME Init PROVE LimiterInv
  OBVIOUS
<1>1. now = 0 /\ now \in Times /\ buckets = Empty /\ admitted = Empty
  BY Window DEF Init, ClockInit, LimiterInit, Times
<1> QED
  BY <1>1, EmptyIsKept

LEMMA LimiterSteps == LimiterInv /\ [Next]_vars => LimiterInv'
<1> SUFFICES ASSUME LimiterInv, [Next]_vars PROVE LimiterInv'
  OBVIOUS
<1>1. CASE Passes /\ UNCHANGED <<limiterVars, tokenVars, pending>>
  BY <1>1, PassesKeeps
<1>2. CASE UNCHANGED <<now, limiterVars>>
  BY <1>2 DEF LimiterInv, LimiterTypeOK, Suffix, Spaced, limiterVars
<1>3. ASSUME NEW k \in Keys, Arrives(k) PROVE LimiterInv'
  BY <1>3, AdmitKeeps DEF Arrives
<1>4. ASSUME NEW k \in Keys, Throttled(k) PROVE LimiterInv'
  BY <1>4, RefuseKeeps DEF Throttled
<1>5. CASE Restart
  <2>1. (now \in Times /\ buckets = Empty /\ admitted = Empty => LimiterInv)'
    BY EmptyIsKept, PTL
  <2>2. now' \in Times /\ buckets' = Empty /\ admitted' = Empty
    BY <1>5 DEF Restart, LimiterInv, LimiterTypeOK
  <2> QED
    BY <2>1, <2>2 DEF Times, Empty
<1>6. \/ Denied \/ \E t \in Tokens : Accepted(t)
      \/ TokenStep /\ UNCHANGED <<now, limiterVars, pending>>
      \/ UNCHANGED vars
      => UNCHANGED <<now, limiterVars>>
  BY DEF Denied, Accepted, vars
<1> QED
  BY <1>1, <1>2, <1>3, <1>4, <1>5, <1>6 DEF Next

(* No address is ever let through more than Limit times in a period: the   *)
(* sliding window of RateLimiter::allow.                                   *)
THEOREM NeverOverTheLimit == Spec => []NeverOverLimit
<1>1. LimiterInv => NeverOverLimit
  BY DEF LimiterInv, Spaced, NeverOverLimit
<1> QED
  BY <1>1, LimiterStarts, LimiterSteps, PTL DEF Spec

(* When allow refuses, the deque is full and nothing in it is a period old.  *)
LEMMA RefusedIsAtLimit ==
  ASSUME LimiterInv, NEW k \in Keys, Refuse(k) PROVE RefusedAtLimit(k)
<1> DEFINE b == buckets[k]
           a == admitted[k]
<1>1. PICK n \in 0..Len(b) : Evicts(k, n) /\ Len(Kept(k, n)) >= Limit
  BY DEF Refuse
<1>2. /\ b \in Seq(Times) /\ a \in Seq(Times) /\ now \in Times
      /\ Len(b) \in Int /\ Len(a) \in Int /\ Len(b) <= Limit
  BY DEF LimiterInv, LimiterTypeOK
<1>3. Len(Kept(k, n)) = Len(b) - n
  BY <1>1, KeptFacts
<1>4. /\ Len(b) <= Len(a)
      /\ \A i \in 1..Len(b) : b[i] = a[Len(a) - Len(b) + i]
  BY DEF LimiterInv, Suffix
<1>5. n = 0 /\ Len(b) = Limit
  BY <1>1, <1>2, <1>3, Window
<1>6. 1 \in 1..Len(b) /\ ~Aged(b[1])
  BY <1>1, <1>2, <1>5, Window DEF Evicts
<1>7. b[1] \in Times /\ b[1] \in Int /\ now \in Int
  BY <1>2, <1>6, Element DEF Times
<1>8. ~(now - b[1] >= Period * Second)
  BY <1>2, <1>6, <1>7, AgedIsOld
<1>9. b[1] = a[Len(a) + 1 - Limit]
  <2>1. Len(a) - Len(b) + 1 = Len(a) + 1 - Limit
    BY <1>2, <1>5, Window
  <2> QED
    BY <1>4, <1>6, <2>1, Zenon
<1>10. now - b[1] < Period * Second
  BY <1>7, <1>8, Window
<1> QED
  BY <1>2, <1>4, <1>5, <1>9, <1>10 DEF RefusedAtLimit

(* A refusal is never for requests that were refused, that are a period    *)
(* old or that came from elsewhere.                                        *)
THEOREM RefusalsAreEarned == Spec => RefusedOnlyAtLimit
<1>1. LimiterInv => [\A k \in Keys : Throttled(k) => RefusedAtLimit(k)]_vars
  BY RefusedIsAtLimit DEF Throttled
<1> QED
  BY <1>1, LimiterStarts, LimiterSteps, PTL DEF Spec, RefusedOnlyAtLimit

-----------------------------------------------------------------------------
(* What was revoked is not active, and never will be: only what is not     *)
(* signed yet is issued.                                                   *)
TokenInv ==
    /\ active \subseteq signed /\ withdrawn \subseteq signed
    /\ \A r \in Refreshers : refresh[r].stage # "idle" => refresh[r].token \in signed
    /\ DOMAIN refresh = Refreshers
    /\ withdrawn \cap active = {}

LEMMA TokenStarts == Init => TokenInv
BY DEF Init, TokenInit, TokenInv, Idle

LEMMA TokenSteps == TokenInv /\ [Next]_vars => TokenInv'
<1> SUFFICES ASSUME TokenInv, [Next]_vars PROVE TokenInv'
  OBVIOUS
<1> USE DEF TokenInv
<1>1. CASE UNCHANGED tokenVars
  BY <1>1 DEF tokenVars
<1>2. ASSUME NEW t \in Tokens, Enroll(t) PROVE TokenInv'
  BY <1>2 DEF Enroll, Signs
<1>3. ASSUME NEW t \in Tokens, IssueToken(t) PROVE TokenInv'
  BY <1>3 DEF IssueToken, Issue, Signs
<1>4. ASSUME NEW t \in Tokens, RevokeToken(t) PROVE TokenInv'
  BY <1>4 DEF RevokeToken, Revoke
<1>5. ASSUME NEW r \in Refreshers, RefreshRevokes(r) PROVE TokenInv'
  BY <1>5 DEF RefreshRevokes, Revoke
<1>6. ASSUME NEW r \in Refreshers, NEW t \in Tokens, RefreshValidates(r, t) PROVE TokenInv'
  BY <1>6 DEF RefreshValidates, Valid
<1>7. ASSUME NEW r \in Refreshers, NEW t \in Tokens, RefreshIssues(r, t) PROVE TokenInv'
  BY <1>7 DEF RefreshIssues, Issue, Signs, Idle
<1>8. CASE Restart
  BY <1>8 DEF Restart, Forget, Idle
<1>9. CASE TokenStep
  BY <1>9, <1>2, <1>3, <1>4, <1>5, <1>6, <1>7 DEF TokenStep
<1>10. ASSUME NEW k \in Keys, Arrives(k) \/ Throttled(k) PROVE UNCHANGED tokenVars
  BY <1>10 DEF Arrives, Throttled, tokenVars
<1>11. Denied \/ (\E t \in Tokens : Accepted(t)) \/ UNCHANGED vars => UNCHANGED tokenVars
  BY DEF Denied, Accepted, vars
<1> HIDE DEF TokenInv
<1> QED
  BY <1>1, <1>8, <1>9, <1>10, <1>11 DEF Next

(* A revoked token is never accepted again, whoever was refreshing it and  *)
(* however often the server is restarted.                                  *)
THEOREM RevokedStaysRevoked == Spec => RevokedForever
<1>1. TokenInv => [\A t \in Tokens : Accepted(t) => t \notin withdrawn]_vars
  BY DEF TokenInv, Accepted, Valid
<1> QED
  BY <1>1, TokenStarts, TokenSteps, PTL DEF Spec, RevokedForever

-----------------------------------------------------------------------------
LEMMA TokenTypesStart == Init => TokenTypeOK
BY Window, TokenAssumption DEF Init, TokenInit, TokenTypeOK, Idle

LEMMA TokenTypesStep == LimiterInv /\ TokenInv /\ TokenTypeOK /\ [Next]_vars => TokenTypeOK'
<1> SUFFICES ASSUME LimiterInv, TokenInv, TokenTypeOK, [Next]_vars PROVE TokenTypeOK'
  OBVIOUS
<1>1. now + Ttl \in 0..MaxTime + Ttl
  BY Window, TokenAssumption DEF LimiterInv, LimiterTypeOK, Times
<1>2. \A t \in Tokens : Signs(t) => /\ expires' \in [Tokens -> 0..MaxTime + Ttl]
                                    /\ signed' \subseteq Tokens /\ signed \subseteq signed'
                                    /\ t \in signed'
  BY <1>1 DEF Signs, TokenTypeOK
<1>3. CASE UNCHANGED tokenVars
  BY <1>3 DEF tokenVars, TokenTypeOK
<1>4. ASSUME NEW t \in Tokens, Enroll(t) PROVE TokenTypeOK'
  BY <1>2, <1>4 DEF Enroll, Signs, TokenTypeOK
<1>5. ASSUME NEW t \in Tokens, IssueToken(t) PROVE TokenTypeOK'
  BY <1>2, <1>5 DEF IssueToken, Issue, Signs, TokenTypeOK
<1>6. ASSUME NEW t \in Tokens, RevokeToken(t) PROVE TokenTypeOK'
  BY <1>6 DEF RevokeToken, Revoke, TokenTypeOK
<1>7. ASSUME NEW r \in Refreshers, RefreshRevokes(r) PROVE TokenTypeOK'
  <2>1. refresh[r].token \in Tokens
    BY <1>7 DEF RefreshRevokes, TokenInv, TokenTypeOK
  <2>2. refresh' \in [Refreshers -> [stage : {"idle", "validated", "revoked"},
                                     token : Tokens \cup {NoToken}]]
    BY <1>7 DEF RefreshRevokes, TokenTypeOK
  <2> QED
    BY <1>7, <2>1, <2>2 DEF RefreshRevokes, Revoke, TokenTypeOK
<1>8. ASSUME NEW r \in Refreshers, NEW t \in Tokens, RefreshValidates(r, t) PROVE TokenTypeOK'
  BY <1>8 DEF RefreshValidates, TokenTypeOK
<1>9. ASSUME NEW r \in Refreshers, NEW t \in Tokens, RefreshIssues(r, t) PROVE TokenTypeOK'
  BY <1>2, <1>9 DEF RefreshIssues, Issue, Signs, Idle, TokenTypeOK
<1>10. CASE Restart
  BY <1>10 DEF Restart, Forget, Idle, TokenTypeOK
<1>11. CASE TokenStep
  BY <1>11, <1>4, <1>5, <1>6, <1>7, <1>8, <1>9 DEF TokenStep
<1>12. ASSUME NEW k \in Keys, Arrives(k) \/ Throttled(k) PROVE UNCHANGED tokenVars
  BY <1>12 DEF Arrives, Throttled, tokenVars
<1>13. Denied \/ (\E t \in Tokens : Accepted(t)) \/ UNCHANGED vars => UNCHANGED tokenVars
  BY DEF Denied, Accepted, vars
<1> QED
  BY <1>3, <1>10, <1>11, <1>12, <1>13 DEF Next

LEMMA PendingStep == pending \in 0..MaxPending /\ [Next]_vars => (pending \in 0..MaxPending)'
BY PendingAssumption DEF Next, Passes, TokenStep, Arrives, Throttled, Denied, Accepted, Restart, vars

(* The deques never hold more than Limit times, an active token is a signed *)
(* one, and every other variable keeps its type.                           *)
THEOREM AccessTypes == Spec => []AccessTypeOK
<1>1. Init => pending \in 0..MaxPending
  BY PendingAssumption DEF Init
<1>2. LimiterInv /\ TokenTypeOK /\ pending \in 0..MaxPending => AccessTypeOK
  BY DEF LimiterInv, AccessTypeOK
<1> QED
  BY <1>1, <1>2, LimiterStarts, LimiterSteps, TokenStarts, TokenSteps, TokenTypesStart, TokenTypesStep,
     PendingStep, PTL DEF Spec

-----------------------------------------------------------------------------
(* Event streams. *)
Live(s) == s \in clients /\ ~Disconnected(s)

(* A stream that was not asked for is empty; one that ended is forgotten.  *)
Stage(s) ==
    /\ stream[s] = "none" => s \notin clients /\ queue[s] = <<>> /\ got[s] = <<>>
    /\ stream[s] = "done" => s \notin clients

Ordered(s) ==
    /\ Increasing(got[s])
    /\ Increasing(queue[s])
    /\ \A g \in Range(got[s]), q \in Range(queue[s]) : g < q
    /\ message[s] # 0 => /\ \A g \in Range(got[s]) : g < message[s]
                        /\ \A q \in Range(queue[s]) : message[s] < q

(* Nothing that was not broadcast is anywhere, *)
Below(s) == \A n \in Reached(s) : n <= Newest(s)

(* the queue of a client is the unbroken end of what was broadcast, *)
Linked(s) == Live(s) => \A i \in 1..Len(queue[s]) : queue[s][i] + Len(queue[s]) = Newest(s) + i

(* and NewestKept, for one stream. *)
QueueKept(s) ==
    Live(s) /\ peer[s] = "there" =>
        \A n \in since[s] + 1 .. Newest(s) : n \in Reached(s) \/ n + MaxQueue <= Newest(s)

StreamInv(s) == Stage(s) /\ Ordered(s) /\ Below(s) /\ Linked(s) /\ QueueKept(s)

SseInv ==
    /\ SseTypeOK
    /\ visiting # {} => sent >= 1
    /\ \A s \in Streams : StreamInv(s)

-----------------------------------------------------------------------------
(* What Tail and the sink do to a queue. *)
LEMMA TailFacts ==
  ASSUME NEW q \in Seq(Notices), q # <<>>
  PROVE  /\ Tail(q) \in Seq(Notices) /\ Len(Tail(q)) = Len(q) - 1
         /\ Len(q) >= 1 /\ Head(q) = q[1] /\ Head(q) \in Notices
         /\ \A i \in 1..Len(q) - 1 : Tail(q)[i] = q[i + 1]
OBVIOUS

LEMMA AppendFacts ==
  ASSUME NEW q \in Seq(Notices), NEW n \in Notices
  PROVE  /\ Append(q, n) \in Seq(Notices) /\ Len(Append(q, n)) = Len(q) + 1
         /\ \A i \in 1..Len(q) : Append(q, n)[i] = q[i]
         /\ Append(q, n)[Len(q) + 1] = n
OBVIOUS

LEMMA RangeOfSeq ==
  ASSUME NEW q \in Seq(Notices)
  PROVE  /\ \A i \in 1..Len(q) : q[i] \in Range(q)
         /\ \A n \in Range(q) : n \in Notices /\ \E i \in 1..Len(q) : n = q[i]
BY DEF Range

LEMMA RangeOfTail ==
  ASSUME NEW q \in Seq(Notices), q # <<>>
  PROVE  Range(q) = Range(Tail(q)) \cup {Head(q)}
<1>0. Tail(q) \in Seq(Notices)
  BY TailFacts
<1>1. Range(Tail(q)) \subseteq Range(q) /\ Head(q) \in Range(q)
  <2>1. ASSUME NEW n \in Range(Tail(q)) PROVE n \in Range(q)
    <3>1. PICK i \in 1..Len(Tail(q)) : n = Tail(q)[i]
      BY <1>0, <2>1, RangeOfSeq
    <3>2. i + 1 \in 1..Len(q) /\ n = q[i + 1]
      BY <3>1, TailFacts
    <3> QED
      BY <3>2, RangeOfSeq
  <2> QED
    BY <2>1, TailFacts, RangeOfSeq
<1>2. ASSUME NEW n \in Range(q) PROVE n \in Range(Tail(q)) \cup {Head(q)}
  <2>1. PICK i \in 1..Len(q) : n = q[i]
    BY <1>2, RangeOfSeq
  <2>2. CASE i = 1
    BY <2>1, <2>2, TailFacts
  <2>3. CASE i # 1
    <3>1. i - 1 \in 1..Len(Tail(q)) /\ Tail(q)[i - 1] = n
      BY <2>1, <2>3, TailFacts
    <3> QED
      BY <3>1, RangeOfSeq, TailFacts
  <2> QED
    BY <2>2, <2>3
<1> QED
  BY <1>1, <1>2

LEMMA RangeOfAppend ==
  ASSUME NEW q \in Seq(Notices), NEW n \in Notices
  PROVE  Range(Append(q, n)) = Range(q) \cup {n}
<1>1. Range(q) \cup {n} \subseteq Range(Append(q, n))
  <2>1. Append(q, n) \in Seq(Notices)
    BY AppendFacts
  <2>2. \A i \in 1..Len(q) + 1 : Append(q, n)[i] \in Range(Append(q, n))
    BY <2>1, RangeOfSeq, AppendFacts
  <2>3. n \in Range(Append(q, n))
    BY <2>2, AppendFacts
  <2>4. ASSUME NEW m \in Range(q) PROVE m \in Range(Append(q, n))
    <3>1. PICK i \in 1..Len(q) : m = q[i]
      BY <2>4, RangeOfSeq
    <3> QED
      BY <3>1, <2>2, AppendFacts
  <2> QED
    BY <2>3, <2>4
<1>2. ASSUME NEW m \in Range(Append(q, n)) PROVE m \in Range(q) \cup {n}
  <2>1. PICK i \in 1..Len(q) + 1 : m = Append(q, n)[i]
    <3>1. Append(q, n) \in Seq(Notices)
      BY AppendFacts
    <3>2. \E i \in 1..Len(Append(q, n)) : m = Append(q, n)[i]
      BY <1>2, <3>1, RangeOfSeq
    <3> QED
      BY <3>2, AppendFacts
  <2> QED
    BY <2>1, AppendFacts, RangeOfSeq
<1> QED
  BY <1>1, <1>2

LEMMA IncreasingTail ==
  ASSUME NEW q \in Seq(Notices), q # <<>>, Increasing(q)
  PROVE  Increasing(Tail(q)) /\ \A n \in Range(Tail(q)) : Head(q) < n
<1>1. Increasing(Tail(q))
  BY TailFacts DEF Increasing
<1>2. ASSUME NEW n \in Range(Tail(q)) PROVE Head(q) < n
  <2>1. PICK i \in 1..Len(Tail(q)) : n = Tail(q)[i]
    BY <1>2, RangeOfSeq, TailFacts
  <2>2. n = q[i + 1] /\ i + 1 \in DOMAIN q /\ 1 \in DOMAIN q
    BY <2>1, TailFacts
  <2> QED
    BY <2>1, <2>2, TailFacts DEF Increasing
<1> QED
  BY <1>1, <1>2

LEMMA IncreasingAppend ==
  ASSUME NEW q \in Seq(Notices), NEW n \in Notices, Increasing(q), \A m \in Range(q) : m < n
  PROVE  Increasing(Append(q, n))
<1>1. \A i \in 1..Len(q) : q[i] < n
  BY RangeOfSeq
<1> QED
  BY <1>1, AppendFacts DEF Increasing

-----------------------------------------------------------------------------
LEMMA Bounds == MaxQueue \in Nat /\ MaxQueue >= 1 /\ MaxNotices \in Nat
BY BoundsAssumption

(* The sink keeps the bound, and a full queue loses its oldest entry only. *)
LEMMA PushedFacts ==
  ASSUME NEW q \in Seq(Notices), Len(q) <= MaxQueue, sent \in Notices
  PROVE  /\ Pushed(q) \in Seq(Notices) /\ Len(Pushed(q)) <= MaxQueue
         /\ Pushed(q) = Append(q, sent) \/ (q # <<>> /\ Len(q) = MaxQueue /\ Pushed(q) = Append(Tail(q), sent))
<1>1. CASE Len(q) >= MaxQueue
  <2>1. q # <<>>
    BY <1>1, Bounds
  <2> QED
    BY <1>1, <2>1, Bounds, TailFacts, AppendFacts DEF Pushed
<1>2. CASE Len(q) < MaxQueue
  BY <1>2, Bounds, AppendFacts DEF Pushed
<1> QED
  BY <1>1, <1>2, Bounds

LEMMA InitKeeps == SseInit => SseInv
<1> SUFFICES ASSUME SseInit PROVE SseInv
  OBVIOUS
<1>1. SseTypeOK
  BY Bounds DEF SseInit, SseTypeOK, Stages
<1>2. ASSUME NEW s \in Streams PROVE StreamInv(s)
  <2>1. queue[s] = <<>> /\ got[s] = <<>> /\ message[s] = 0 /\ s \notin clients
        /\ stream[s] = "none" /\ visiting = {} /\ sent = 0
    BY DEF SseInit
  <2> QED
    BY <2>1 DEF StreamInv, Stage, Ordered, Below, Linked, QueueKept, Live, Increasing,
                Reached, Newest, Range
<1> QED
  BY <1>1, <1>2 DEF SseInv, SseInit

(* A step that leaves everything of a stream alone keeps its invariant. *)
Alone(t) ==
    /\ (t \in clients') = (t \in clients)
    /\ (t \in visiting') = (t \in visiting)
    /\ stream'[t] = stream[t] /\ queue'[t] = queue[t] /\ message'[t] = message[t]
    /\ got'[t] = got[t] /\ since'[t] = since[t]
    /\ peer'[t] = peer[t] \/ peer'[t] = "left"
    /\ sent' = sent

LEMMA AloneKeeps ==
  ASSUME NEW t \in Streams, StreamInv(t), Alone(t)
  PROVE  StreamInv(t)'
<1> USE DEF Alone
<1>1. (Live(t))' = Live(t) /\ (Newest(t))' = Newest(t) /\ (Reached(t))' = Reached(t)
  BY DEF Live, Disconnected, Newest, Reached
<1>2. Stage(t)'
  BY DEF StreamInv, Stage
<1>3. Ordered(t)'
  BY DEF StreamInv, Ordered
<1>4. Below(t)' /\ Linked(t)' /\ QueueKept(t)'
  BY <1>1 DEF StreamInv, Below, Linked, QueueKept
<1> QED
  BY <1>2, <1>3, <1>4 DEF StreamInv

-----------------------------------------------------------------------------
LEMMA TypeStep == SseInv /\ [SseNext]_sseVars => SseTypeOK' /\ (visiting' # {} => sent' >= 1)
<1> SUFFICES ASSUME SseInv, [SseNext]_sseVars PROVE SseTypeOK' /\ (visiting' # {} => sent' >= 1)
  OBVIOUS
<1>0. SseTypeOK /\ (visiting # {} => sent >= 1) /\ sent \in 0..MaxNotices
  BY DEF SseInv, SseTypeOK
<1> USE <1>0, Bounds DEF SseTypeOK, Stages, Becomes, Unlocked
<1>1. CASE Broadcast
  BY <1>1 DEF Broadcast
<1>2. ASSUME NEW s \in Streams, Get(s) PROVE SseTypeOK' /\ (visiting' # {} => sent' >= 1)
  BY <1>2 DEF Get
<1>3. ASSUME NEW s \in Streams, Open(s) \/ OpenFails(s)
      PROVE SseTypeOK' /\ (visiting' # {} => sent' >= 1)
  BY <1>3 DEF Open, OpenFails
<1>4. ASSUME NEW s \in Streams, Take(s) PROVE SseTypeOK' /\ (visiting' # {} => sent' >= 1)
  <2>1. /\ Head(queue[s]) \in Notices /\ Tail(queue[s]) \in Seq(Notices)
        /\ Len(Tail(queue[s])) <= MaxQueue
    BY <1>4, TailFacts DEF Take
  <2>2. queue' \in [Streams -> Seq(Notices)] /\ \A t \in Streams : Len(queue'[t]) <= MaxQueue
    BY <1>4, <2>1 DEF Take
  <2>3. message' \in [Streams -> 0..MaxNotices] /\ Head(queue[s]) # 0
    BY <1>4, <2>1 DEF Take, Notices
  <2>4. \A t \in Streams : message'[t] # 0 <=> stream'[t] = "writing"
    BY <1>4, <2>3 DEF Take
  <2> QED
    BY <1>4, <2>2, <2>3, <2>4 DEF Take
<1>5. ASSUME NEW s \in Streams, Written(s) PROVE SseTypeOK' /\ (visiting' # {} => sent' >= 1)
  <2>1. message[s] \in Notices
    BY <1>5 DEF Written, Notices
  <2>2. Append(got[s], message[s]) \in Seq(Notices)
    BY <2>1, AppendFacts
  <2>3. got' \in [Streams -> Seq(Notices)]
    BY <1>5, <2>2 DEF Written
  <2>4. message' \in [Streams -> 0..MaxNotices]
    BY <1>5 DEF Written
  <2>5. \A t \in Streams : message'[t] # 0 <=> stream'[t] = "writing"
    BY <1>5 DEF Written
  <2> QED
    BY <1>5, <2>3, <2>4, <2>5 DEF Written
<1>6. ASSUME NEW s \in Streams, WriteFails(s) PROVE SseTypeOK' /\ (visiting' # {} => sent' >= 1)
  BY <1>6 DEF WriteFails
<1>7. ASSUME NEW s \in Streams, Release(s) PROVE SseTypeOK' /\ (visiting' # {} => sent' >= 1)
  BY <1>7 DEF Release
<1>8. ASSUME NEW s \in Streams, Delete(s) \/ Leave(s)
      PROVE SseTypeOK' /\ (visiting' # {} => sent' >= 1)
  BY <1>8 DEF Delete, Leave
<1>9. ASSUME NEW s \in Streams, Call(s) PROVE SseTypeOK' /\ (visiting' # {} => sent' >= 1)
  <2>1. sent \in Notices
    BY <1>9 DEF Call, Notices
  <2>2. Pushed(queue[s]) \in Seq(Notices) /\ Len(Pushed(queue[s])) <= MaxQueue
    BY <2>1, PushedFacts
  <2>3. queue' \in [Streams -> Seq(Notices)] /\ \A t \in Streams : Len(queue'[t]) <= MaxQueue
    BY <1>9, <2>2 DEF Call
  <2>4. clients' \subseteq Streams /\ visiting' \subseteq clients'
    BY <1>9 DEF Call
  <2> QED
    BY <1>9, <2>3, <2>4 DEF Call
<1>10. CASE UNCHANGED sseVars
  BY <1>10 DEF sseVars
<1> QED
  BY <1>1, <1>2, <1>3, <1>4, <1>5, <1>6, <1>7, <1>8, <1>9, <1>10 DEF SseNext, Worker

-----------------------------------------------------------------------------
LEMMA OthersAlone ==
  ASSUME SseInv, NEW s \in Streams, NEW t \in Streams, s # t,
         Get(s) \/ Worker(s) \/ Delete(s) \/ Leave(s) \/ Call(s)
  PROVE  Alone(t)
BY DEF SseInv, SseTypeOK, Alone, Get, Worker, Open, OpenFails, Take, Written, WriteFails,
       Release, Delete, Leave, Call, Becomes

(* A broadcast only makes the newest notice one that no client has yet. *)
LEMMA BroadcastKeeps ==
  ASSUME SseInv, Broadcast, NEW t \in Streams PROVE StreamInv(t)'
<1>0. StreamInv(t) /\ visiting = {} /\ sent \in Nat /\ sent' = sent + 1 /\ visiting' = clients
  BY DEF SseInv, SseTypeOK, Broadcast, Unlocked
<1>1. UNCHANGED <<clients, stream, queue, message, peer, got, since>>
  BY DEF Broadcast
<1>2. Newest(t) = sent /\ (Newest(t))' = IF t \in clients THEN sent ELSE sent + 1
  BY <1>0 DEF Newest
<1>3. (Live(t))' = Live(t) /\ (Reached(t))' = Reached(t)
  BY <1>1 DEF Live, Disconnected, Reached
<1>4. Reached(t) \subseteq Nat
  BY RangeOfSeq DEF Reached, SseInv, SseTypeOK, Notices
<1>5. Stage(t)' /\ Ordered(t)'
  BY <1>0, <1>1 DEF StreamInv, Stage, Ordered
<1>6. Below(t)'
  BY <1>0, <1>2, <1>3, <1>4 DEF StreamInv, Below
<1>7. Linked(t)' /\ QueueKept(t)'
  BY <1>0, <1>1, <1>2, <1>3 DEF StreamInv, Linked, QueueKept, Live
<1> QED
  BY <1>5, <1>6, <1>7 DEF StreamInv

LEMMA GetKeeps ==
  ASSUME SseInv, NEW s \in Streams, Get(s) PROVE StreamInv(s)'
<1>0. SseTypeOK /\ StreamInv(s) /\ stream[s] = "none" /\ sent \in Nat
  BY DEF SseInv, SseTypeOK, Get, Becomes
<1>1. /\ queue'[s] = <<>> /\ got'[s] = <<>> /\ message'[s] = 0
      /\ stream'[s] = "opening" /\ since'[s] = sent /\ sent' = sent
      /\ visiting' = {}
  BY <1>0 DEF StreamInv, Stage, SseTypeOK, Get, Becomes, Unlocked
<1>2. (Newest(s))' = sent /\ (Reached(s))' = {0}
  BY <1>1 DEF Newest, Reached, Range
<1>3. Stage(s)' /\ Ordered(s)'
  BY <1>1 DEF Stage, Ordered, Increasing, Range
<1>4. Below(s)' /\ Linked(s)' /\ QueueKept(s)'
  BY <1>0, <1>1, <1>2 DEF Below, Linked, QueueKept
<1> QED
  BY <1>3, <1>4 DEF StreamInv

(* Steps that move no notice. *)
LEMMA QuietKeeps ==
  ASSUME SseInv, NEW s \in Streams,
         Open(s) \/ OpenFails(s) \/ Release(s) \/ Delete(s)
  PROVE  StreamInv(s)'
<1>0. SseTypeOK /\ StreamInv(s)
  BY DEF SseInv
<1>1. UNCHANGED <<visiting, sent, queue, message, peer, got, since>>
  BY DEF Open, OpenFails, Release, Delete
<1>2. (Newest(s))' = Newest(s) /\ (Reached(s))' = Reached(s)
  BY <1>1 DEF Newest, Reached
<1>3. (Live(s))' => Live(s)
  BY <1>0 DEF Live, Disconnected, Open, OpenFails, Release, Delete, Becomes, SseTypeOK
<1>4. Stage(s)'
  BY <1>0 DEF StreamInv, Stage, Open, OpenFails, Release, Delete, Becomes, SseTypeOK
<1>5. Ordered(s)'
  BY <1>0, <1>1 DEF StreamInv, Ordered
<1>6. Below(s)' /\ Linked(s)' /\ QueueKept(s)'
  BY <1>0, <1>1, <1>2, <1>3 DEF StreamInv, Below, Linked, QueueKept
<1> QED
  BY <1>4, <1>5, <1>6 DEF StreamInv

LEMMA TakeKeeps ==
  ASSUME SseInv, NEW s \in Streams, Take(s) PROVE StreamInv(s)'
<1>0. SseTypeOK /\ StreamInv(s) /\ sent \in Nat
  BY DEF SseInv, SseTypeOK
<1>1. /\ queue[s] \in Seq(Notices) /\ queue[s] # <<>>
      /\ queue'[s] = Tail(queue[s]) /\ message'[s] = Head(queue[s]) /\ message[s] = 0
      /\ stream[s] = "waiting" /\ stream'[s] = "writing"
      /\ UNCHANGED <<clients, visiting, sent, peer, got, since>>
  BY <1>0 DEF SseTypeOK, Take, Becomes
<1>2. Range(queue[s]) = Range(queue'[s]) \cup {message'[s]}
  BY <1>1, RangeOfTail
<1>3. (Newest(s))' = Newest(s) /\ (Live(s))' = Live(s)
  BY <1>1 DEF Newest, Live, Disconnected
<1>4. (Reached(s))' \subseteq Reached(s) /\ Reached(s) \subseteq (Reached(s))' \cup {0}
  BY <1>1, <1>2 DEF Reached
<1>5. Stage(s)'
  BY <1>1 DEF Stage
<1>6. Ordered(s)'
  <2>1. Increasing(queue'[s]) /\ \A n \in Range(queue'[s]) : message'[s] < n
    BY <1>0, <1>1, IncreasingTail DEF StreamInv, Ordered
  <2>2. \A g \in Range(got'[s]), q \in Range(queue'[s]) \cup {message'[s]} : g < q
    BY <1>0, <1>1, <1>2 DEF StreamInv, Ordered
  <2> QED
    BY <1>0, <1>1, <2>1, <2>2 DEF StreamInv, Ordered
<1>7. Below(s)'
  BY <1>0, <1>3, <1>4 DEF StreamInv, Below
<1>8. Linked(s)'
  <2>1. SUFFICES ASSUME Live(s), NEW i \in 1..Len(Tail(queue[s]))
                 PROVE Tail(queue[s])[i] + Len(Tail(queue[s])) = Newest(s) + i
    BY <1>1, <1>3 DEF Linked
  <2>2. i + 1 \in 1..Len(queue[s]) /\ Tail(queue[s])[i] = queue[s][i + 1]
        /\ Len(Tail(queue[s])) = Len(queue[s]) - 1 /\ Len(queue[s]) \in Nat
    BY <1>1, TailFacts
  <2>3. queue[s][i + 1] + Len(queue[s]) = Newest(s) + (i + 1)
    BY <1>0, <2>1, <2>2 DEF StreamInv, Linked
  <2>4. queue[s][i + 1] \in Notices
    BY <1>1, <2>2
  <2>5. queue[s][i + 1] \in Int
    BY <2>4, Bounds DEF Notices
  <2>6. Newest(s) \in Int
    BY <1>0 DEF Newest
  <2>7. i \in Int
    OBVIOUS
  <2> HIDE DEF Newest
  <2> QED
    BY <2>2, <2>3, <2>5, <2>6, <2>7
<1>9. QueueKept(s)'
  BY <1>0, <1>1, <1>3, <1>4 DEF StreamInv, QueueKept, SseTypeOK
<1> QED
  BY <1>5, <1>6, <1>7, <1>8, <1>9 DEF StreamInv

LEMMA WriteKeeps ==
  ASSUME SseInv, NEW s \in Streams, Written(s) \/ WriteFails(s) PROVE StreamInv(s)'
<1>0. SseTypeOK /\ StreamInv(s) /\ sent \in Nat
  BY DEF SseInv, SseTypeOK
<1>1. /\ queue[s] \in Seq(Notices) /\ got[s] \in Seq(Notices)
      /\ message[s] # 0 /\ message[s] \in 0..MaxNotices /\ message'[s] = 0
      /\ stream[s] = "writing" /\ stream'[s] \in {"waiting", "releasing"}
      /\ UNCHANGED <<clients, visiting, sent, queue, peer, since>>
  BY <1>0 DEF SseTypeOK, Written, WriteFails, Becomes
<1>2. message[s] \in Notices
  BY <1>1, Bounds DEF Notices
<1>3. /\ got'[s] = IF stream'[s] = "waiting" /\ peer[s] = "there"
                     THEN Append(got[s], message[s]) ELSE got[s]
      /\ stream'[s] = "releasing" => peer[s] = "left"
  BY <1>0, <1>1 DEF SseTypeOK, Written, WriteFails, Becomes
<1>4. Range(got'[s]) = IF stream'[s] = "waiting" /\ peer[s] = "there"
                         THEN Range(got[s]) \cup {message[s]} ELSE Range(got[s])
  BY <1>1, <1>2, <1>3, RangeOfAppend
<1>5. (Newest(s))' = Newest(s) /\ ((Live(s))' => Live(s)) /\ 0 <= Newest(s)
  BY <1>0, <1>1 DEF Newest, Live, Disconnected, SseInv
<1>6. (Reached(s))' \subseteq Reached(s) \cup {0}
  BY <1>1, <1>4 DEF Reached
<1>7. Stage(s)'
  BY <1>1 DEF Stage
<1>8. Ordered(s)'
  <2>1. CASE stream'[s] = "waiting" /\ peer[s] = "there"
    <3>1. Increasing(got'[s])
      BY <1>0, <1>1, <1>2, <1>3, <2>1, IncreasingAppend DEF StreamInv, Ordered
    <3>2. \A g \in Range(got'[s]), q \in Range(queue'[s]) : g < q
      BY <1>0, <1>1, <1>4, <2>1 DEF StreamInv, Ordered
    <3> QED
      BY <1>0, <1>1, <3>1, <3>2 DEF StreamInv, Ordered
  <2>2. CASE ~(stream'[s] = "waiting" /\ peer[s] = "there")
    BY <1>0, <1>1, <1>3, <2>2 DEF StreamInv, Ordered
  <2> QED
    BY <2>1, <2>2
<1>9. Below(s)'
  BY <1>0, <1>5, <1>6 DEF StreamInv, Below
<1>10. Linked(s)'
  BY <1>0, <1>1, <1>5 DEF StreamInv, Linked
<1>11. QueueKept(s)'
  <2>1. SUFFICES ASSUME (Live(s))', peer[s] = "there",
                        NEW n \in since[s] + 1 .. Newest(s), n \in Reached(s)
                 PROVE n \in (Reached(s))'
    BY <1>0, <1>1, <1>5 DEF StreamInv, QueueKept
  <2>2. stream'[s] = "waiting"
    BY <1>1, <2>1 DEF Live, Disconnected
  <2> QED
    BY <1>1, <1>4, <2>1, <2>2 DEF Reached
<1> QED
  BY <1>7, <1>8, <1>9, <1>10, <1>11 DEF StreamInv

LEMMA Shift ==
  \A a, l, n, i \in Int :
      /\ a + l = n - 1 + (i + 1) => a + (l - 1) = n - 1 + i
      /\ a + l = n - 1 + i => a + (l + 1) = n + i
OBVIOUS

(* The broadcasting thread calls the sink of a stream that is connected. *)
LEMMA PushKeeps ==
  ASSUME SseInv, NEW s \in Streams, Call(s), ~Disconnected(s) PROVE StreamInv(s)'
<1>0. SseTypeOK /\ StreamInv(s) /\ sent \in Notices /\ Live(s)
  BY Bounds DEF SseInv, SseTypeOK, Call, Live, Notices
<1>1. /\ queue[s] \in Seq(Notices) /\ Len(queue[s]) <= MaxQueue
      /\ queue'[s] = Pushed(queue[s])
      /\ visiting' = visiting \ {s}
      /\ UNCHANGED <<clients, sent, stream, message, peer, got, since>>
  BY <1>0 DEF SseTypeOK, Call
<1>2. Newest(s) = sent - 1 /\ (Newest(s))' = sent /\ (Live(s))' = Live(s)
  BY <1>1 DEF Newest, Live, Disconnected, Call
<1>3. PICK rest \in Seq(Notices) :
        /\ queue'[s] = Append(rest, sent)
        /\ \/ rest = queue[s]
           \/ queue[s] # <<>> /\ Len(queue[s]) = MaxQueue /\ rest = Tail(queue[s])
  BY <1>0, <1>1, PushedFacts, TailFacts
<1>4. Range(queue'[s]) = Range(rest) \cup {sent} /\ Range(rest) \subseteq Range(queue[s])
  BY <1>0, <1>1, <1>3, RangeOfAppend, RangeOfTail
<1>5. \A n \in Reached(s) : n <= sent - 1
  BY <1>0, <1>2 DEF StreamInv, Below
<1>6. (Reached(s))' \subseteq Reached(s) \cup {sent} /\ sent \in (Reached(s))'
  BY <1>1, <1>4 DEF Reached
<1>a. Reached(s) \subseteq Nat /\ sent \in Nat
  BY <1>0, RangeOfSeq, Bounds DEF Reached, SseTypeOK, Notices
<1>b. \A n \in Reached(s) : n < sent
  BY <1>5, <1>a
<1>7. Stage(s)'
  BY <1>0, <1>1 DEF StreamInv, Stage, Live
<1>8. Ordered(s)'
  <2>1. Increasing(rest)
    BY <1>0, <1>1, <1>3, IncreasingTail DEF StreamInv, Ordered
  <2>2. \A n \in Range(rest) : n < sent
    BY <1>4, <1>5, <1>a DEF Reached
  <2>3. Increasing(queue'[s])
    BY <1>0, <1>3, <2>1, <2>2, IncreasingAppend
  <2>4. /\ \A g \in Range(got[s]) : g < sent
        /\ message[s] < sent
    BY <1>b DEF Reached
  <2>5. \A g \in Range(got[s]), q \in Range(queue'[s]) : g < q
    BY <1>0, <1>4, <2>4 DEF StreamInv, Ordered
  <2>6. message[s] # 0 => \A q \in Range(queue'[s]) : message[s] < q
    BY <1>0, <1>4, <2>4 DEF StreamInv, Ordered
  <2> QED
    BY <1>0, <1>1, <2>3, <2>5, <2>6 DEF StreamInv, Ordered
<1>9. Below(s)'
  BY <1>2, <1>5, <1>6, <1>a DEF Below
<1>10. \A i \in 1..Len(rest) : rest[i] + Len(rest) = sent - 1 + i
  <2>1. \A i \in 1..Len(queue[s]) : queue[s][i] + Len(queue[s]) = sent - 1 + i
    BY <1>0, <1>2 DEF StreamInv, Linked
  <2>2. CASE rest = queue[s]
    BY <2>1, <2>2
  <2>3. CASE queue[s] # <<>> /\ rest = Tail(queue[s])
    <3>1. SUFFICES ASSUME NEW i \in 1..Len(rest)
                   PROVE rest[i] + Len(rest) = sent - 1 + i
      OBVIOUS
    <3>2. i + 1 \in 1..Len(queue[s]) /\ rest[i] = queue[s][i + 1]
          /\ Len(rest) = Len(queue[s]) - 1 /\ Len(queue[s]) \in Nat
      BY <1>1, <2>3, TailFacts
    <3>3. queue[s][i + 1] \in Int
      BY <1>1, <3>2, Bounds DEF Notices
    <3>4. queue[s][i + 1] + Len(queue[s]) = sent - 1 + (i + 1)
      BY <2>1, <3>2
    <3> QED
      <4>1. i \in Int /\ Len(queue[s]) \in Int /\ sent \in Int
        BY <1>a, <3>2
      <4>2. queue[s][i + 1] + (Len(queue[s]) - 1) = sent - 1 + i
        BY <4>1, <3>3, <3>4, Shift
      <4> QED
        BY <3>2, <4>2
  <2> QED
    BY <1>3, <2>2, <2>3
<1>11. Linked(s)'
  <2>1. SUFFICES ASSUME NEW i \in 1..Len(rest) + 1
                 PROVE Append(rest, sent)[i] + (Len(rest) + 1) = sent + i
    BY <1>0, <1>2, <1>3, AppendFacts DEF Linked
  <2>2. CASE i = Len(rest) + 1
    BY <1>0, <1>a, <1>3, <2>2, AppendFacts
  <2>3. CASE i \in 1..Len(rest)
    <3>1. Append(rest, sent)[i] = rest[i] /\ rest[i] \in Notices /\ Len(rest) \in Nat
      BY <1>0, <1>3, <2>3, AppendFacts
    <3>2. rest[i] \in Int
      BY <3>1, Bounds DEF Notices
    <3> QED
      <4>1. i \in Int /\ Len(rest) \in Int /\ sent \in Int
        BY <1>a, <2>3, <3>1
      <4>2. rest[i] + Len(rest) = sent - 1 + i
        BY <1>10, <2>3
      <4>3. rest[i] + (Len(rest) + 1) = sent + i
        BY <3>2, <4>1, <4>2, Shift
      <4> QED
        BY <3>1, <4>3
  <2> QED
    BY <1>3, <2>2, <2>3
<1>12. QueueKept(s)'
  <2>1. SUFFICES ASSUME peer[s] = "there", NEW n \in since[s] + 1 .. sent, n # sent
                 PROVE n \in (Reached(s))' \/ n + MaxQueue <= sent
    BY <1>0, <1>1, <1>2, <1>6 DEF QueueKept
  <2>2. n \in since[s] + 1 .. sent - 1 /\ n \in Int
    BY <1>0, <1>a, <2>1 DEF SseTypeOK
  <2>3. n \in Reached(s) \/ n + MaxQueue <= sent - 1
    BY <1>0, <1>2, <2>1, <2>2 DEF StreamInv, QueueKept
  <2>4. CASE n + MaxQueue <= sent - 1
    BY <1>a, <2>2, <2>4, Bounds
  <2>5. CASE n \in Reached(s) /\ rest = queue[s]
    BY <1>1, <1>4, <2>5 DEF Reached
  <2>6. CASE n \in Reached(s) /\ queue[s] # <<>> /\ Len(queue[s]) = MaxQueue /\ rest = Tail(queue[s])
    <3>1. Range(queue[s]) = Range(rest) \cup {Head(queue[s])}
      BY <1>1, <2>6, RangeOfTail
    <3>2. Head(queue[s]) = queue[s][1] /\ 1 \in 1..Len(queue[s]) /\ queue[s][1] \in Notices
      BY <1>1, <2>6, TailFacts
    <3>3. queue[s][1] + MaxQueue = sent - 1 + 1
      BY <1>0, <1>2, <2>6, <3>2 DEF StreamInv, Linked
    <3>4. n = Head(queue[s]) => n + MaxQueue <= sent
      BY <1>a, <3>2, <3>3, Bounds
    <3> QED
      BY <1>1, <1>4, <2>6, <3>1, <3>4 DEF Reached
  <2> QED
    BY <1>3, <2>3, <2>4, <2>5, <2>6
<1> QED
  BY <1>7, <1>8, <1>9, <1>11, <1>12 DEF StreamInv

(* The sink of a stream that is disconnected says so and is removed. *)
LEMMA DropKeeps ==
  ASSUME SseInv, NEW s \in Streams, Call(s), Disconnected(s) PROVE StreamInv(s)'
<1>0. SseTypeOK /\ StreamInv(s) /\ sent \in Nat
  BY DEF SseInv, SseTypeOK
<1>1. /\ s \notin clients' /\ Newest(s) = sent - 1 /\ (Newest(s))' = sent
      /\ UNCHANGED <<sent, stream, queue, message, peer, got, since>>
  BY DEF Call, Newest
<1>2. (Reached(s))' = Reached(s) /\ Reached(s) \subseteq Nat
  BY <1>0, <1>1, RangeOfSeq DEF Reached, SseTypeOK, Notices
<1>3. Stage(s)' /\ Ordered(s)' /\ Linked(s)' /\ QueueKept(s)'
  BY <1>0, <1>1 DEF StreamInv, Stage, Ordered, Linked, QueueKept, Live
<1>4. Below(s)'
  BY <1>0, <1>1, <1>2 DEF StreamInv, Below
<1> QED
  BY <1>3, <1>4 DEF StreamInv

-----------------------------------------------------------------------------
LEMMA NextKeeps == SseInv /\ [SseNext]_sseVars => SseInv'
<1> SUFFICES ASSUME SseInv, [SseNext]_sseVars PROVE SseInv'
  OBVIOUS
<1>1. ASSUME NEW t \in Streams PROVE StreamInv(t)'
  <2>1. CASE Broadcast
    BY <2>1, BroadcastKeeps
  <2>2. ASSUME NEW s \in Streams,
               Get(s) \/ Worker(s) \/ Delete(s) \/ Leave(s) \/ Call(s)
        PROVE StreamInv(t)'
    <3>1. CASE s # t
      BY <2>2, <3>1, OthersAlone, AloneKeeps DEF SseInv
    <3>2. CASE s = t /\ Leave(s)
      <4>1. Alone(t)
        BY <3>2 DEF Alone, Leave, SseInv, SseTypeOK
      <4> QED
        BY <4>1, AloneKeeps DEF SseInv
    <3>3. CASE s = t /\ ~Leave(s)
      BY <2>2, <3>3, GetKeeps, QuietKeeps, TakeKeeps, WriteKeeps, PushKeeps, DropKeeps DEF Worker
    <3> QED
      BY <3>1, <3>2, <3>3
  <2>3. CASE UNCHANGED sseVars
    <3>1. Alone(t)
      BY <2>3 DEF sseVars, Alone
    <3> QED
      BY <3>1, AloneKeeps DEF SseInv
  <2> QED
    BY <2>1, <2>2, <2>3 DEF SseNext
<1> QED
  BY <1>1, TypeStep DEF SseInv

LEMMA InvariantHolds == SseSpec => []SseInv
BY InitKeeps, NextKeeps, PTL DEF SseSpec

(* Of what was broadcast, a client that listens misses only what MaxQueue   *)
(* later notices pushed out: the drop-oldest queue of handle_get.          *)
THEOREM ClientsMissOnlyTheOldest == SseSpec => []NewestKept
<1>1. SseInv => NewestKept
  BY DEF SseInv, SseTypeOK, StreamInv, QueueKept, Live, NewestKept
<1> QED
  BY <1>1, InvariantHolds, PTL

(* Queues stay within MaxQueue, and stages, sinks and what was received of  *)
(* every stream keep their types, however workers and broadcasts interleave *)
(* (http/handler.cpp, SseStream).                                           *)
THEOREM SseTypes == SseSpec => []SseTypeOK
<1>1. SseInv => SseTypeOK
  BY DEF SseInv
<1> QED
  BY <1>1, InvariantHolds, PTL

(* A client receives notices in the order of the broadcasts, none twice.    *)
THEOREM ClientsSeeBroadcastOrder == SseSpec => []InOrder
<1>1. SseInv => InOrder
  BY DEF SseInv, StreamInv, Ordered, InOrder
<1> QED
  BY <1>1, InvariantHolds, PTL

(* A stream that ended has no sink left for a broadcast to call.            *)
THEOREM EndedStreamsAreForgotten == SseSpec => []EndedIsForgotten
<1>1. SseInv => EndedIsForgotten
  BY DEF SseInv, StreamInv, Stage, EndedIsForgotten
<1> QED
  BY <1>1, InvariantHolds, PTL
=============================================================================
