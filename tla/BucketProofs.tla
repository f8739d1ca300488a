----------------------------- MODULE BucketProofs -----------------------------
(***************************************************************************)
(* Proofs about TokenBucket for every rate, clock resolution and set of    *)
(* sessions: type correctness, the burst bound as a refinement of          *)
(* RateLimit, and that only excess calls are rejected.                     *)
(***************************************************************************)
EXTENDS TokenBucket, TLAPS

LEMMA Sizes ==
    ASSUME BucketAssumption
    PROVE  Full \in Nat /\ Token \in Nat /\ Token > 0 /\ Cost(0) = 0
BY DEF BucketAssumption, Full, Token, Cost

(* A refill is monotone and additive in time, a cost in the calls. *)
LEMMA RefillSign ==
    ASSUME BucketAssumption, NEW m \in Int
    PROVE  Refill(m) \in Int /\ (m <= 0 => Refill(m) <= 0) /\ (m >= 0 => Refill(m) >= 0)
BY DEF BucketAssumption, Refill

LEMMA RefillSum ==
    ASSUME BucketAssumption, NEW m \in Int, NEW n \in Int
    PROVE  Refill(m + n) = Refill(m) + Refill(n)
BY DEF BucketAssumption, Refill

LEMMA CostNext ==
    ASSUME BucketAssumption, NEW n \in Nat
    PROVE  Cost(n) \in Nat /\ Cost(n + 1) = Cost(n) + Token
BY DEF BucketAssumption, Cost, Token

LEMMA RefilledBounds ==
    ASSUME BucketAssumption, IInv, NEW s \in Session
    PROVE  /\ Refilled(s) \in Nat /\ Refilled(s) <= Full
           /\ buckets[s] # NoBucket =>
                  LET t == buckets[s].tokens + Refill(now - buckets[s].lastTime)
                  IN  Refilled(s) = IF t > Full THEN Full ELSE t
<1>1. CASE buckets[s] = NoBucket
  BY <1>1, Sizes DEF Refilled
<1>2. CASE buckets[s] # NoBucket
  <2>1. /\ buckets[s].tokens \in Nat /\ buckets[s].lastTime \in Nat /\ now \in Nat
        /\ buckets[s].lastTime <= now
    BY <1>2 DEF IInv, TypeOK, BucketInv, Bucket
  <2>2. now - buckets[s].lastTime \in Nat
    BY <2>1
  <2>3. Refill(now - buckets[s].lastTime) \in Nat
    BY <2>1, <2>2, RefillSign
  <2> QED
    BY <1>2, <2>1, <2>3, Sizes DEF Refilled
<1> QED
  BY <1>1, <1>2

LEMMA InvariantInit ==
    ASSUME BucketAssumption, Init
    PROVE  IInv
BY DEF Init, IInv, TypeOK, BucketInv, VerdictInv

(* A check, allowed or rejected, keeps the token account of its session.    *)
LEMMA CheckStep ==
    ASSUME BucketAssumption, IInv, NEW s \in Session, Allow(s) \/ Reject(s)
    PROVE  IInv'
<1> USE DEF IInv
<1> DEFINE left == IF Allow(s) THEN Refilled(s) - Token ELSE Refilled(s)
           n == admitted'[s]
           e == buckets[s].lastTime - from[s]
           d == now - buckets[s].lastTime
<1>1. /\ now' = now /\ from' = from /\ now \in Nat /\ from[s] \in Nat /\ from[s] <= now
      /\ admitted[s] \in Nat
  BY DEF Allow, Reject, TypeOK, BucketInv
<1>2. Refilled(s) \in Nat /\ Refilled(s) <= Full /\ Full \in Nat /\ Token \in Nat /\ Token > 0
  BY RefilledBounds, Sizes
<1>3. /\ buckets' = [buckets EXCEPT ![s] = [tokens |-> left, lastTime |-> now]]
      /\ left \in Nat /\ left <= Full
  BY <1>2 DEF Allow, Reject
<1>4. /\ buckets'[s] = [tokens |-> left, lastTime |-> now]
      /\ buckets'[s] # NoBucket
      /\ \A t \in Session : t # s => buckets'[t] = buckets[t]
  BY <1>1, <1>3 DEF TypeOK, Bucket, BucketAssumption
<1>5. /\ \A t \in Session : t # s => admitted'[t] = admitted[t] /\ verdict'[t] = verdict[t]
      /\ n = IF Allow(s) THEN admitted[s] + 1 ELSE admitted[s]
      /\ verdict'[s] = IF Allow(s) THEN "allowed" ELSE "limited"
  BY DEF Allow, Reject, TypeOK
<1>6. TypeOK'
  BY <1>1, <1>3, <1>5 DEF TypeOK, Bucket, Allow, Reject
<1>7. Cost(n) + left = Cost(admitted[s]) + Refilled(s)
  BY <1>1, <1>2, <1>5, CostNext
<1>8. /\ Cost(n) + left <= Full + Refill(now - from[s])
      /\ \/ Cost(n) + left >= Full
         \/ Cost(n) + left >= Refill(now - from[s])
  <2>1. Refill(now - from[s]) \in Nat /\ Cost(admitted[s]) \in Nat
    <3>1. now - from[s] \in Int /\ now - from[s] >= 0
      BY <1>1
    <3>2. Refill(now - from[s]) \in Int /\ Refill(now - from[s]) >= 0
      BY <3>1, RefillSign
    <3>3. Cost(admitted[s]) \in Nat
      BY <1>1, CostNext
    <3> QED
      BY <3>2, <3>3
  <2>2. CASE buckets[s] = NoBucket
    <3>1. Cost(admitted[s]) = 0 /\ Refilled(s) = Full
      BY <2>2, <1>2, Sizes DEF BucketInv, Refilled
    <3> QED
      BY <1>2, <1>7, <2>1, <3>1
  <2>3. CASE buckets[s] # NoBucket
    <3>1. /\ buckets[s].tokens \in Nat /\ buckets[s].lastTime \in Nat
          /\ d \in Nat /\ e \in Int /\ now - from[s] = e + d
      BY <1>1, <2>3 DEF TypeOK, BucketInv, Bucket
    <3>2. Refill(now - from[s]) = Refill(e) + Refill(d) /\ Refill(e) \in Int /\ Refill(d) \in Nat
      <4>1. Refill(e + d) = Refill(e) + Refill(d) /\ Refill(e) \in Int
        <5>1. e \in Int /\ d \in Int
          BY <3>1
        <5> HIDE DEF e, d
        <5>2. Refill(e + d) = Refill(e) + Refill(d)
          BY <5>1, RefillSum
        <5>3. Refill(e) \in Int
          BY <5>1, RefillSign
        <5> QED
          BY <5>2, <5>3
      <4>2. Refill(d) \in Nat
        BY <3>1, RefillSign
      <4> QED
        BY <3>1, <4>1, <4>2
    <3>3. Refilled(s) = IF buckets[s].tokens + Refill(d) > Full THEN Full
                        ELSE buckets[s].tokens + Refill(d)
      BY <2>3, RefilledBounds
    <3>4. CASE buckets[s].lastTime < from[s]
      <4>1. Cost(admitted[s]) = 0
        BY <2>3, <3>4, Sizes DEF BucketInv
      <4>2. Refill(e) <= 0
        BY <1>1, <3>1, <3>4, RefillSign
      <4> QED
        BY <1>2, <1>7, <2>1, <3>1, <3>2, <3>3, <4>1, <4>2
    <3>5. CASE buckets[s].lastTime >= from[s]
      <4>1. /\ Cost(admitted[s]) + buckets[s].tokens <= Full + Refill(e)
            /\ \/ Cost(admitted[s]) + buckets[s].tokens >= Full
               \/ Cost(admitted[s]) + buckets[s].tokens >= Refill(e)
        BY <2>3, <3>5 DEF BucketInv, Earned
      <4>2. Refill(e) \in Nat
        BY <1>1, <3>1, <3>5, RefillSign
      <4> QED
        BY <1>2, <1>7, <2>1, <3>1, <3>2, <3>3, <4>1, <4>2
    <3> QED
      BY <1>1, <3>1, <3>4, <3>5
  <2> QED
    BY <2>2, <2>3
<1> HIDE DEF left, n, e, d
<1>9. BucketInv'
  BY <1>1, <1>3, <1>4, <1>5, <1>8 DEF BucketInv, Earned, n, left
<1>10. VerdictInv'
  BY <1>1, <1>2, <1>4, <1>5 DEF VerdictInv, Allow, Reject, left
<1> QED
  BY <1>6, <1>9, <1>10

LEMMA InvariantStep ==
    ASSUME BucketAssumption, IInv, [Next]_vars
    PROVE  IInv'
<1>1. ASSUME NEW s \in Session, Allow(s) \/ Reject(s)
      PROVE  IInv'
  BY <1>1, CheckStep
<1>2. CASE Tick
  BY <1>2 DEF Tick, IInv, TypeOK, BucketInv, VerdictInv, Earned, Bucket
<1>3. ASSUME NEW s \in Session, Observe(s)
      PROVE  IInv'
  <2>1. TypeOK' /\ VerdictInv'
    BY <1>3 DEF Observe, IInv, TypeOK, VerdictInv
  <2>2. SUFFICES ASSUME NEW t \in Session
                 PROVE  /\ from'[t] <= now'
                        /\ buckets'[t] = NoBucket => admitted'[t] = 0
                        /\ buckets'[t] # NoBucket =>
                           /\ buckets'[t].lastTime <= now'
                           /\ buckets'[t].tokens <= Full
                           /\ buckets'[t].lastTime < from'[t] => admitted'[t] = 0
                           /\ buckets'[t].lastTime >= from'[t] =>
                              /\ Cost(admitted'[t]) + buckets'[t].tokens <= Full + Earned(t)'
                              /\ \/ Cost(admitted'[t]) + buckets'[t].tokens >= Full
                                 \/ Cost(admitted'[t]) + buckets'[t].tokens >= Earned(t)'
    BY <2>1 DEF IInv, BucketInv
  <2>3. CASE t # s
    BY <1>3, <2>3 DEF Observe, IInv, TypeOK, BucketInv, Earned
  <2>4. CASE t = s
    <3>1. from'[s] = now /\ admitted'[s] = 0 /\ now' = now /\ buckets' = buckets /\ now \in Nat
      BY <1>3 DEF Observe, IInv, TypeOK
    <3>2. CASE buckets[s] = NoBucket
      BY <2>4, <3>1, <3>2
    <3>3. CASE buckets[s] # NoBucket
      <4>1. /\ buckets[s].lastTime <= now /\ buckets[s].lastTime \in Nat
            /\ buckets[s].tokens \in Nat /\ buckets[s].tokens <= Full
        BY <3>3 DEF IInv, TypeOK, BucketInv, Bucket
      <4>2. buckets[s].lastTime >= now => Earned(s)' = 0
        BY <3>1, <4>1 DEF Earned, Refill, BucketAssumption
      <4> QED
        BY <2>4, <3>1, <3>3, <4>1, <4>2, Sizes
    <3> QED
      BY <3>2, <3>3
  <2> QED
    BY <2>3, <2>4
<1>4. CASE UNCHANGED vars
  BY <1>4 DEF vars, IInv, TypeOK, BucketInv, VerdictInv, Earned
<1> QED
  BY <1>1, <1>2, <1>3, <1>4 DEF Next

THEOREM Invariant == Spec => []IInv
<1>1. Init => IInv
  BY BucketAssumption, InvariantInit
<1>2. IInv /\ [Next]_vars => IInv'
  BY BucketAssumption, InvariantStep
<1> QED
  BY <1>1, <1>2, PTL DEF Spec

(* Type correctness of the token bucket. *)
THEOREM TypeCorrect == Spec => []TypeOK
BY Invariant, PTL DEF IInv

(* A session is rejected only when rps of its calls were allowed in the     *)
(* second before, whatever the rate and however fine the clock.            *)
THEOREM OnlyExcessRejected == Spec => []RejectsOnlyExcess
<1>1. IInv => RejectsOnlyExcess
  <2> SUFFICES ASSUME IInv, NEW s \in Session, verdict[s] = "limited",
                      now - from[s] >= Second
               PROVE  admitted[s] >= RPS
    BY DEF RejectsOnlyExcess
  <2>1. /\ buckets[s] # NoBucket /\ buckets[s].tokens < Token /\ buckets[s].lastTime = now
        /\ buckets[s].tokens \in Nat /\ now \in Nat /\ from[s] \in Nat /\ admitted[s] \in Nat
    BY DEF IInv, VerdictInv, TypeOK, Bucket
  <2>2. /\ Second \in Nat /\ Second > 0 /\ RPS \in Nat
    BY BucketAssumption DEF BucketAssumption
  <2>3. \/ Cost(admitted[s]) + buckets[s].tokens >= Full
        \/ Cost(admitted[s]) + buckets[s].tokens >= Refill(now - from[s])
    BY <2>1, <2>2 DEF IInv, BucketInv, Earned
  <2>4. Refill(now - from[s]) >= Full
    BY <2>1, <2>2 DEF Refill, Full
  <2>5. Cost(admitted[s]) + Token > Full
    BY <2>1, <2>2, <2>3, <2>4, CostNext, Sizes, RefillSign, BucketAssumption
  <2>6. (admitted[s] + 1) * Second > RPS * Second
    BY <2>1, <2>2, <2>5 DEF Cost, Token, Full
  <2> QED
    BY <2>1, <2>2, <2>6
<1> QED
  BY <1>1, Invariant, PTL

(* The token bucket implements RateLimit: in any second at most 2 * rps     *)
(* calls of a session are allowed.                                         *)
THEOREM BurstIsBounded == Spec => BurstBounded
<1>1. Init => Promise!Init
  BY DEF Init, Promise!Init
<1>2. IInv /\ IInv' /\ [Next]_vars => [Promise!Next]_Promise!vars
  <2> SUFFICES ASSUME IInv, IInv', [Next]_vars
               PROVE  [Promise!Next]_Promise!vars
    OBVIOUS
  <2>1. ASSUME NEW s \in Session, Allow(s)
        PROVE  Promise!Allow(s)
    <3>1. /\ admitted' = [admitted EXCEPT ![s] = @ + 1] /\ now' = now /\ from' = from
          /\ admitted[s] \in Nat /\ admitted'[s] = admitted[s] + 1
          /\ now \in Nat /\ from[s] \in Nat /\ from[s] <= now
      BY <2>1 DEF Allow, IInv, TypeOK, BucketInv
    <3>2. buckets'[s].lastTime = now /\ buckets'[s] # NoBucket /\ buckets'[s].tokens \in Nat
      <4>1. Refilled(s) \in Nat /\ Refilled(s) - Token \in Nat /\ now \in Nat
        BY <2>1, <3>1, RefilledBounds, Sizes, BucketAssumption DEF Allow
      <4>2. buckets'[s] = [tokens |-> Refilled(s) - Token, lastTime |-> now]
        BY <2>1 DEF Allow, IInv, TypeOK
      <4> QED
        BY <4>1, <4>2, BucketAssumption DEF Bucket, BucketAssumption
    <3>3. Cost(admitted[s] + 1) <= Full + Refill(now - from[s])
      <4>1. Cost(admitted'[s]) + buckets'[s].tokens <= Full + Refill(now - from[s])
        BY <3>1, <3>2 DEF IInv, BucketInv, Earned
      <4> QED
        BY <3>1, <3>2, <4>1, Sizes, CostNext, RefillSign, BucketAssumption
    <3>4. ASSUME now - from[s] < Second
          PROVE  admitted[s] < 2 * RPS
      <4>1. Second \in Nat /\ Second > 0 /\ RPS \in Nat
        BY BucketAssumption DEF BucketAssumption
      <4>2. Refill(now - from[s]) <= Full
        BY <3>1, <3>4, <4>1 DEF Refill, Full
      <4>3. (admitted[s] + 1) * Second <= (2 * RPS) * Second
        BY <3>1, <3>3, <4>1, <4>2 DEF Cost, Token, Full, Refill
      <4> QED
        BY <3>1, <4>1, <4>3
    <3> QED
      BY <3>1, <3>4, BucketAssumption DEF Promise!Allow, BucketAssumption
  <2>2. ASSUME NEW s \in Session, Reject(s)
        PROVE  UNCHANGED Promise!vars
    BY <2>2 DEF Reject, Promise!vars
  <2>3. CASE Tick
    BY <2>3 DEF Tick, IInv, TypeOK, Promise!Next, Promise!Tick
  <2>4. ASSUME NEW s \in Session, Observe(s)
        PROVE  Promise!Observe(s)
    BY <2>4 DEF Observe, Promise!Observe
  <2>5. CASE UNCHANGED vars
    BY <2>5 DEF vars, Promise!vars
  <2> QED
    BY <2>1, <2>2, <2>3, <2>4, <2>5 DEF Next, Promise!Next
<1> QED
  BY <1>1, <1>2, Invariant, PTL DEF Spec, BurstBounded, Promise!Spec

-----------------------------------------------------------------------------
(* What RateLimit promises, in one formula: no window of a second has more   *)
(* than its limit of allowed calls.                                         *)
WithinLimit == \A s \in Session : now - from[s] < Second => admitted[s] <= 2 * RPS

PromiseInv ==
    /\ now \in Nat /\ from \in [Session -> Nat] /\ admitted \in [Session -> Nat]
    /\ \A s \in Session : from[s] <= now
    /\ WithinLimit

(* RateLimit means that, whoever implements it and whenever the windows open. *)
THEOREM PromiseMeansLimit == Promise!Spec => []WithinLimit
<1>1. Promise!Init => PromiseInv
  BY BucketAssumption DEF Promise!Init, PromiseInv, WithinLimit, BucketAssumption
<1>2. PromiseInv /\ [Promise!Next]_Promise!vars => PromiseInv'
  <2> SUFFICES ASSUME PromiseInv, [Promise!Next]_Promise!vars
               PROVE  PromiseInv'
    OBVIOUS
  <2> USE DEF PromiseInv, WithinLimit
  <2>0. Second \in Nat /\ RPS \in Nat /\ 0 <= 2 * RPS
    BY BucketAssumption DEF BucketAssumption
  <2>1. CASE Promise!Tick
    BY <2>0, <2>1 DEF Promise!Tick
  <2>2. ASSUME NEW s \in Session, Promise!Observe(s)
        PROVE  PromiseInv'
    BY <2>0, <2>2 DEF Promise!Observe
  <2>3. ASSUME NEW s \in Session, Promise!Allow(s)
        PROVE  PromiseInv'
    <3>1. /\ UNCHANGED <<now, from>> /\ admitted' = [admitted EXCEPT ![s] = @ + 1]
          /\ now - from[s] >= Second \/ admitted[s] < 2 * RPS
      BY <2>3 DEF Promise!Allow
    <3>2. ASSUME NEW t \in Session, now - from[t] < Second
          PROVE  admitted'[t] <= 2 * RPS
      BY <2>0, <3>1, <3>2
    <3> QED
      BY <3>1, <3>2
  <2>4. CASE UNCHANGED Promise!vars
    BY <2>4 DEF Promise!vars
  <2> QED
    BY <2>1, <2>2, <2>3, <2>4 DEF Promise!Next
<1>3. PromiseInv => WithinLimit
  BY DEF PromiseInv
<1> QED
  BY <1>1, <1>2, <1>3, PTL DEF Promise!Spec

(* The token bucket allows at most 2 * rps calls of a session in any second: *)
(* a full bucket and what it earns meanwhile.                               *)
THEOREM BurstsStayWithinLimit == Spec => []WithinLimit
BY BurstIsBounded, PromiseMeansLimit, PTL DEF BurstBounded
=============================================================================
