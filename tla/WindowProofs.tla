----------------------------- MODULE WindowProofs -----------------------------
(***************************************************************************)
(* Theorems about the Valkey rate limiter.  The first lemmas are about     *)
(* seconds of the clock, the next ones about the script and the tick; each  *)
(* part of the inductive invariant then has a lemma of its own.             *)
(***************************************************************************)
EXTENDS WindowLimiter, TLAPS

-----------------------------------------------------------------------------
(* The second of a moment has begun and has not ended. *)
LEMMA SecondOf ==
  ASSUME NEW t \in Nat
  PROVE  /\ t \div Second \in Nat
         /\ Second * (t \div Second) <= t
         /\ t < Second * (t \div Second + 1)
  BY SMT, WindowAssumption

(* A counter of a second that has begun, given a second to live, outlives it. *)
LEMMA OutlivesItsSecond ==
  ASSUME NEW t \in Nat, NEW u \in Nat, u <= t \div Second
  PROVE  t + Second >= Second * (u + 1)
  <1>1. Second * u <= Second * (t \div Second)
    BY SMTT(60), SecondOf, WindowAssumption
  <1>2. Second * (u + 1) = Second * u + Second
    BY SMT, WindowAssumption
  <1> QED  BY <1>1, <1>2, SecondOf, SMT, WindowAssumption

(* Seconds follow one another. *)
LEMMA SecondsGrow ==
  ASSUME NEW t \in Nat, NEW u \in Nat, t <= u
  PROVE  t \div Second <= u \div Second
  BY SMTT(60), WindowAssumption

(* A window of a second has moments of at most two unix seconds. *)
LEMMA TwoSeconds ==
  ASSUME NEW t \in Nat, NEW u \in Nat, t <= u, u - t < Second
  PROVE  u \div Second <= t \div Second + 1
  BY SMTT(60), WindowAssumption

LEMMA ClockWithinBound ==
  ASSUME NEW t \in Nat, t <= MaxTime
  PROVE  t \div Second \in UnixSecond
  BY SecondsGrow, SecondOf, WindowAssumption DEF UnixSecond

LEMMA SecondsAreNat == UnixSecond \subseteq Nat
  BY DEF UnixSecond

LEMMA PartsOfKey ==
  ASSUME NEW k \in CounterKey
  PROVE  k[1] \in Session /\ k[2] \in Nat /\ k = <<k[1], k[2]>>
  <1>1. PICK s \in Session, u \in UnixSecond : k = <<s, u>>
    BY DEF CounterKey
  <1> QED  BY <1>1, SecondsAreNat

(* A key that is not Idle names a session and a second. *)
LEMMA KeyOfCheck ==
  ASSUME Types, NEW c \in Check, pending[c] # Idle
  PROVE  /\ pending[c] \in CounterKey
         /\ pending[c][1] \in Session
         /\ pending[c][2] \in UnixSecond
         /\ pending[c] = <<pending[c][1], pending[c][2]>>
  BY DEF Types, CounterKey

-----------------------------------------------------------------------------
(* What the script does, key by key and session by session. *)
LEMMA ScriptEffect ==
  ASSUME Types, NEW k \in CounterKey, Script(k)
  PROVE  /\ \A j \in CounterKey : j # k => count'[j] = count[j] /\ expires'[j] = expires[j]
         /\ count'[k] = IF count[k] <= RPS THEN count[k] + 1 ELSE count[k]
         /\ expires'[k] = IF count[k] = 0 THEN now + Second ELSE expires[k]
         /\ \A s \in Session : s # k[1] => counted'[s] = counted[s] /\ late'[s] = late[s]
         /\ counted'[k[1]] = IF counted[k[1]] <= RPS THEN counted[k[1]] + 1 ELSE counted[k[1]]
         /\ late'[k[1]] = (late[k[1]] \/ now \div Second > k[2])
         /\ count' \in [CounterKey -> Nat] /\ expires' \in [CounterKey -> Nat]
         /\ counted' \in [Session -> Nat] /\ late' \in [Session -> BOOLEAN]
  <1>1. k[1] \in Session
    BY DEF CounterKey
  <1>2. count' \in [CounterKey -> Nat] /\ counted' \in [Session -> Nat]
    BY <1>1, WindowAssumption DEF Types, Script, Incremented
  <1>3. expires' \in [CounterKey -> Nat]
    BY WindowAssumption DEF Types, Script
  <1>4. late' \in [Session -> BOOLEAN] /\ late'[k[1]] = (late[k[1]] \/ now \div Second > k[2])
    BY <1>1, ZenonT(30) DEF Types, Script
  <1>5. \A s \in Session : s # k[1] => late'[s] = late[s]
    BY <1>1 DEF Types, Script
  <1> QED  BY <1>1, <1>2, <1>3, <1>4, <1>5 DEF Types, Script, Incremented

(* What a check's return does. *)
LEMMA ReturnEffect ==
  ASSUME Types, NEW c \in Check, NEW v \in {"allowed", "limited", "error"},
         pending[c] # Idle, Return(c, v)
  PROVE  /\ verdict' \in [Session -> {"none", "allowed", "limited", "error"}]
         /\ verdict'[pending[c][1]] = v
         /\ \A s \in Session : s # pending[c][1] => verdict'[s] = verdict[s]
         /\ pending' \in [Check -> CounterKey \cup {Idle}]
         /\ pending'[c] = Idle
         /\ \A d \in Check : d # c => pending'[d] = pending[d]
         /\ since' \in [Check -> Nat]
  BY KeyOfCheck DEF Types, Return

(* The actions, with the three outcomes of a check seen as one. *)
LEMMA Actions ==
  ASSUME Next
  PROVE  \/ Tick
         \/ \E s \in Session : Observe(s)
         \/ \E s \in Session, c \in Check : ReadClock(c, s)
         \/ \E c \in Check : Allow(c) \/ Reject(c) \/ Fail(c)
  BY DEF Next

-----------------------------------------------------------------------------
LEMMA TypeStep ==
  ASSUME Types, ClockInv, [Next]_vars
  PROVE  Types'
  <1>1. CASE Tick
    BY <1>1 DEF Tick, Types
  <1>2. ASSUME NEW s \in Session, Observe(s)
        PROVE  Types'
    BY <1>2 DEF Observe, Types
  <1>3. ASSUME NEW s \in Session, NEW c \in Check, ReadClock(c, s)
        PROVE  Types'
    <2>1. now \div Second \in UnixSecond
      BY ClockWithinBound DEF Types, ClockInv
    <2>2. <<s, now \div Second>> \in CounterKey
      BY <2>1 DEF CounterKey
    <2> QED  BY <1>3, <2>2 DEF ReadClock, Types
  <1>4. ASSUME NEW c \in Check, Allow(c)
        PROVE  Types'
    <2>1. pending[c] \in CounterKey /\ pending[c][1] \in Session /\ pending[c] # Idle
      BY <1>4, KeyOfCheck DEF Allow
    <2>2. Script(pending[c]) /\ Return(c, "allowed")
      BY <1>4 DEF Allow
    <2>3. admitted' \in [Session -> Nat]
      BY <1>4, <2>1 DEF Allow, Types
    <2> QED  BY <1>4, <2>1, <2>2, <2>3, ScriptEffect, ReturnEffect DEF Allow, Types
  <1>5. ASSUME NEW c \in Check, Reject(c)
        PROVE  Types'
    <2>1. pending[c] \in CounterKey /\ pending[c] # Idle
      BY <1>5, KeyOfCheck DEF Reject
    <2>2. Script(pending[c]) /\ Return(c, "limited")
      BY <1>5 DEF Reject
    <2> QED  BY <1>5, <2>1, <2>2, ScriptEffect, ReturnEffect DEF Reject, Types
  <1>6. ASSUME NEW c \in Check, Fail(c)
        PROVE  Types'
    <2>1. pending[c] \in CounterKey /\ pending[c] # Idle
      BY <1>6, KeyOfCheck DEF Fail
    <2>2. Return(c, "error")
      BY <1>6 DEF Fail
    <2>3. /\ count' \in [CounterKey -> Nat] /\ expires' \in [CounterKey -> Nat]
          /\ counted' \in [Session -> Nat] /\ late' \in [Session -> BOOLEAN]
      BY <1>6, <2>1, ScriptEffect DEF Fail, Types
    <2> QED  BY <1>6, <2>1, <2>2, <2>3, ReturnEffect DEF Fail, Types
  <1>7. CASE UNCHANGED vars
    BY <1>7 DEF vars, Types
  <1> QED  BY <1>1, <1>2, <1>3, <1>4, <1>5, <1>6, <1>7, Actions

(* ClockInv: only Tick moves the clock, and only ReadClock computes a key. *)
LEMMA ClockStep ==
  ASSUME Types, ClockInv, [Next]_vars
  PROVE  ClockInv'
  <1>1. CASE Tick
    <2>1. now' \in Nat /\ now' <= MaxTime /\ now <= now' /\ pending' = pending
      BY <1>1, WindowAssumption DEF Tick, Types
    <2>2. now \div Second <= now' \div Second
      BY <2>1, SecondsGrow DEF Types
    <2>3. now \div Second \in Nat /\ now' \div Second \in Nat
      BY <2>1, SecondOf DEF Types
    <2>4. \A c \in Check : pending[c] # Idle => pending[c][2] \in Nat
      BY KeyOfCheck, SecondsAreNat
    <2> QED  BY <2>1, <2>2, <2>3, <2>4 DEF ClockInv
  <1>2. ASSUME NEW s \in Session, Observe(s)
        PROVE  ClockInv'
    BY <1>2 DEF Observe, ClockInv
  <1>3. ASSUME NEW s \in Session, NEW c \in Check, ReadClock(c, s)
        PROVE  ClockInv'
    <2>1. /\ \A d \in Check : pending'[d] = IF d = c THEN <<s, now \div Second>> ELSE pending[d]
          /\ now' = now
      BY <1>3 DEF ReadClock, Types
    <2>2. now \div Second \in Nat
      BY SecondOf DEF Types
    <2> QED  BY <2>1, <2>2 DEF ClockInv
  <1>4. ASSUME NEW c \in Check, Allow(c) \/ Reject(c) \/ Fail(c)
        PROVE  ClockInv'
    <2>1. now' = now /\ pending' = [pending EXCEPT ![c] = Idle]
      BY <1>4 DEF Allow, Reject, Fail, Return
    <2> QED  BY <2>1 DEF ClockInv, Types
  <1>5. CASE UNCHANGED vars
    BY <1>5 DEF vars, ClockInv
  <1> QED  BY <1>1, <1>2, <1>3, <1>4, <1>5, Actions

(* ExpiryInv: a counter is given its second to live when it is created. *)
LEMMA ExpiryStep ==
  ASSUME Types, ClockInv, ExpiryInv, [Next]_vars
  PROVE  ExpiryInv'
  <1>1. CASE Tick
    BY <1>1, WindowAssumption DEF Tick, ExpiryInv, Types
  <1>2. ASSUME NEW k \in CounterKey, Script(k), now' = now, k[2] <= now \div Second
        PROVE  ExpiryInv'
    <2>1. k[2] \in Nat /\ now \in Nat
      BY SecondsAreNat DEF CounterKey, Types
    <2>2. now + Second >= Second * (k[2] + 1)
      BY <1>2, <2>1, OutlivesItsSecond
    <2>3. count[k] > 0 => expires'[k] = expires[k]
      BY <1>2, ScriptEffect
    <2>4. count[k] = 0 => expires'[k] = now + Second
      BY <1>2, ScriptEffect
    <2>5. count[k] = 0 \/ count[k] > 0
      BY DEF Types
    <2>6. /\ expires'[k] > now
          /\ expires'[k] <= now + Second
          /\ expires'[k] >= Second * (k[2] + 1)
      <3>1. CASE count[k] = 0
        BY <3>1, <2>1, <2>2, <2>4, WindowAssumption
      <3>2. CASE count[k] > 0
        BY <3>2, <2>3 DEF ExpiryInv
      <3> QED  BY <3>1, <3>2, <2>5
    <2>7. \A j \in CounterKey : j # k => count'[j] = count[j] /\ expires'[j] = expires[j]
      BY <1>2, ScriptEffect
    <2> QED  BY <1>2, <2>6, <2>7 DEF ExpiryInv
  <1>3. ASSUME NEW c \in Check, Allow(c) \/ Reject(c) \/ Fail(c)
        PROVE  ExpiryInv'
    <2>1. pending[c] \in CounterKey /\ pending[c][2] <= now \div Second
      BY <1>3, KeyOfCheck DEF Allow, Reject, Fail, ClockInv
    <2>2. now' = now /\ (Script(pending[c]) \/ UNCHANGED <<count, expires>>)
      BY <1>3 DEF Allow, Reject, Fail
    <2> QED  BY <1>2, <2>1, <2>2 DEF ExpiryInv
  <1>4. CASE UNCHANGED <<now, count, expires>>
    BY <1>4 DEF ExpiryInv
  <1> QED  BY <1>1, <1>3, <1>4, Actions DEF Observe, ReadClock, vars

(* CountInv: the script counts for the observer what it counts in Valkey. *)
LEMMA CountStep ==
  ASSUME Types, ExpiryInv, CountInv, [Next]_vars
  PROVE  CountInv'
  <1>1. CASE Tick
    BY <1>1, WindowAssumption DEF Tick, CountInv, Types, CounterKey
  <1>2. ASSUME NEW s \in Session, Observe(s)
        PROVE  CountInv'
    <2>1. \A k \in CounterKey : k[1] \in Session
      BY DEF CounterKey
    <2>2. /\ \A r \in Session : from'[r] = IF r = s THEN now ELSE from[r]
          /\ \A r \in Session : counted'[r] = IF r = s THEN 0 ELSE counted[r]
          /\ count' = count /\ expires' = expires
      BY <1>2 DEF Observe, Types
    <2>3. \A k \in CounterKey : expires[k] > now + Second => count[k] = 0
      BY WindowAssumption DEF ExpiryInv, Types
    <2> QED  BY <2>1, <2>2, <2>3, WindowAssumption DEF CountInv, Types
  <1>3. ASSUME NEW k \in CounterKey, Script(k), from' = from
        PROVE  CountInv'
    <2>1. \A j \in CounterKey : j[1] \in Session
      BY DEF CounterKey
    <2>2. \A s \in Session : counted'[s] <= RPS + 1 /\ counted'[s] >= counted[s]
      BY <1>3, ScriptEffect, WindowAssumption DEF CountInv, Types
    <2>3. \A j \in CounterKey : count'[j] <= RPS + 1
      BY <1>3, ScriptEffect, WindowAssumption DEF CountInv, Types
    <2>4. \A j \in CounterKey : j # k /\ expires'[j] > from[j[1]] + Second
                                  => count'[j] <= counted'[j[1]]
      BY <1>3, <2>1, <2>2, ScriptEffect, WindowAssumption DEF CountInv, Types
    <2>5. expires'[k] > from[k[1]] + Second => count'[k] <= counted'[k[1]]
      <3>1. CASE count[k] = 0
        BY <1>3, <3>1, <2>1, ScriptEffect, WindowAssumption DEF CountInv, Types
      <3>2. CASE count[k] > 0
        BY <1>3, <3>2, <2>1, ScriptEffect, WindowAssumption DEF CountInv, Types
      <3> QED  BY <3>1, <3>2 DEF Types
    <2> QED  BY <1>3, <2>2, <2>3, <2>4, <2>5 DEF CountInv
  <1>4. CASE UNCHANGED <<count, expires, counted, from>>
    BY <1>4 DEF CountInv
  <1>5. ASSUME NEW c \in Check, Allow(c) \/ Reject(c) \/ Fail(c)
        PROVE  CountInv'
    <2>1. pending[c] \in CounterKey
      BY <1>5, KeyOfCheck DEF Allow, Reject, Fail
    <2>2. from' = from /\ (Script(pending[c]) \/ UNCHANGED <<count, expires, counted>>)
      BY <1>5 DEF Allow, Reject, Fail
    <2> QED  BY <1>3, <1>4, <2>1, <2>2
  <1> QED  BY <1>1, <1>2, <1>4, <1>5, Actions DEF ReadClock, vars

(* RejectsOnlyExcess: the counter that rejects was begun after the observed  *)
(* moment, since it has not outlived its second.                            *)
LEMMA RejectsStep ==
  ASSUME Types, ExpiryInv, CountInv, RejectsOnlyExcess, [Next]_vars
  PROVE  RejectsOnlyExcess'
  <1>1. CASE Tick
    BY <1>1 DEF Tick, RejectsOnlyExcess
  <1>2. ASSUME NEW s \in Session, Observe(s)
        PROVE  RejectsOnlyExcess'
    BY <1>2 DEF Observe, RejectsOnlyExcess, Types
  <1>3. ASSUME NEW c \in Check, Allow(c) \/ Fail(c)
        PROVE  RejectsOnlyExcess'
    <2>1. /\ pending[c] \in CounterKey /\ pending[c] # Idle
          /\ pending[c][1] \in Session /\ now' = now /\ from' = from
      BY <1>3, KeyOfCheck DEF Allow, Fail
    <2>2. Return(c, "allowed") \/ Return(c, "error")
      BY <1>3 DEF Allow, Fail
    <2>3. /\ verdict'[pending[c][1]] # "limited"
          /\ \A s \in Session : s # pending[c][1] => verdict'[s] = verdict[s]
      BY <2>1, <2>2, ReturnEffect
    <2>4. Script(pending[c]) \/ counted' = counted
      BY <1>3 DEF Allow, Fail
    <2>5. \A s \in Session : s # pending[c][1] => counted'[s] = counted[s]
      BY <2>1, <2>4, ScriptEffect
    <2> QED  BY <2>1, <2>3, <2>5 DEF RejectsOnlyExcess
  <1>4. ASSUME NEW c \in Check, Reject(c)
        PROVE  RejectsOnlyExcess'
    <2> DEFINE k == pending[c]
    <2>1. /\ k \in CounterKey /\ k # Idle /\ k[1] \in Session
          /\ now' = now /\ from' = from
          /\ Script(k) /\ Return(c, "limited")
      BY <1>4, KeyOfCheck DEF Reject
    <2>2. /\ count[k] > RPS \/ count[k] + 1 > RPS
          /\ count[k] \in Nat /\ counted[k[1]] \in Nat /\ expires[k] \in Nat
          /\ now \in Nat /\ from[k[1]] \in Nat
      BY <1>4, <2>1 DEF Reject, Incremented, Types
    <2> HIDE DEF k
    <2>3. now - from[k[1]] >= Second => counted'[k[1]] > RPS
      <3>1. CASE count[k] = 0
        BY <3>1, <2>1, <2>2, ScriptEffect, WindowAssumption
      <3>2. CASE count[k] > 0
        <4>1. expires[k] > now
          BY <3>2, <2>1 DEF ExpiryInv
        <4>2. now - from[k[1]] >= Second => expires[k] > from[k[1]] + Second
          BY <4>1, <2>2, WindowAssumption
        <4>3. now - from[k[1]] >= Second => count[k] <= counted[k[1]]
          BY <4>2, <2>1 DEF CountInv
        <4>4. counted'[k[1]] = IF counted[k[1]] <= RPS THEN counted[k[1]] + 1
                               ELSE counted[k[1]]
          BY <2>1, ScriptEffect
        <4> QED  BY <4>3, <4>4, <2>2, WindowAssumption
      <3> QED  BY <3>1, <3>2, <2>2
    <2>4. \A s \in Session : s # k[1] => verdict'[s] = verdict[s]
      BY <2>1, ReturnEffect DEF k
    <2>5. \A s \in Session : s # k[1] => counted'[s] = counted[s]
      BY <2>1, ScriptEffect
    <2> QED  BY <2>1, <2>3, <2>4, <2>5 DEF RejectsOnlyExcess
  <1>5. CASE UNCHANGED <<now, verdict, from, counted>>
    BY <1>5 DEF RejectsOnlyExcess
  <1> QED  BY <1>1, <1>2, <1>3, <1>4, <1>5, Actions DEF ReadClock, vars

(* AdmittedInv for a session of which a check has run the script, in the   *)
(* second it counts: what is admitted is also in the counter.              *)
LEMMA AdmittedByScript ==
  ASSUME Types, ClockInv, AdmittedInv,
         NEW k \in CounterKey, Script(k), k[2] <= now \div Second,
         now' = now, from' = from,
         \A s \in Session : s # k[1] => admitted'[s] = admitted[s],
         \/ admitted' = admitted
         \/ /\ Incremented(k) <= RPS
            /\ admitted'[k[1]] = IF now - from[k[1]] < Second THEN admitted[k[1]] + 1
                                 ELSE admitted[k[1]]
  PROVE  AdmittedInv'
  <1> DEFINE sec == now \div Second
  <1>1. k[1] \in Session /\ k[2] \in Nat /\ k = <<k[1], k[2]>> /\ sec \in Nat
    <2>1. sec \in Nat
      BY SecondOf DEF Types
    <2>2. k[1] \in Session /\ k[2] \in Nat /\ k = <<k[1], k[2]>>
      BY PartsOfKey
    <2> QED  BY <2>1, <2>2
  <1>2. sec \in UnixSecond
    BY ClockWithinBound DEF Types, ClockInv
  <1>3. \A s \in Session : <<s, sec>> \in CounterKey
    BY <1>2 DEF CounterKey
  <1>4. ASSUME NEW s \in Session, s # k[1]
        PROVE  admitted'[s] = admitted[s] /\ late'[s] = late[s]
               /\ count'[<<s, sec>>] = count[<<s, sec>>]
    <2>1. <<s, sec>> # k
      BY <1>1, <1>4
    <2> QED  BY <1>3, <1>4, <2>1, ScriptEffect
  <1>5. CASE late[k[1]] \/ sec > k[2]
    <2>1. late'[k[1]]
      BY <1>5, ScriptEffect
    <2> QED  BY <1>1, <1>4, <2>1 DEF AdmittedInv
  <1>6. CASE ~late[k[1]] /\ k[2] = sec
    <2>1. k = <<k[1], sec>>
      BY <1>1, <1>6
    <2>2. count'[k] = Incremented(k)
      BY ScriptEffect DEF Incremented
    <2> HIDE DEF sec
    <2>3. /\ count[k] \in Nat /\ admitted[k[1]] \in Nat /\ RPS \in Nat
          /\ now \in Nat /\ from[k[1]] \in Nat
      BY <1>1, WindowAssumption DEF Types
    <2>4. from[k[1]] <= now
      BY <1>1 DEF AdmittedInv
    <2>5. ASSUME now - from[k[1]] < Second
          PROVE  IF sec = from[k[1]] \div Second
                 THEN admitted'[k[1]] <= RPS /\ admitted'[k[1]] <= count'[k]
                 ELSE admitted'[k[1]] <= 2 * RPS /\ admitted'[k[1]] <= RPS + count'[k]
      <3>1. IF sec = from[k[1]] \div Second
            THEN admitted[k[1]] <= RPS /\ admitted[k[1]] <= count[k]
            ELSE admitted[k[1]] <= 2 * RPS /\ admitted[k[1]] <= RPS + count[k]
        BY <1>1, <1>6, <2>1, <2>5 DEF AdmittedInv, sec
      <3>2. \/ admitted'[k[1]] = admitted[k[1]]
            \/ Incremented(k) <= RPS /\ admitted'[k[1]] = admitted[k[1]] + 1
        BY <2>5
      <3>3. Incremented(k) = IF count[k] <= RPS THEN count[k] + 1 ELSE count[k]
        BY DEF Incremented
      <3> QED  BY <2>2, <2>3, <3>1, <3>2, <3>3
    <2>6. AdmittedInv'
      BY <1>1, <1>4, <2>1, <2>4, <2>5 DEF AdmittedInv, sec
    <2> QED  BY <2>6
  <1>7. late[k[1]] \/ sec > k[2] \/ (~late[k[1]] /\ k[2] = sec)
    BY <1>1
  <1> QED  BY <1>5, <1>6, <1>7

(* AdmittedInv: a window enters its second unix second at most once, and    *)
(* the counter of the current second stays until the second is over.        *)
LEMMA AdmittedStep ==
  ASSUME Types, ClockInv, ExpiryInv, AdmittedInv, [Next]_vars
  PROVE  AdmittedInv'
  <1>1. CASE Tick
    <2>1. /\ now' = now + 1 /\ now' <= MaxTime /\ now \in Nat /\ now' \in Nat
          /\ from' = from /\ admitted' = admitted /\ late' = late
      BY <1>1, WindowAssumption DEF Tick, Types
    <2>2. now \div Second \in UnixSecond /\ now' \div Second \in UnixSecond
      <3>1. now <= MaxTime
        BY DEF ClockInv
      <3> QED  BY <2>1, <3>1, ClockWithinBound
    <2>3. \A s \in Session : from'[s] <= now'
      <3>1. \A s \in Session : from[s] <= now /\ from[s] \in Nat
        BY DEF AdmittedInv, Types
      <3> QED  BY <2>1, <3>1
    <2> SUFFICES ASSUME NEW s \in Session, now' - from[s] < Second, ~late[s]
                 PROVE  IF now' \div Second = from[s] \div Second
                        THEN /\ admitted[s] <= RPS
                             /\ admitted[s] <= count'[<<s, now' \div Second>>]
                        ELSE /\ admitted[s] <= 2 * RPS
                             /\ admitted[s] <= RPS + count'[<<s, now' \div Second>>]
      BY <2>1, <2>3 DEF AdmittedInv
    <2> DEFINE old == <<s, now \div Second>>
               new == <<s, now' \div Second>>
    <2>4. /\ old \in CounterKey /\ new \in CounterKey
          /\ count[old] \in Nat /\ count'[new] \in Nat
          /\ admitted[s] \in Nat /\ from[s] \in Nat /\ RPS \in Nat
      BY <1>1, <2>2, WindowAssumption DEF CounterKey, Types, Tick
    <2>5. from[s] <= now /\ now - from[s] < Second
      BY <2>1, <2>4, WindowAssumption DEF AdmittedInv
    <2>6. IF now \div Second = from[s] \div Second
          THEN admitted[s] <= RPS /\ admitted[s] <= count[old]
          ELSE admitted[s] <= 2 * RPS /\ admitted[s] <= RPS + count[old]
      BY <2>5 DEF AdmittedInv
    <2>7. /\ from[s] \div Second \in Nat /\ now \div Second \in Nat /\ now' \div Second \in Nat
          /\ from[s] \div Second <= now \div Second
          /\ now \div Second <= now' \div Second
          /\ now' \div Second <= from[s] \div Second + 1
      BY <2>1, <2>4, <2>5, SecondOf, SecondsGrow, TwoSeconds, WindowAssumption
    <2>8. CASE now' \div Second = now \div Second
      <3>1. count'[old] = count[old]
        <4>1. count'[old] = IF expires[old] <= now' THEN 0 ELSE count[old]
          BY <1>1, <2>4 DEF Tick
        <4>2. CASE count[old] > 0
          <5>1. expires[old] >= Second * (now \div Second + 1)
            BY <4>2, <2>4 DEF ExpiryInv
          <5>2. now' < Second * (now' \div Second + 1)
            BY <2>1, SecondOf
          <5>3. expires[old] > now'
            BY <5>1, <5>2, <2>8, <2>1, <2>4, <2>7, WindowAssumption DEF Types
          <5> QED  BY <4>1, <5>3, <2>1, <2>4 DEF Types
        <4> QED  BY <4>1, <4>2, <2>4
      <3> QED  BY <3>1, <2>6, <2>8
    <2>9. CASE now' \div Second # now \div Second
      <3>1. now \div Second = from[s] \div Second /\ now' \div Second # from[s] \div Second
        BY <2>7, <2>9
      <3> HIDE DEF old, new
      <3> QED  BY <2>4, <2>6, <3>1 DEF new
    <2> QED  BY <2>8, <2>9
  <1>2. ASSUME NEW s \in Session, Observe(s)
        PROVE  AdmittedInv'
    <2>1. /\ now \div Second \in UnixSecond /\ now \in Nat
          /\ \A r \in Session : <<r, now \div Second>> \in CounterKey
      BY ClockWithinBound DEF Types, ClockInv, CounterKey
    <2>2. /\ \A r \in Session : /\ from'[r] = IF r = s THEN now ELSE from[r]
                                /\ admitted'[r] = IF r = s THEN 0 ELSE admitted[r]
          /\ \A r \in Session : r # s => late'[r] = late[r]
          /\ count' = count /\ now' = now
      BY <1>2 DEF Observe, Types
    <2>3. \A r \in Session : count[<<r, now \div Second>>] \in Nat
      BY <2>1 DEF Types
    <2> QED  BY <2>1, <2>2, <2>3, WindowAssumption DEF AdmittedInv
  <1>3. CASE UNCHANGED <<now, count, from, admitted, late>>
    BY <1>3 DEF AdmittedInv
  <1>4. ASSUME NEW c \in Check, Allow(c) \/ Reject(c) \/ Fail(c)
        PROVE  AdmittedInv'
    <2>1. /\ pending[c] \in CounterKey /\ pending[c] # Idle /\ pending[c][1] \in Session
          /\ pending[c][2] <= now \div Second
      BY <1>4, KeyOfCheck DEF Allow, Reject, Fail, ClockInv
    <2>2. now' = now /\ from' = from
      BY <1>4 DEF Allow, Reject, Fail
    <2>3. CASE Allow(c)
      <3>1. Script(pending[c]) /\ Incremented(pending[c]) <= RPS
        BY <2>3 DEF Allow
      <3>2. \A s \in Session : s # pending[c][1] => admitted'[s] = admitted[s]
        BY <2>3 DEF Allow, Types
      <3>3. admitted'[pending[c][1]] = IF now - from[pending[c][1]] < Second
                                       THEN admitted[pending[c][1]] + 1
                                       ELSE admitted[pending[c][1]]
        BY <2>1, <2>3 DEF Allow, Types
      <3> QED  BY <2>1, <2>2, <3>1, <3>2, <3>3, AdmittedByScript
    <2>4. CASE Reject(c) \/ Fail(c)
      <3>1. admitted' = admitted /\ (Script(pending[c]) \/ UNCHANGED <<count, late>>)
        BY <2>4 DEF Reject, Fail
      <3> QED  BY <1>3, <2>1, <2>2, <3>1, AdmittedByScript
    <2> QED  BY <1>4, <2>3, <2>4
  <1> QED  BY <1>1, <1>2, <1>3, <1>4, Actions DEF ReadClock, vars

-----------------------------------------------------------------------------
LEMMA InvariantStep ==
  ASSUME IInv, [Next]_vars
  PROVE  IInv'
  BY TypeStep, ClockStep, ExpiryStep, CountStep, AdmittedStep, RejectsStep DEF IInv

LEMMA InitInvariant ==
  ASSUME Init
  PROVE  IInv
  <1>1. Types
    BY DEF Init, Types
  <1>2. ClockInv /\ ExpiryInv /\ RejectsOnlyExcess
    BY WindowAssumption DEF Init, ClockInv, ExpiryInv, RejectsOnlyExcess
  <1>3. CountInv
    BY WindowAssumption DEF Init, CountInv, CounterKey
  <1>4. AdmittedInv
    <2>1. now = 0 /\ 0 \div Second \in UnixSecond
      BY ClockWithinBound, WindowAssumption DEF Init
    <2>2. \A s \in Session : count[<<s, now \div Second>>] = 0
      BY <2>1 DEF Init, CounterKey
    <2>3. \A s \in Session : from[s] = 0 /\ admitted[s] = 0
      BY DEF Init
    <2>4. 0 <= RPS /\ 0 <= 2 * RPS /\ 0 <= RPS + 0
      BY WindowAssumption
    <2>5. now = 0 /\ 0 <= 0
      BY <2>1
    <2> QED  BY <2>2, <2>3, <2>4, <2>5 DEF AdmittedInv
  <1> QED  BY <1>1, <1>2, <1>3, <1>4 DEF IInv

(* What the inductive invariant says of a window of a second. *)
LEMMA InvariantBounds ==
  ASSUME IInv
  PROVE  BurstBounded /\ NoLeakedCounter
  <1>1. BurstBounded
    <2> SUFFICES ASSUME NEW s \in Session, now - from[s] < Second, ~late[s]
                 PROVE  admitted[s] <= 2 * RPS
      BY DEF BurstBounded
    <2>1. admitted[s] <= RPS \/ admitted[s] <= 2 * RPS
      BY DEF IInv, AdmittedInv
    <2>2. admitted[s] \in Nat /\ RPS \in Nat
      BY WindowAssumption DEF IInv, Types
    <2> QED  BY <2>1, <2>2
  <1>2. NoLeakedCounter
    BY WindowAssumption DEF IInv, ExpiryInv, NoLeakedCounter, Types
  <1> QED  BY <1>1, <1>2

(* The inductive invariant holds of every behaviour of the limiter. *)
THEOREM Invariant == Spec => []IInv
  <1>1. Init => IInv
    BY InitInvariant
  <1>2. IInv /\ [Next]_vars => IInv'
    BY InvariantStep
  <1> QED  BY <1>1, <1>2, PTL DEF Spec

(* Counters, keys and verdicts keep their types, and no check ever holds the  *)
(* key of a second that the clock has not reached.  About: the key of the     *)
(* unix second (valkey_ratelimiter.go).                                      *)
THEOREM TypeCorrect == Spec => []TypeOK
  <1>1. IInv => TypeOK
    BY DEF IInv, TypeOK
  <1> QED  BY <1>1, Invariant, PTL

(* A session is allowed at most 2 * rps calls in any second, by all         *)
(* replicas together, when no script runs after the second it counts.       *)
(* About: the counter of the unix second and count > rps.                   *)
THEOREM BurstsAreBounded == Spec => []BurstBounded
  <1>1. IInv => BurstBounded
    BY InvariantBounds
  <1> QED  BY <1>1, Invariant, PTL

(* A caller within its rate is never rejected, however late the scripts run. *)
(* About: EXPIRE on the first INCR of a counter.                            *)
THEOREM OnlyExcessIsRejected == Spec => []RejectsOnlyExcess
  <1>1. IInv => RejectsOnlyExcess
    BY DEF IInv
  <1> QED  BY <1>1, Invariant, PTL

(* Every counter in Valkey expires within a second.  About: INCR and EXPIRE *)
(* in one script, which no crash separates.                                 *)
THEOREM CountersExpire == Spec => []NoLeakedCounter
  <1>1. IInv => NoLeakedCounter
    BY InvariantBounds
  <1> QED  BY <1>1, Invariant, PTL

-----------------------------------------------------------------------------
(* The same promise as the token bucket's, as long as every script runs in    *)
(* the second it counts: what the late ones add is not bounded by it.        *)
Promise == INSTANCE RateLimit WITH Limit <- 2 * RPS

OnTime == \A s \in Session : ~late[s]

(* A check allowed in the observed window had room there; after it, it is not  *)
(* counted.                                                                 *)
LEMMA AllowIsPromised ==
  ASSUME IInv, IInv', OnTime', NEW c \in Check, Allow(c)
  PROVE  [\E s \in Session : Promise!Allow(s)]_Promise!vars
  <1> DEFINE s == pending[c][1]
  <1>1. /\ s \in Session /\ UNCHANGED <<now, from>>
        /\ admitted' = [admitted EXCEPT ![s] = IF now - from[s] < Second THEN @ + 1 ELSE @]
    BY KeyOfCheck DEF Allow, IInv
  <1>2. /\ now \in Nat /\ from[s] \in Nat /\ admitted[s] \in Nat /\ RPS \in Nat
        /\ Second \in Nat /\ admitted \in [Session -> Nat]
    BY <1>1, WindowAssumption DEF IInv, Types
  <1>3. CASE now - from[s] < Second
    <2>1. admitted' = [admitted EXCEPT ![s] = @ + 1] /\ admitted'[s] = admitted[s] + 1
      BY <1>1, <1>2, <1>3
    <2>2. admitted'[s] <= 2 * RPS
      <3>1. now' - from'[s] < Second /\ ~late'[s]
        BY <1>1, <1>3 DEF OnTime
      <3>2. admitted'[s] <= RPS \/ admitted'[s] <= 2 * RPS
        BY <1>1, <3>1 DEF IInv, AdmittedInv
      <3> QED  BY <1>2, <2>1, <3>2
    <2>3. admitted[s] < 2 * RPS
      BY <1>2, <2>1, <2>2
    <2>4. Promise!Allow(s)
      <3>1. UNCHANGED <<now, from>>
        BY <1>1
      <3> HIDE DEF s
      <3> QED  BY <2>1, <2>3, <3>1 DEF Promise!Allow
    <2> QED  BY <1>1, <2>4
  <1>4. CASE ~(now - from[s] < Second)
    BY <1>1, <1>2, <1>4 DEF Promise!vars
  <1> QED  BY <1>3, <1>4

(* The Valkey limiter implements RateLimit with twice the rate, for any number *)
(* of replicas and checks.  About: the counters of two unix seconds that a   *)
(* window of a second overlaps.                                             *)
THEOREM OnTimeImplementsPromise == Spec /\ []OnTime => Promise!Spec
  <1>1. Init => Promise!Init
    BY DEF Init, Promise!Init
  <1>2. IInv /\ IInv' /\ OnTime' /\ [Next]_vars => [Promise!Next]_Promise!vars
    <2> SUFFICES ASSUME IInv, IInv', OnTime', [Next]_vars
                 PROVE  [Promise!Next]_Promise!vars
      OBVIOUS
    <2>1. CASE Tick
      BY <2>1 DEF Tick, IInv, Types, Promise!Next, Promise!Tick
    <2>2. ASSUME NEW s \in Session, Observe(s)
          PROVE  Promise!Next
      BY <2>2 DEF Observe, Promise!Next, Promise!Observe
    <2>3. ASSUME NEW s \in Session, NEW c \in Check, ReadClock(c, s)
          PROVE  UNCHANGED Promise!vars
      BY <2>3 DEF ReadClock, Promise!vars
    <2>4. ASSUME NEW c \in Check, Allow(c)
          PROVE  [Promise!Next]_Promise!vars
      BY <2>4, AllowIsPromised DEF Promise!Next
    <2>5. ASSUME NEW c \in Check, Reject(c) \/ Fail(c)
          PROVE  UNCHANGED Promise!vars
      BY <2>5 DEF Reject, Fail, Promise!vars
    <2>6. CASE UNCHANGED vars
      BY <2>6 DEF vars, Promise!vars
    <2> QED  BY <2>1, <2>2, <2>3, <2>4, <2>5, <2>6 DEF Next
  <1> QED  BY <1>1, <1>2, Invariant, PTL DEF Spec, Promise!Spec
=============================================================================
