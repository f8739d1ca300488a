----------------------------- MODULE TokenBucket -----------------------------
(***************************************************************************)
(* The in-memory rate limiter (internal/guardrails/guardrails.go), used    *)
(* when there is no Valkey.  Tokens are counted in units of 1/Second       *)
(* token, so the refill of elapsed * rps tokens is exact.  An observer     *)
(* picks any moment from[s] and counts what is allowed afterwards.         *)
(***************************************************************************)
EXTENDS Integers

CONSTANTS
    Session,   \* MCP session ids
    RPS,       \* cfg.RateLimitRPS
    Second,    \* clock ticks in a second
    MaxTime,   \* bound on the clock
    NoBucket   \* the session has no entry in rateLimiter.buckets

Bucket == [tokens : Nat, lastTime : Nat]

ASSUME BucketAssumption ==
    /\ RPS \in Nat
    /\ Second \in Nat \ {0}
    /\ MaxTime \in Nat
    /\ NoBucket \notin Bucket

VARIABLES
    now,       \* the monotonic clock
    buckets,   \* rateLimiter.buckets
    verdict,   \* what the check just made returned, "none" once time moves
    from,      \* observer: the start of the observed window
    admitted   \* observer: the checks allowed since from

vars == <<now, buckets, verdict, from, admitted>>

Full  == RPS * Second
Token == Second

(* What a bucket earns in a number of ticks, and what n calls cost. *)
Refill(ticks) == RPS * ticks
Cost(n)       == n * Token

(* Type invariant: above all, no bucket goes below zero tokens. *)
TypeOK ==
    /\ now \in Nat
    /\ buckets \in [Session -> Bucket \cup {NoBucket}]
    /\ verdict \in [Session -> {"none", "allowed", "limited"}]
    /\ from \in [Session -> Nat]
    /\ admitted \in [Session -> Nat]

Init ==
    /\ now = 0
    /\ buckets = [s \in Session |-> NoBucket]
    /\ verdict = [s \in Session |-> "none"]
    /\ from = [s \in Session |-> 0]
    /\ admitted = [s \in Session |-> 0]

(* Faulty: the refill is not capped. *)
RefilledUncapped(s) ==
    IF buckets[s] = NoBucket THEN Full
    ELSE buckets[s].tokens + Refill(now - buckets[s].lastTime)

(* Faulty: a new bucket is empty. *)
RefilledFromEmpty(s) ==
    IF buckets[s] = NoBucket THEN 0
    ELSE LET t == buckets[s].tokens + Refill(now - buckets[s].lastTime)
         IN  IF t > Full THEN Full ELSE t

(* The tokens after the refill, capped: a session without a bucket starts  *)
(* with a full one.                                                        *)
Refilled(s) ==
    IF buckets[s] = NoBucket THEN Full
    ELSE LET t == buckets[s].tokens + Refill(now - buckets[s].lastTime)
         IN  IF t > Full THEN Full ELSE t

(* Faulty: a token is taken whether there is one or not. *)
AllowUnpaid(s) ==
    /\ buckets' = [buckets EXCEPT ![s] =
                      [tokens |-> Refilled(s) - Token, lastTime |-> now]]
    /\ verdict' = [verdict EXCEPT ![s] = "allowed"]
    /\ admitted' = [admitted EXCEPT ![s] = @ + 1]
    /\ UNCHANGED <<now, from>>

(* check, under the limiter's mutex: allowed and paid for, or rejected.     *)
Allow(s) ==
    /\ Refilled(s) >= Token
    /\ buckets' = [buckets EXCEPT ![s] =
                      [tokens |-> Refilled(s) - Token, lastTime |-> now]]
    /\ verdict' = [verdict EXCEPT ![s] = "allowed"]
    /\ admitted' = [admitted EXCEPT ![s] = @ + 1]
    /\ UNCHANGED <<now, from>>

Reject(s) ==
    /\ Refilled(s) < Token
    /\ buckets' = [buckets EXCEPT ![s] = [tokens |-> Refilled(s), lastTime |-> now]]
    /\ verdict' = [verdict EXCEPT ![s] = "limited"]
    /\ UNCHANGED <<now, from, admitted>>

Tick ==
    /\ now < MaxTime
    /\ now' = now + 1
    /\ verdict' = [s \in Session |-> "none"]
    /\ UNCHANGED <<buckets, from, admitted>>

Observe(s) ==
    /\ from' = [from EXCEPT ![s] = now]
    /\ admitted' = [admitted EXCEPT ![s] = 0]
    /\ verdict' = [verdict EXCEPT ![s] = "none"]
    /\ UNCHANGED <<now, buckets>>

Next == Tick \/ \E s \in Session : Allow(s) \/ Reject(s) \/ Observe(s)

Spec == Init /\ [][Next]_vars

-----------------------------------------------------------------------------
(* A bucket is a full burst and a second of refill at the most.  About: the *)
(* refill, its cap and the new bucket in rateLimiter.check.                *)
Promise == INSTANCE RateLimit WITH Limit <- 2 * RPS
BurstBounded == Promise!Spec

(* A check is rejected only when rps calls of its session were allowed in   *)
(* the second before it.  About: the same refill, from the other side.     *)
RejectsOnlyExcess ==
    \A s \in Session : verdict[s] = "limited" /\ now - from[s] >= Second
        => admitted[s] >= RPS

-----------------------------------------------------------------------------
(* The inductive invariant: the tokens left and the calls allowed since     *)
(* from[s] are between what the bucket can have earned in the meantime.     *)
Earned(s) == Refill(buckets[s].lastTime - from[s])

BucketInv ==
    \A s \in Session :
        /\ from[s] <= now
        /\ buckets[s] = NoBucket => admitted[s] = 0
        /\ buckets[s] # NoBucket =>
               /\ buckets[s].lastTime <= now
               /\ buckets[s].tokens <= Full
               /\ buckets[s].lastTime < from[s] => admitted[s] = 0
               /\ buckets[s].lastTime >= from[s] =>
                      /\ Cost(admitted[s]) + buckets[s].tokens <= Full + Earned(s)
                      /\ \/ Cost(admitted[s]) + buckets[s].tokens >= Full
                         \/ Cost(admitted[s]) + buckets[s].tokens >= Earned(s)

VerdictInv ==
    \A s \in Session : verdict[s] = "limited" =>
        /\ buckets[s] # NoBucket
        /\ buckets[s].tokens < Token
        /\ buckets[s].lastTime = now

IInv == TypeOK /\ BucketInv /\ VerdictInv
=============================================================================
