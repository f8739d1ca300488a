---------------------------- MODULE WindowLimiter ----------------------------
(***************************************************************************)
(* The Valkey rate limiter (internal/guardrails/valkey_ratelimiter.go),    *)
(* shared by all replicas.  A check reads the wall clock, then runs the    *)
(* script on the counter of that unix second; in between the request may   *)
(* be delayed.  An observer picks any moment from[s] and counts afterwards.*)
(***************************************************************************)
EXTENDS Integers

CONSTANTS
    Session,   \* MCP session ids
    Check,     \* goroutines that run checks, on any replica
    RPS,       \* cfg.RateLimitRPS
    Second,    \* clock ticks in a second
    MaxDelay,  \* bound, in ticks, between reading the clock and the script
    MaxTime    \* bound on the clock

ASSUME WindowAssumption ==
    /\ RPS \in Nat
    /\ Second \in Nat \ {0}
    /\ MaxDelay \in Nat
    /\ MaxTime \in Nat

UnixSecond == 0 .. (MaxTime \div Second)
CounterKey == Session \X UnixSecond

VARIABLES
    now,       \* the wall clock, the same for Valkey and the replicas
    count,     \* the counters in Valkey
    expires,   \* when the EXPIRE of each counter runs out
    pending,   \* the counter key a check has computed, or Idle
    since,     \* when it computed the key
    verdict,   \* what the checks of a session returned last, "none" once time moves
    from,      \* observer: the start of the observed window
    admitted,  \* observer: the checks allowed since from
    counted,   \* observer: the scripts run since from, also those whose reply was lost
    late       \* observer: a script has run since from when its second was over

vars == <<now, count, expires, pending, since, verdict,
          from, admitted, counted, late>>

Idle == <<>>

Types ==
    /\ now \in Nat
    /\ count \in [CounterKey -> Nat]
    /\ expires \in [CounterKey -> Nat]
    /\ pending \in [Check -> CounterKey \cup {Idle}]
    /\ since \in [Check -> Nat]
    /\ verdict \in [Session -> {"none", "allowed", "limited", "error"}]
    /\ from \in [Session -> Nat]
    /\ admitted \in [Session -> Nat]
    /\ counted \in [Session -> Nat]
    /\ late \in [Session -> BOOLEAN]

(* The clock is within its bound, and keys are of seconds that have begun. *)
ClockInv ==
    /\ now <= MaxTime
    /\ \A c \in Check : pending[c] # Idle => pending[c][2] <= now \div Second

(* Type invariant: and no check has computed the key of a second that the     *)
(* clock has not reached.                                                    *)
TypeOK == Types /\ ClockInv

Init ==
    /\ now = 0
    /\ count = [k \in CounterKey |-> 0]
    /\ expires = [k \in CounterKey |-> 0]
    /\ pending = [c \in Check |-> Idle]
    /\ since = [c \in Check |-> 0]
    /\ verdict = [s \in Session |-> "none"]
    /\ from = [s \in Session |-> 0]
    /\ admitted = [s \in Session |-> 0]
    /\ counted = [s \in Session |-> 0]
    /\ late = [s \in Session |-> FALSE]

-----------------------------------------------------------------------------
(* Faulty: the key of the second to come. *)
ReadClockAhead(c, s) ==
    /\ pending[c] = Idle
    /\ pending' = [pending EXCEPT ![c] = <<s, now \div Second + 1>>]
    /\ since' = [since EXCEPT ![c] = now]
    /\ UNCHANGED <<now, count, expires, verdict, from, admitted, counted, late>>

(* check: now := time.Now().Unix(), the key of this second. *)
ReadClock(c, s) ==
    /\ pending[c] = Idle
    /\ pending' = [pending EXCEPT ![c] = <<s, now \div Second>>]
    /\ since' = [since EXCEPT ![c] = now]
    /\ UNCHANGED <<now, count, expires, verdict, from, admitted, counted, late>>

(* INCR.  Counts above RPS + 1 are not told apart. *)
Incremented(k) == IF count[k] <= RPS THEN count[k] + 1 ELSE count[k]

(* Faulty: INCR without EXPIRE. *)
ScriptWithoutExpire(k) ==
    /\ count' = [count EXCEPT ![k] = Incremented(k)]
    /\ counted' = [counted EXCEPT ![k[1]] = IF @ <= RPS THEN @ + 1 ELSE @]
    /\ late' = [late EXCEPT ![k[1]] = @ \/ now \div Second > k[2]]
    /\ UNCHANGED expires

(* rateLimitScript, atomic in Valkey: INCR, and EXPIRE 1 on the first INCR. *)
Script(k) ==
    /\ count' = [count EXCEPT ![k] = Incremented(k)]
    /\ expires' = [expires EXCEPT ![k] = IF count[k] = 0 THEN now + Second ELSE @]
    /\ counted' = [counted EXCEPT ![k[1]] = IF @ <= RPS THEN @ + 1 ELSE @]
    /\ late' = [late EXCEPT ![k[1]] = @ \/ now \div Second > k[2]]

Return(c, v) ==
    /\ verdict' = [verdict EXCEPT ![pending[c][1]] = v]
    /\ pending' = [pending EXCEPT ![c] = Idle]
    /\ since' = [since EXCEPT ![c] = 0]

(* Faulty: the count before the INCR is compared with rps. *)
AllowOneMore(c) ==
    /\ pending[c] # Idle
    /\ Script(pending[c])
    /\ count[pending[c]] <= RPS
    /\ admitted' = [admitted EXCEPT ![pending[c][1]] =
                        IF now - from[pending[c][1]] < Second THEN @ + 1 ELSE @]
    /\ Return(c, "allowed")
    /\ UNCHANGED <<now, from>>

(* count <= rps: allowed. *)
Allow(c) ==
    /\ pending[c] # Idle
    /\ Script(pending[c])
    /\ Incremented(pending[c]) <= RPS
    /\ admitted' = [admitted EXCEPT ![pending[c][1]] =
                        IF now - from[pending[c][1]] < Second THEN @ + 1 ELSE @]
    /\ Return(c, "allowed")
    /\ UNCHANGED <<now, from>>

(* Faulty: >= for >. *)
RejectOneLess(c) ==
    /\ pending[c] # Idle
    /\ Script(pending[c])
    /\ Incremented(pending[c]) >= RPS
    /\ Return(c, "limited")
    /\ UNCHANGED <<now, from, admitted>>

(* count > rps: ErrRateLimit. *)
Reject(c) ==
    /\ pending[c] # Idle
    /\ Script(pending[c])
    /\ Incremented(pending[c]) > RPS
    /\ Return(c, "limited")
    /\ UNCHANGED <<now, from, admitted>>

(* Valkey is unreachable, or its reply is lost after the script has run:    *)
(* the check returns the backend error.                                    *)
Fail(c) ==
    /\ pending[c] # Idle
    /\ Script(pending[c]) \/ UNCHANGED <<count, expires, counted, late>>
    /\ Return(c, "error")
    /\ UNCHANGED <<now, from, admitted>>

Tick ==
    /\ now < MaxTime
    /\ \A c \in Check : pending[c] # Idle => now < since[c] + MaxDelay
    /\ now' = now + 1
    /\ count' = [k \in CounterKey |-> IF expires[k] <= now' THEN 0 ELSE count[k]]
    /\ expires' = [k \in CounterKey |-> IF expires[k] <= now' THEN 0 ELSE expires[k]]
    /\ verdict' = [s \in Session |-> "none"]
    /\ UNCHANGED <<pending, since, from, admitted, counted, late>>

Observe(s) ==
    /\ from' = [from EXCEPT ![s] = now]
    /\ admitted' = [admitted EXCEPT ![s] = 0]
    /\ counted' = [counted EXCEPT ![s] = 0]
    /\ late' = [late EXCEPT ![s] = FALSE]
    /\ verdict' = [verdict EXCEPT ![s] = "none"]
    /\ UNCHANGED <<now, count, expires, pending, since>>

Next ==
    \/ Tick
    \/ \E s \in Session : Observe(s) \/ \E c \in Check : ReadClock(c, s)
    \/ \E c \in Check : Allow(c) \/ Reject(c) \/ Fail(c)

Spec == Init /\ [][Next]_vars

-----------------------------------------------------------------------------
(* In any window of a second at most 2 * rps calls of a session are allowed, *)
(* on all replicas together, as long as no script of the window runs after  *)
(* the second it counts.  About: the key of the unix second and its expiry. *)
BurstBounded ==
    \A s \in Session : now - from[s] < Second /\ ~late[s]
        => admitted[s] <= 2 * RPS

(* A check is rejected only when rps other scripts of its session ran in    *)
(* the second before it, however late they ran.  About: EXPIRE 1 on the     *)
(* first INCR, so that a counter never adds up more than a second.          *)
RejectsOnlyExcess ==
    \A s \in Session : verdict[s] = "limited" /\ now - from[s] >= Second
        => counted[s] > RPS

(* No counter stays in Valkey without an expiry, whatever happens to the    *)
(* process that incremented it.  About: INCR and EXPIRE in one script.      *)
NoLeakedCounter ==
    \A k \in CounterKey : count[k] > 0 => expires[k] \in (now + 1) .. (now + Second)
-----------------------------------------------------------------------------
(* The inductive invariant of the proofs, in parts. *)

(* A counter outlives the second it counts. *)
ExpiryInv ==
    \A k \in CounterKey : count[k] > 0 =>
        /\ expires[k] > now
        /\ expires[k] <= now + Second
        /\ expires[k] >= Second * (k[2] + 1)

(* A counter begun after the observed moment has only what was counted since. *)
CountInv ==
    /\ \A k \in CounterKey :
          /\ count[k] <= RPS + 1
          /\ expires[k] > from[k[1]] + Second => count[k] <= counted[k[1]]
    /\ \A s \in Session : counted[s] <= RPS + 1

(* What was allowed since the observed moment, in its second and the next one. *)
AdmittedInv ==
    \A s \in Session :
        /\ from[s] <= now
        /\ now - from[s] < Second /\ ~late[s] =>
              IF now \div Second = from[s] \div Second
              THEN admitted[s] <= RPS /\ admitted[s] <= count[<<s, now \div Second>>]
              ELSE /\ admitted[s] <= 2 * RPS
                   /\ admitted[s] <= RPS + count[<<s, now \div Second>>]

IInv ==
    Types /\ ClockInv /\ ExpiryInv /\ CountInv /\ AdmittedInv /\ RejectsOnlyExcess
=============================================================================
