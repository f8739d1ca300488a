------------------------------ MODULE RateLimit ------------------------------
(***************************************************************************)
(* What a rate limiter promises each MCP session (guardrails.CheckRate):   *)
(* in any window of one second at most Limit of its tool calls are         *)
(* allowed.  The window is any one: from[s] is a moment picked freely, and *)
(* admitted[s] counts the calls of s allowed since then.                   *)
(***************************************************************************)
EXTENDS Integers

CONSTANTS
    Session,  \* MCP session ids
    Second,   \* clock ticks in a second
    Limit     \* calls allowed in a window of a second

VARIABLES now, from, admitted

vars == <<now, from, admitted>>

Init ==
    /\ now = 0
    /\ from = [s \in Session |-> 0]
    /\ admitted = [s \in Session |-> 0]

Tick ==
    /\ now' \in Nat /\ now' > now
    /\ UNCHANGED <<from, admitted>>

Observe(s) ==
    /\ from' = [from EXCEPT ![s] = now]
    /\ admitted' = [admitted EXCEPT ![s] = 0]
    /\ UNCHANGED now

(* The window that opened at from[s] is over, or has room. *)
Allow(s) ==
    /\ now - from[s] >= Second \/ admitted[s] < Limit
    /\ admitted' = [admitted EXCEPT ![s] = @ + 1]
    /\ UNCHANGED <<now, from>>

Next == Tick \/ \E s \in Session : Observe(s) \/ Allow(s)

Spec == Init /\ [][Next]_vars
=============================================================================
