------------------------------ MODULE Shutdown ------------------------------
(***************************************************************************)
(* The end of a server process (startHTTP and run in cmd/odoo-mcp/main.go): *)
(* the main goroutine in ListenAndServe, the goroutine that waits for the   *)
(* signal and calls Shutdown, and the goroutines of the requests.  The      *)
(* broker ends in the same way (cmd/mcpoauth/main.go).                      *)
(***************************************************************************)
CONSTANT Request  \* HTTP requests

VARIABLES
    main,      \* the main goroutine
    signalled, \* SIGINT or SIGTERM has arrived, ctx is done
    drain,     \* the goroutine that calls Shutdown
    store,     \* is the pool of PostgreSQL open?
    pc         \* where each request is

vars == <<main, signalled, drain, store, pc>>

InFlight == {"accepted", "working"}

(* Type invariant. *)
TypeOK ==
    /\ main \in {"starting", "listening", "returned", "exited"}
    /\ signalled \in BOOLEAN
    /\ drain \in {"waiting", "draining", "drained", "expired"}
    /\ store \in BOOLEAN
    /\ pc \in [Request -> {"idle", "answered", "failed", "cut"} \cup InFlight]

Init ==
    /\ main = "starting"
    /\ signalled = FALSE
    /\ drain = "waiting"
    /\ store = TRUE
    /\ pc = [r \in Request |-> "idle"]

-----------------------------------------------------------------------------
(* Requests. *)

Accept(r) ==
    /\ main = "listening" /\ drain = "waiting"
    /\ pc[r] = "idle"
    /\ pc' = [pc EXCEPT ![r] = "accepted"]
    /\ UNCHANGED <<main, signalled, drain, store>>

(* The lookup of the user, which fails with 500 once the pool is closed. *)
Lookup(r) ==
    /\ main # "exited"
    /\ pc[r] = "accepted"
    /\ pc' = [pc EXCEPT ![r] = IF store THEN "working" ELSE "failed"]
    /\ UNCHANGED <<main, signalled, drain, store>>

Answer(r) ==
    /\ main # "exited"
    /\ pc[r] = "working"
    /\ pc' = [pc EXCEPT ![r] = "answered"]
    /\ UNCHANGED <<main, signalled, drain, store>>

-----------------------------------------------------------------------------
(* The goroutine of Shutdown. *)

Signal ==
    /\ ~signalled
    /\ signalled' = TRUE
    /\ UNCHANGED <<main, drain, store, pc>>

(* Shutdown closes the listener first. *)
BeginShutdown ==
    /\ signalled
    /\ drain = "waiting"
    /\ main # "exited"
    /\ drain' = "draining"
    /\ UNCHANGED <<main, signalled, store, pc>>

(* It returns when no request is left, or after its 30 seconds. *)
EndShutdown ==
    /\ drain = "draining"
    /\ main # "exited"
    /\ \/ (\A r \in Request : pc[r] \notin InFlight) /\ drain' = "drained"
       \/ drain' = "expired"
    /\ UNCHANGED <<main, signalled, store, pc>>

-----------------------------------------------------------------------------
(* The main goroutine. *)

Listen ==
    /\ main = "starting"
    /\ main' = "listening"
    /\ UNCHANGED <<signalled, drain, store, pc>>

(* The address is in use, or Shutdown was called: ListenAndServe returns, in   *)
(* the latter case with ErrServerClosed and at once.                          *)
Return ==
    /\ main = "starting" \/ (main = "listening" /\ drain # "waiting")
    /\ main' = "returned"
    /\ UNCHANGED <<signalled, drain, store, pc>>

(* run returns, and its deferred calls close the clients and the pool. *)
Close ==
    /\ main = "returned"
    /\ store
    /\ store' = FALSE
    /\ UNCHANGED <<main, signalled, drain, pc>>

(* main returns: the process is over, with all its goroutines. *)
Exit ==
    /\ main = "returned"
    /\ ~store
    /\ main' = "exited"
    /\ pc' = [r \in Request |-> IF pc[r] \in InFlight THEN "cut" ELSE pc[r]]
    /\ UNCHANGED <<signalled, drain, store>>

Next ==
    \/ \E r \in Request : Accept(r) \/ Lookup(r) \/ Answer(r)
    \/ Signal \/ BeginShutdown \/ EndShutdown
    \/ Listen \/ Return \/ Close \/ Exit

Spec == Init /\ [][Next]_vars

-----------------------------------------------------------------------------
(* "Graceful shutdown": a request that was accepted is cut off by the end of   *)
(* the process only when the time given to Shutdown was not enough.           *)
RequestsAreDrained ==
    (\E r \in Request : pc[r] = "cut") => drain = "expired"
=============================================================================
