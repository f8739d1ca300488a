---------------------------- MODULE ShutdownProofs ----------------------------
(***************************************************************************)
(* Proofs about Shutdown for any number of requests: what the end of the    *)
(* process spares, although main does not wait for Shutdown, and that       *)
(* waiting is all that is missing.                                          *)
(***************************************************************************)
EXTENDS Shutdown, TLAPS

Interrupted(r) == pc[r] \in {"failed", "cut"}

(* What every state says of the three goroutines: the pool is open until main  *)
(* returns; who returns before Shutdown is called never listened; after        *)
(* Shutdown has seen the last request no new one comes.                       *)
EndInv ==
    /\ drain # "waiting" => signalled
    /\ ~store => main \in {"returned", "exited"}
    /\ main = "exited" => ~store
    /\ main # "listening" /\ drain = "waiting" => \A r \in Request : pc[r] = "idle"
    /\ drain = "drained" => \A r \in Request : pc[r] \notin InFlight \cup {"cut"}
    /\ main = "exited" => \A r \in Request : pc[r] \notin InFlight
    /\ main # "exited" => \A r \in Request : pc[r] # "cut"
    /\ \A r \in Request : Interrupted(r) => ~store

IInv == TypeOK /\ EndInv

(* No request is turned away or cut off by the end of the process unless it was *)
(* told to end, and none that was accepted before is if Shutdown had the time   *)
(* to see the last of them answered.                                           *)
OnlyTheEndInterrupts ==
    /\ (\E r \in Request : Interrupted(r)) => signalled
    /\ drain = "drained" => \A r \in Request : pc[r] # "cut"

(* What main would have to wait for: the pool is not closed during Shutdown. *)
MainWaits == ~store => drain # "draining"

(* "Graceful shutdown", and more: no request is interrupted, not even with an    *)
(* error, unless Shutdown ran out of time.                                     *)
InterruptedOnlyIfLate == (\E r \in Request : Interrupted(r)) => drain = "expired"

-----------------------------------------------------------------------------
LEMMA InvariantInit ==
    ASSUME Init
    PROVE  IInv
BY DEF Init, IInv, TypeOK, EndInv, Interrupted, InFlight

LEMMA InvariantStep ==
    ASSUME IInv, [Next]_vars
    PROVE  IInv'
<1> USE DEF IInv, TypeOK, EndInv, Interrupted, InFlight
<1>1. ASSUME NEW r \in Request, Accept(r)
      PROVE  IInv'
  BY <1>1 DEF Accept
<1>2. ASSUME NEW r \in Request, Lookup(r)
      PROVE  IInv'
  BY <1>2 DEF Lookup
<1>3. ASSUME NEW r \in Request, Answer(r)
      PROVE  IInv'
  BY <1>3 DEF Answer
<1>4. CASE Signal
  BY <1>4 DEF Signal
<1>5. CASE BeginShutdown
  BY <1>5 DEF BeginShutdown
<1>6. CASE EndShutdown
  BY <1>6 DEF EndShutdown
<1>7. CASE Listen
  BY <1>7 DEF Listen
<1>8. CASE Return
  BY <1>8 DEF Return
<1>9. CASE Close
  BY <1>9 DEF Close
<1>10. CASE Exit
  BY <1>10 DEF Exit
<1>11. CASE UNCHANGED vars
  BY <1>11 DEF vars
<1> QED
  BY <1>1, <1>2, <1>3, <1>4, <1>5, <1>6, <1>7, <1>8, <1>9, <1>10, <1>11 DEF Next

(* The inductive invariant, for any number of requests. *)
THEOREM Invariant == Spec => []IInv
<1>1. Init => IInv
  BY InvariantInit
<1>2. IInv /\ [Next]_vars => IInv'
  BY InvariantStep
<1> QED
  BY <1>1, <1>2, PTL DEF Spec

(* Type correctness of the shutdown. *)
THEOREM TypeCorrect == Spec => []TypeOK
BY Invariant, PTL DEF IInv

(* Although main does not wait for Shutdown, only a process told to end          *)
(* interrupts requests, and none is cut off once Shutdown has seen them all.    *)
THEOREM OnlyTheEndDoes == Spec => []OnlyTheEndInterrupts
<1>1. IInv => OnlyTheEndInterrupts
  <2> SUFFICES ASSUME IInv
               PROVE  OnlyTheEndInterrupts
    OBVIOUS
  <2>1. ASSUME NEW r \in Request, Interrupted(r)
        PROVE  signalled
    <3>1. ~store /\ main # "listening"
      BY <2>1 DEF IInv, EndInv
    <3>2. drain # "waiting"
      BY <2>1, <3>1 DEF IInv, EndInv, Interrupted
    <3> QED
      BY <3>2 DEF IInv, EndInv
  <2> QED
    BY <2>1 DEF IInv, EndInv, OnlyTheEndInterrupts
<1> QED
  BY <1>1, Invariant, PTL

(* Waiting is all that is missing: in the behaviours in which main happens not   *)
(* to close the pool while Shutdown is under way, requests are interrupted only *)
(* if Shutdown ran out of time, so that RequestsAreDrained, which the code      *)
(* violates, holds.                                                           *)
THEOREM WaitingWouldDrain ==
    Spec /\ []MainWaits => [](RequestsAreDrained /\ InterruptedOnlyIfLate)
<1>1. Init => InterruptedOnlyIfLate
  BY DEF Init, Interrupted, InterruptedOnlyIfLate
<1>2. IInv /\ MainWaits /\ InterruptedOnlyIfLate /\ [Next]_vars => InterruptedOnlyIfLate'
  <2> SUFFICES ASSUME IInv, MainWaits, InterruptedOnlyIfLate, [Next]_vars,
                      NEW r \in Request, Interrupted(r)'
               PROVE  drain' = "expired"
    BY DEF InterruptedOnlyIfLate
  <2>1. CASE Interrupted(r)
    <3>1. drain = "expired"
      BY <2>1 DEF InterruptedOnlyIfLate
    <3> QED
      BY <3>1 DEF Next, vars, Accept, Lookup, Answer, Signal, BeginShutdown, EndShutdown,
         Listen, Return, Close, Exit
  <2>2. CASE ~Interrupted(r)
    <3>1. UNCHANGED drain /\ pc[r] \in InFlight /\ ~store
      <4>1. ASSUME NEW q \in Request, Lookup(q)
            PROVE  UNCHANGED drain /\ pc[r] \in InFlight /\ ~store
        BY <2>2, <4>1 DEF Lookup, IInv, TypeOK, Interrupted, InFlight
      <4>2. CASE Exit
        BY <2>2, <4>2 DEF Exit, Interrupted
      <4>3. ASSUME NEW q \in Request, Accept(q) \/ Answer(q)
            PROVE  FALSE
        BY <2>2, <4>3 DEF Accept, Answer, IInv, TypeOK, Interrupted
      <4>4. pc' # pc
        BY <2>2 DEF Interrupted
      <4> QED
        BY <4>1, <4>2, <4>3, <4>4 DEF Next, vars, Signal, BeginShutdown, EndShutdown,
           Listen, Return, Close
    <3>2. drain # "waiting" /\ drain # "drained"
      BY <3>1 DEF IInv, EndInv, InFlight
    <3> QED
      BY <3>1, <3>2 DEF IInv, TypeOK, MainWaits
  <2> QED
    BY <2>1, <2>2
<1>3. InterruptedOnlyIfLate => RequestsAreDrained
  BY DEF InterruptedOnlyIfLate, Interrupted, RequestsAreDrained
<1> QED
  BY <1>1, <1>2, <1>3, Invariant, PTL DEF Spec
=============================================================================
