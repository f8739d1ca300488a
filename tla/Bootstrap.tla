------------------------------ MODULE Bootstrap ------------------------------
(***************************************************************************)
(* The start of the server up to its first admin user (run and             *)
(* bootstrapAdmin in cmd/odoo-mcp/main.go).  All replicas share Dex and     *)
(* PostgreSQL, run the same calls in any interleaving, and an error ends    *)
(* the process; Kubernetes then starts it again.                            *)
(***************************************************************************)
EXTENDS IdentityStores, Integers

CONSTANTS
    Admin,     \* ADMIN_USERNAME
    MaxFaults  \* bound on the failed calls and killed processes

ASSUME BootstrapAssumption ==
    /\ Admin \in User
    /\ MaxFaults \in Nat

VARIABLES
    pc,     \* the next call of each replica's start, or "serving"
    faults  \* the faults so far

vars == <<dex, mapping, pc, faults>>

(* Type invariant: a replica is in its bootstrap or serves, there is no other end. *)
TypeOK ==
    /\ StoresTypeOK
    /\ pc \in [Replica -> {"connect", "list", "create", "insert", "serving"}]
    /\ faults \in 0 .. MaxFaults

Init ==
    /\ StoresInit
    /\ pc = [r \in Replica |-> "connect"]
    /\ faults = 0

-----------------------------------------------------------------------------
(* The process has exited, the next one begins by connecting to its stores. *)
Restart == "connect"

Calling(r, label) == pc[r] = label /\ UNCHANGED faults

Goto(r, label) == pc' = [pc EXCEPT ![r] = label]

(* PostgreSQL answers a ping; the Dex client does not connect yet. *)
Connect(r) ==
    /\ Calling(r, "connect")
    /\ Goto(r, "list")
    /\ UNCHANGED stores

(* Faulty: the bootstrap runs on every start. *)
ListIgnored(r) ==
    /\ Calling(r, "list")
    /\ Goto(r, "create")
    /\ UNCHANGED stores

(* ListMappings: with any user there the bootstrap is over. *)
List(r) ==
    /\ Calling(r, "list")
    /\ Goto(r, IF \E u \in User : HasMapping(u) THEN "serving" ELSE "create")
    /\ UNCHANGED stores

(* Faulty: "already exists" is taken for success. *)
CreateOrKeep(r) ==
    /\ Calling(r, "create")
    /\ \/ CreatePassword(Admin, r) /\ Goto(r, "insert")
       \/ PasswordExists(Admin) /\ Goto(r, "insert")

(* CreatePassword; "already exists" is an error and ends the process. *)
Create(r) ==
    /\ Calling(r, "create")
    /\ \/ CreatePassword(Admin, r) /\ Goto(r, "insert")
       \/ PasswordExists(Admin) /\ Goto(r, Restart)

(* Faulty: a row without credentials of Odoo is refused. *)
InsertRefused(r) ==
    /\ Calling(r, "insert")
    /\ Goto(r, Restart)
    /\ UNCHANGED stores

(* CreateMapping; a row of that user is an error and ends the process. *)
Insert(r) ==
    /\ Calling(r, "insert")
    /\ \/ CreateMapping(Admin, r) /\ Goto(r, "serving")
       \/ MappingExists(Admin) /\ Goto(r, Restart)

(* What the pending call of r does when it reaches its store. *)
Effect(r) ==
    \/ pc[r] = "create" /\ CreatePassword(Admin, r)
    \/ pc[r] = "insert" /\ CreateMapping(Admin, r)

(* A call fails, with or without effect, or the process is killed: main     *)
(* returns the error, and nothing is undone.                                *)
Fault(r) ==
    /\ faults < MaxFaults
    /\ faults' = faults + 1
    /\ Effect(r) \/ UNCHANGED stores
    /\ Goto(r, Restart)

Step(r) == Connect(r) \/ List(r) \/ Create(r) \/ Insert(r)

Done == (\A r \in Replica : pc[r] = "serving") /\ UNCHANGED vars

Next == Done \/ \E r \in Replica : Step(r) \/ Fault(r)

Spec == Init /\ [][Next]_vars

(* Kubernetes restarts every replica that has exited, and every call ends. *)
FairSpec == Spec /\ \A r \in Replica : WF_vars(Step(r))

-----------------------------------------------------------------------------
(* The replicas that lose the race get through: all of them end up serving. *)
(* About: bootstrapAdmin being a no-op when any user exists.                *)
AllServe == <>[](\A r \in Replica : pc[r] = "serving")
=============================================================================
