------------------------------ MODULE AdminUsers ------------------------------
(***************************************************************************)
(* The admin API for users (internal/admin/handler.go): concurrent         *)
(* CreateUser requests, on any replica, and DeleteUser.  CreateUser writes *)
(* Dex and PostgreSQL in separate calls, any of which may fail, with or    *)
(* without having taken effect, and the process may die between them.      *)
(***************************************************************************)
EXTENDS IdentityStores

VARIABLES
    pc,        \* the next call of each CreateUser request, or its answer
    user,      \* the username each request is for
    unmapped,  \* history: the user had no mapping when the request began
    disturbed, \* history: something else touched the user since it began
    faulty     \* history: one of its calls failed, or its process died

vars == <<dex, mapping, pc, user, unmapped, disturbed, faulty>>

Calls   == {"create", "delete", "recreate", "insert"}
Answers == {"refused", "created", "failed"}

(* Type invariant: every request is at one of its calls or has one of its answers. *)
TypeOK ==
    /\ StoresTypeOK
    /\ pc \in [Request -> {"idle"} \cup Calls \cup Answers]
    /\ user \in [Request -> User]
    /\ unmapped \in [Request -> BOOLEAN]
    /\ disturbed \in [Request -> BOOLEAN]
    /\ faulty \in [Request -> BOOLEAN]

Init ==
    /\ StoresInit
    /\ pc = [r \in Request |-> "idle"]
    /\ user \in [Request -> User]
    /\ unmapped = [r \in Request |-> FALSE]
    /\ disturbed = [r \in Request |-> FALSE]
    /\ faulty = [r \in Request |-> FALSE]

-----------------------------------------------------------------------------
Goto(r, label) == pc' = [pc EXCEPT ![r] = label]

(* A step on user u by r, or by nobody, disturbs all other requests for u. *)
Disturb(u, r) ==
    disturbed' = [q \in Request |->
        disturbed[q] \/ (q # r /\ user[q] = u /\ pc[q] # "idle")]

(* One call of r to a store, of which the rest of the request is told. *)
Calling(r, label) ==
    /\ pc[r] = label
    /\ Disturb(user[r], r)
    /\ UNCHANGED <<user, unmapped, faulty>>

(* The body and the API key are valid: on to the stores. *)
Begin(r) ==
    /\ pc[r] = "idle"
    /\ Goto(r, "create")
    /\ unmapped' = [unmapped EXCEPT ![r] = ~HasMapping(user[r])]
    /\ UNCHANGED <<dex, mapping, user, disturbed, faulty>>

(* 400 or 401: nothing has been written. *)
Refuse(r) ==
    /\ pc[r] = "idle"
    /\ Goto(r, "refused")
    /\ UNCHANGED <<dex, mapping, user, unmapped, disturbed, faulty>>

(* Faulty: "already exists" is an error like any other. *)
CreateOrFail(r) ==
    /\ Calling(r, "create")
    /\ \/ CreatePassword(user[r], r) /\ Goto(r, "insert")
       \/ PasswordExists(user[r]) /\ Goto(r, "failed")

(* Faulty: "already exists" is taken for success. *)
CreateOrKeep(r) ==
    /\ Calling(r, "create")
    /\ \/ CreatePassword(user[r], r) /\ Goto(r, "insert")
       \/ PasswordExists(user[r]) /\ Goto(r, "insert")

(* Step 3: CreatePassword; "already exists" leads to delete and recreate. *)
Create(r) ==
    /\ Calling(r, "create")
    /\ \/ CreatePassword(user[r], r) /\ Goto(r, "insert")
       \/ PasswordExists(user[r]) /\ Goto(r, "delete")

(* Faulty: the deleted password is not created again. *)
DeleteOnly(r) ==
    /\ Calling(r, "delete")
    /\ \/ DeletePassword(user[r]) /\ Goto(r, "insert")
       \/ PasswordNotFound(user[r]) /\ Goto(r, "failed")

(* DeletePassword, so that the user gets the fresh password. *)
Delete(r) ==
    /\ Calling(r, "delete")
    /\ \/ DeletePassword(user[r]) /\ Goto(r, "recreate")
       \/ PasswordNotFound(user[r]) /\ Goto(r, "failed")

(* Faulty: a second "already exists" is not answered. *)
RecreateUnanswered(r) ==
    /\ Calling(r, "recreate")
    /\ \/ CreatePassword(user[r], r) /\ Goto(r, "insert")
       \/ PasswordExists(user[r]) /\ Goto(r, "unanswered")

(* CreatePassword again; another request may have been faster. *)
Recreate(r) ==
    /\ Calling(r, "recreate")
    /\ \/ CreatePassword(user[r], r) /\ Goto(r, "insert")
       \/ PasswordExists(user[r]) /\ Goto(r, "failed")

(* Steps 4 to 6: CreateMapping, then 201; a row for the user means 500. *)
Insert(r) ==
    /\ Calling(r, "insert")
    /\ \/ CreateMapping(user[r], r) /\ Goto(r, "created")
       \/ MappingExists(user[r]) /\ Goto(r, "failed")

(* What the pending call of r does when it reaches its store. *)
Effect(r) ==
    \/ pc[r] \in {"create", "recreate"} /\ CreatePassword(user[r], r)
    \/ pc[r] = "delete" /\ DeletePassword(user[r])
    \/ pc[r] = "insert" /\ CreateMapping(user[r], r)

(* The call fails, or the process dies: 500 or no answer, nothing is undone. *)
(* Encrypt failing is the case of "insert" without effect.                  *)
Fault(r) ==
    /\ pc[r] \in Calls
    /\ Effect(r) \/ UNCHANGED stores
    /\ Goto(r, "failed")
    /\ faulty' = [faulty EXCEPT ![r] = TRUE]
    /\ Disturb(user[r], r)
    /\ UNCHANGED <<user, unmapped>>

(* DeleteUser: 204 when the row was there; 404 changes nothing. *)
DeleteUser(u) ==
    /\ DeleteMapping(u)
    /\ disturbed' = [q \in Request |-> disturbed[q] \/ (user[q] = u /\ pc[q] # "idle")]
    /\ UNCHANGED <<pc, user, unmapped, faulty>>

Done == (\A r \in Request : pc[r] \in Answers) /\ UNCHANGED vars

Next ==
    \/ \E r \in Request :
          \/ Begin(r) \/ Refuse(r) \/ Create(r) \/ Delete(r) \/ Recreate(r)
          \/ Insert(r) \/ Fault(r)
    \/ \E u \in User : DeleteUser(u)
    \/ Done

Spec == Init /\ [][Next]_vars

-----------------------------------------------------------------------------
(* Alone with its user: nobody touched the user and no call failed. *)
Alone(r) == ~disturbed[r] /\ ~faulty[r]

(* CreateUser for a user without a mapping succeeds when it runs alone,     *)
(* whatever password earlier faults, deletions and overlaps left in Dex:    *)
(* retrying repairs.  About: the delete-and-recreate branch of CreateUser.  *)
RetryRepairs ==
    \A r \in Request : pc[r] = "failed" /\ Alone(r) => ~unmapped[r]

(* A created user that nobody touched has the password and the mapping of   *)
(* the same request.  About: the order of the two stores in CreateUser.     *)
CreatedIsWhole ==
    \A r \in Request : pc[r] = "created" /\ Alone(r)
        => dex[user[r]] = r /\ mapping[user[r]] = r

(* Overlapping requests alone never lock a mapped user out: without a       *)
(* password in Dex there is a request about to recreate it, or a fault.     *)
(* About: two CreateUser for one user, both in delete and recreate.         *)
NoLockout ==
    \A u \in User : HasMapping(u) /\ ~HasPassword(u) =>
        \E r \in Request : user[r] = u /\ (pc[r] = "recreate" \/ faulty[r])

(* CreateUser for an existing user sets its fresh password and says so: a   *)
(* request that runs alone does not fail.                                  *)
ExistingUserUpdated ==
    \A r \in Request : pc[r] = "failed" => ~Alone(r)
=============================================================================
