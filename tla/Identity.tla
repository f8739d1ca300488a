------------------------------- MODULE Identity -------------------------------
(***************************************************************************)
(* Users as a whole: the bootstrap of every replica (Bootstrap) and the     *)
(* admin API of the replicas that serve (AdminUsers), over one Dex and one  *)
(* PostgreSQL.  Users are made and deleted, the last one too, while         *)
(* replicas start, die and start again.                                     *)
(***************************************************************************)
EXTENDS Bootstrap

VARIABLES
    req,       \* AdminUsers: the next call or the answer of each request
    user,      \* AdminUsers: the username of each request
    unmapped,  \* AdminUsers: the user had no mapping when the request began
    disturbed, \* AdminUsers: something else touched the user since then
    faulty,    \* AdminUsers: a call of the request failed, or its process died
    at,        \* the replica that runs each request
    removed    \* history: DeleteUser has removed a mapping

A == INSTANCE AdminUsers WITH pc <- req

requests == <<req, user, unmapped, disturbed, faulty>>
ivars    == <<vars, requests, at, removed>>

(* Type invariant: the variables of both parts, and every request that runs   *)
(* has its replica.                                                          *)
IdentityTypeOK ==
    /\ TypeOK
    /\ A!TypeOK
    /\ at \in [Request -> Replica \cup {Nobody}]
    /\ \A r \in Request : req[r] \in A!Calls => at[r] # Nobody
    /\ removed \in BOOLEAN

IdentityInit ==
    /\ Init
    /\ A!Init
    /\ at = [r \in Request |-> Nobody]
    /\ removed = FALSE

-----------------------------------------------------------------------------
Serving(p) == pc[p] = "serving"

(* What a start writes, the requests for the admin meet. *)
DisturbAdmin ==
    disturbed' = [r \in Request |->
        disturbed[r] \/ (stores' # stores /\ user[r] = Admin /\ req[r] # "idle")]

(* A replica starts: one call of run and bootstrapAdmin. *)
Start(p) ==
    /\ Step(p)
    /\ DisturbAdmin
    /\ UNCHANGED <<req, user, unmapped, faulty, at, removed>>

(* A replica dies, or one of its starting calls fails; the requests it runs   *)
(* get no further.                                                           *)
Die(p) ==
    /\ Fault(p)
    /\ DisturbAdmin
    /\ LET dead == {r \in Request : at[r] = p /\ req[r] \in A!Calls}
       IN  /\ req' = [r \in Request |-> IF r \in dead THEN "failed" ELSE req[r]]
           /\ faulty' = [r \in Request |-> faulty[r] \/ r \in dead]
    /\ UNCHANGED <<user, unmapped, at, removed>>

(* A request begins at a replica that serves, which /admin/users needs. *)
Accept(r) ==
    /\ \E p \in Replica : Serving(p) /\ at' = [at EXCEPT ![r] = p]
    /\ A!Begin(r) \/ A!Refuse(r)
    /\ UNCHANGED <<pc, faults, removed>>

Handle(r) ==
    /\ A!Create(r) \/ A!Delete(r) \/ A!Recreate(r) \/ A!Insert(r) \/ A!Fault(r)
    /\ UNCHANGED <<pc, faults, at, removed>>

Remove(u) ==
    /\ \E p \in Replica : Serving(p)
    /\ A!DeleteUser(u)
    /\ removed' = TRUE
    /\ UNCHANGED <<pc, faults, at>>

IdentityDone ==
    /\ \A p \in Replica : Serving(p)
    /\ \A r \in Request : req[r] \in A!Answers
    /\ UNCHANGED ivars

IdentityNext ==
    \/ \E p \in Replica : Start(p) \/ Die(p)
    \/ \E r \in Request : Accept(r) \/ Handle(r)
    \/ \E u \in User : Remove(u)
    \/ IdentityDone

(* Kubernetes starts again what has exited, and every call of a start ends.   *)
(* Requests, deletions and faults need not happen.                           *)
IdentitySpec ==
    /\ IdentityInit
    /\ [][IdentityNext]_ivars
    /\ \A p \in Replica : WF_ivars(Start(p))

-----------------------------------------------------------------------------
(* CreateUser for a user without a mapping succeeds when it runs alone,       *)
(* whatever earlier faults, deletions, overlaps and starts left in Dex.       *)
(* About: the delete-and-recreate branch of CreateUser.                       *)
RetryRepairs == A!RetryRepairs

(* A created user that nobody touched, a bootstrap included, has password and *)
(* mapping of one request.  About: the order of the two stores in CreateUser. *)
CreatedIsWhole == A!CreatedIsWhole

(* A request that failed though it ran alone found the user mapped, and has    *)
(* put its own password in Dex all the same: the answer is 500 and the user's  *)
(* old password no longer logs in.  About: CreateUser for an existing user.    *)
FailureReplacesPassword ==
    \A r \in Request : req[r] = "failed" /\ A!Alone(r) =>
        /\ HasMapping(user[r]) /\ mapping[user[r]] # r
        /\ dex[user[r]] = r

(* Overlapping requests and starts alone never lock a mapped user out.        *)
(* About: CreateUser and bootstrapAdmin making and deleting one password.     *)
NoLockout == A!NoLockout

(* Behind a serving replica there is an admin who can log in, password and     *)
(* mapping from one start, as long as no request is about the admin and no    *)
(* user was deleted.  About: starts that have all seen an empty table, and     *)
(* starts that find the users an earlier one has made possible.               *)
AdminCanLogIn ==
    (/\ \E p \in Replica : Serving(p)
     /\ ~removed
     /\ \A r \in Request : user[r] = Admin => req[r] = "idle")
    => HasPassword(Admin) /\ HasMapping(Admin) /\ dex[Admin] = mapping[Admin]

NobodyMapped == \A u \in User : ~HasMapping(u)

(* No user is mapped, the admin's password is in Dex, and no replica serves or *)
(* is about to insert the mapping.                                            *)
Stuck ==
    /\ NobodyMapped
    /\ HasPassword(Admin)
    /\ \A p \in Replica : pc[p] \notin {"insert", "serving"}

(* The servers get stuck only through a start that failed, or the deletion of  *)
(* the last user: never through starts that race.  About: bootstrapAdmin       *)
(* taking "already exists" for an error, when another start is to insert.      *)
StuckOnlyByFault == Stuck => faults > 0 \/ removed

(* What is stuck stays so: no start, no failure of one and no request leads    *)
(* out, though every replica starts again and again.  About: bootstrapAdmin    *)
(* creating the password before the mapping, and the admin API needing a       *)
(* server that has started.                                                   *)
StuckStays == [][Stuck => Stuck']_ivars

(* Whatever was created, deleted and killed, in the end all replicas serve,    *)
(* unless the table of users stays empty with the admin's password left in     *)
(* Dex: a start that died between its writes, or the deletion of the last      *)
(* user.  About: bootstrapAdmin being a no-op when any user exists, and what   *)
(* a start makes of each other state of the two stores.                        *)
StartsOrStuck ==
    \/ <>[](\A p \in Replica : Serving(p))
    \/ <>[](HasPassword(Admin) /\ NobodyMapped /\ (faults > 0 \/ removed))
-----------------------------------------------------------------------------
(* The inductive invariant of the proofs, in parts. *)

(* A request that runs alone knows what its own calls left in the stores. *)
AloneInv ==
    \A r \in Request : req[r] \in A!Calls /\ A!Alone(r) =>
        /\ unmapped[r] => ~HasMapping(user[r])
        /\ req[r] = "delete" => HasPassword(user[r])
        /\ req[r] = "recreate" => ~HasPassword(user[r])
        /\ req[r] = "insert" => dex[user[r]] = r

(* A request has written no mapping before it is answered, and its replica     *)
(* serves while it runs.                                                      *)
RunningInv ==
    \A r \in Request :
        /\ req[r] \in {"idle"} \cup A!Calls => mapping[user[r]] # r
        /\ req[r] \in A!Calls => at[r] \in Replica /\ Serving(at[r])

(* A mapping is there or about to be made. *)
Expected(u) ==
    \/ HasMapping(u)
    \/ \E r \in Request : user[r] = u /\ req[r] = "insert"
    \/ u = Admin /\ \E p \in Replica : pc[p] = "insert"

(* Only who will make it again, or has failed, has taken its password away. *)
PasswordInv ==
    \A u \in User : Expected(u) /\ ~HasPassword(u) =>
        \E r \in Request : user[r] = u /\ (req[r] = "recreate" \/ faulty[r])

(* While only starts have touched the admin: the password is that of the one    *)
(* start that may insert the mapping, and everything else waits for that.      *)
AdminInv ==
    ~removed /\ (\A r \in Request : user[r] = Admin => req[r] = "idle") =>
        /\ \A p \in Replica : pc[p] = "insert" => dex[Admin] = p
        /\ HasMapping(Admin) => dex[Admin] = mapping[Admin]
        /\ ~HasMapping(Admin) =>
              /\ \A p \in Replica : ~Serving(p)
              /\ \A r \in Request : req[r] = "idle"
              /\ \A u \in User : ~HasMapping(u)

(* Before the first mapping nothing runs but starts, and while none of them    *)
(* has failed, the one whose password is in Dex is about to insert.            *)
FreshInv ==
    NobodyMapped /\ ~removed =>
        /\ \A r \in Request : req[r] = "idle"
        /\ \A p \in Replica : ~Serving(p)
        /\ HasPassword(Admin) /\ faults = 0 => \E p \in Replica : pc[p] = "insert"

IInv ==
    /\ IdentityTypeOK /\ AloneInv /\ RunningInv /\ PasswordInv /\ AdminInv /\ FreshInv
    /\ RetryRepairs /\ CreatedIsWhole /\ FailureReplacesPassword
=============================================================================
