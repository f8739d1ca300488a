---------------------------- MODULE IdentityProofs ----------------------------
(***************************************************************************)
(* Proofs about Identity for any users, requests and replicas, and any      *)
(* bound on the faults: what the admin API and the bootstraps, over two     *)
(* stores without a transaction, never do to a user.                        *)
(***************************************************************************)
EXTENDS Identity, TLAPS

(* Calls and predicates of the stores, here and in the instance of AdminUsers. *)
USE DEF HasPassword, HasMapping, A!HasPassword, A!HasMapping, stores, A!stores

(* A call of a request to a store: what it does there, and where it leads. *)
Outcome(r) ==
    \/ /\ req[r] \in {"create", "recreate"} /\ ~HasPassword(user[r])
       /\ dex' = [dex EXCEPT ![user[r]] = r] /\ mapping' = mapping
       /\ req'[r] = "insert"
    \/ req[r] = "create" /\ HasPassword(user[r]) /\ UNCHANGED stores /\ req'[r] = "delete"
    \/ /\ req[r] = "delete" /\ HasPassword(user[r])
       /\ dex' = [dex EXCEPT ![user[r]] = Nobody] /\ mapping' = mapping
       /\ req'[r] = "recreate"
    \/ req[r] = "delete" /\ ~HasPassword(user[r]) /\ UNCHANGED stores /\ req'[r] = "failed"
    \/ req[r] = "recreate" /\ HasPassword(user[r]) /\ UNCHANGED stores /\ req'[r] = "failed"
    \/ /\ req[r] = "insert" /\ ~HasMapping(user[r])
       /\ mapping' = [mapping EXCEPT ![user[r]] = r] /\ dex' = dex
       /\ req'[r] = "created"
    \/ req[r] = "insert" /\ HasMapping(user[r]) /\ UNCHANGED stores /\ req'[r] = "failed"

(* A call that fails, with or without its effect. *)
Failure(r) ==
    /\ req[r] \in A!Calls
    /\ \/ UNCHANGED stores
       \/ /\ req[r] \in {"create", "recreate"} /\ ~HasPassword(user[r])
          /\ dex' = [dex EXCEPT ![user[r]] = r] /\ mapping' = mapping
       \/ /\ req[r] = "delete" /\ HasPassword(user[r])
          /\ dex' = [dex EXCEPT ![user[r]] = Nobody] /\ mapping' = mapping
       \/ /\ req[r] = "insert" /\ ~HasMapping(user[r])
          /\ mapping' = [mapping EXCEPT ![user[r]] = r] /\ dex' = dex
    /\ req'[r] = "failed"

LEMMA HandleOutcome ==
    ASSUME IdentityTypeOK, NEW r \in Request, Handle(r)
    PROVE  /\ req[r] \in A!Calls
           /\ req' = [req EXCEPT ![r] = req'[r]]
           /\ A!Disturb(user[r], r)
           /\ UNCHANGED <<user, unmapped, pc, faults, at, removed>>
           /\ \/ Outcome(r) /\ UNCHANGED faulty
              \/ Failure(r) /\ faulty' = [faulty EXCEPT ![r] = TRUE]
<1>0. req \in [Request -> {"idle"} \cup A!Calls \cup A!Answers]
  BY DEF IdentityTypeOK, A!TypeOK
<1>1. CASE A!Create(r)
  BY <1>0, <1>1 DEF Handle, A!Create, A!Calling, A!CreatePassword, A!PasswordExists, A!Goto,
     A!Calls, Outcome
<1>2. CASE A!Delete(r)
  BY <1>0, <1>2 DEF Handle, A!Delete, A!Calling, A!DeletePassword, A!PasswordNotFound, A!Goto,
     A!Calls, Outcome
<1>3. CASE A!Recreate(r)
  BY <1>0, <1>3 DEF Handle, A!Recreate, A!Calling, A!CreatePassword, A!PasswordExists, A!Goto,
     A!Calls, Outcome
<1>4. CASE A!Insert(r)
  BY <1>0, <1>4 DEF Handle, A!Insert, A!Calling, A!CreateMapping, A!MappingExists, A!Goto,
     A!Calls, Outcome
<1>5. CASE A!Fault(r)
  BY <1>0, <1>5 DEF Handle, A!Fault, A!Effect, A!CreatePassword, A!DeletePassword,
     A!CreateMapping, A!Goto, A!Calls, Failure
<1> QED
  BY <1>1, <1>2, <1>3, <1>4, <1>5 DEF Handle

(* A step of a replica's start, or its death: what it does to the stores. *)
LEMMA StartOutcome ==
    ASSUME IdentityTypeOK, NEW p \in Replica, Start(p) \/ Die(p)
    PROVE  /\ UNCHANGED <<user, unmapped, at, removed>>
           /\ DisturbAdmin
           /\ pc' = [pc EXCEPT ![p] = pc'[p]]
           /\ \/ UNCHANGED stores /\ pc'[p] # "insert"
              \/ /\ pc[p] = "create" /\ ~HasPassword(Admin)
                 /\ dex' = [dex EXCEPT ![Admin] = p] /\ mapping' = mapping
                 /\ pc'[p] \in {"insert", Restart}
              \/ /\ pc[p] = "insert" /\ ~HasMapping(Admin)
                 /\ mapping' = [mapping EXCEPT ![Admin] = p] /\ dex' = dex
                 /\ pc'[p] \in {"serving", Restart}
           /\ pc'[p] = "serving" => \E u \in User : mapping'[u] # Nobody
<1>0. pc \in [Replica -> {"connect", "list", "create", "insert", "serving"}]
      /\ mapping \in [User -> Author \cup {Nobody}] /\ p \in Author
  BY DEF IdentityTypeOK, TypeOK, StoresTypeOK, Author
<1>1. CASE Start(p)
  <2>1. CASE Connect(p)
    BY <1>0, <1>1, <2>1 DEF Start, Connect, Calling, Goto
  <2>2. CASE List(p)
    BY <1>0, <1>1, <2>2 DEF Start, List, Calling, Goto
  <2>3. CASE Create(p)
    BY <1>0, <1>1, <2>3 DEF Start, Create, Calling, Goto, CreatePassword, PasswordExists, Restart
  <2>4. CASE Insert(p)
    BY <1>0, <1>1, <2>4, StoresAssumption, BootstrapAssumption
       DEF Start, Insert, Calling, Goto, CreateMapping, MappingExists, Restart,
           StoresAssumption, BootstrapAssumption
  <2> QED
    BY <1>1, <2>1, <2>2, <2>3, <2>4 DEF Start, Step
<1>2. CASE Die(p)
  BY <1>0, <1>2 DEF Die, Fault, Effect, Goto, CreatePassword, CreateMapping, Restart
<1> QED
  BY <1>1, <1>2

-----------------------------------------------------------------------------
(* The types, in one place. *)
Types ==
    /\ dex \in [User -> Author \cup {Nobody}] /\ mapping \in [User -> Author \cup {Nobody}]
    /\ pc \in [Replica -> {"connect", "list", "create", "insert", "serving"}]
    /\ faults \in 0 .. MaxFaults
    /\ req \in [Request -> {"idle"} \cup A!Calls \cup A!Answers]
    /\ user \in [Request -> User] /\ unmapped \in [Request -> BOOLEAN]
    /\ disturbed \in [Request -> BOOLEAN] /\ faulty \in [Request -> BOOLEAN]
    /\ at \in [Request -> Replica \cup {Nobody}]
    /\ \A r \in Request : req[r] \in A!Calls => at[r] # Nobody
    /\ removed \in BOOLEAN

LEMMA TypesAreTypeOK == Types <=> IdentityTypeOK
BY DEF Types, IdentityTypeOK, TypeOK, StoresTypeOK, A!TypeOK, A!StoresTypeOK, Author, A!Author

(* Authors are somebody, and the admin is a user. *)
LEMMA Constants ==
    /\ Nobody \notin Author /\ Admin \in User /\ MaxFaults \in Nat
    /\ Request \subseteq Author /\ Replica \subseteq Author /\ Request \cap Replica = {}
    /\ Nobody \notin Replica
BY StoresAssumption, BootstrapAssumption DEF StoresAssumption, BootstrapAssumption, Author

LEMMA TypeInit ==
    ASSUME IdentityInit
    PROVE  IdentityTypeOK
<1>1. Types
  <2>1. /\ dex \in [User -> Author \cup {Nobody}] /\ mapping \in [User -> Author \cup {Nobody}]
        /\ pc \in [Replica -> {"connect", "list", "create", "insert", "serving"}]
        /\ faults \in 0 .. MaxFaults
    BY Constants DEF IdentityInit, Init, StoresInit
  <2>2. /\ user \in [Request -> User] /\ unmapped \in [Request -> BOOLEAN]
        /\ disturbed \in [Request -> BOOLEAN] /\ faulty \in [Request -> BOOLEAN]
        /\ req \in [Request -> {"idle"} \cup A!Calls \cup A!Answers]
        /\ \A r \in Request : req[r] \notin A!Calls
    BY DEF IdentityInit, A!Init, A!Calls
  <2>3. at \in [Request -> Replica \cup {Nobody}] /\ removed \in BOOLEAN
    BY DEF IdentityInit
  <2> QED
    BY <2>1, <2>2, <2>3 DEF Types
<1> QED
  BY <1>1, TypesAreTypeOK

LEMMA TypeStep ==
    ASSUME IdentityTypeOK, [IdentityNext]_ivars
    PROVE  IdentityTypeOK'
<1>0. Types
  BY TypesAreTypeOK
<1> SUFFICES Types'
  BY DEF Types, IdentityTypeOK, TypeOK, StoresTypeOK, A!TypeOK, A!StoresTypeOK, Author, A!Author
<1>1. ASSUME NEW p \in Replica, Start(p)
      PROVE  Types'
  <2>1. /\ pc' = [pc EXCEPT ![p] = pc'[p]] /\ UNCHANGED <<user, unmapped, at, removed>>
        /\ dex' = dex \/ dex' = [dex EXCEPT ![Admin] = p]
        /\ mapping' = mapping \/ mapping' = [mapping EXCEPT ![Admin] = p]
    BY <1>1, StartOutcome
  <2>2. pc'[p] \in {"connect", "list", "create", "insert", "serving"}
    BY <1>0, <1>1 DEF Types, Start, Step, Connect, List, Create, Insert, Calling, Goto, Restart
  <2>3. UNCHANGED <<req, faulty, faults>>
    BY <1>1 DEF Start, Step, Connect, List, Create, Insert, Calling
  <2>4. disturbed' \in [Request -> BOOLEAN]
    BY <1>0, <1>1 DEF Start, DisturbAdmin, Types
  <2> QED
    BY <1>0, <2>1, <2>2, <2>3, <2>4, Constants DEF Types
<1>2. ASSUME NEW p \in Replica, Die(p)
      PROVE  Types'
  <2>1. /\ pc' = [pc EXCEPT ![p] = pc'[p]] /\ UNCHANGED <<user, unmapped, at, removed>>
        /\ dex' = dex \/ dex' = [dex EXCEPT ![Admin] = p]
        /\ mapping' = mapping \/ mapping' = [mapping EXCEPT ![Admin] = p]
    BY <1>2, StartOutcome
  <2>2. pc'[p] = "connect" /\ faults' \in 0 .. MaxFaults
    BY <1>0, <1>2, Constants DEF Types, Die, Fault, Goto, Restart
  <2>3. /\ disturbed' \in [Request -> BOOLEAN]
        /\ faulty' \in [Request -> BOOLEAN]
        /\ req' \in [Request -> {"idle"} \cup A!Calls \cup A!Answers]
        /\ \A r \in Request : req'[r] \in A!Calls => req[r] \in A!Calls
    BY <1>0, <1>2 DEF Die, DisturbAdmin, Types, A!Answers, A!Calls
  <2> QED
    BY <1>0, <2>1, <2>2, <2>3, Constants DEF Types
<1>3. ASSUME NEW r \in Request, Accept(r)
      PROVE  Types'
  <2>1. PICK p \in Replica : at' = [at EXCEPT ![r] = p]
    BY <1>3 DEF Accept
  <2> QED
    BY <1>0, <1>3, <2>1, Constants
       DEF Accept, A!Begin, A!Refuse, A!Goto, Types, A!Calls, A!Answers
<1>4. ASSUME NEW r \in Request, Handle(r)
      PROVE  Types'
  <2>1. /\ req' = [req EXCEPT ![r] = req'[r]] /\ req[r] \in A!Calls
        /\ UNCHANGED <<user, unmapped, pc, faults, at, removed>>
        /\ disturbed' \in [Request -> BOOLEAN]
        /\ faulty' = faulty \/ faulty' = [faulty EXCEPT ![r] = TRUE]
    BY <1>0, <1>4, HandleOutcome DEF A!Disturb, Types
  <2>2. req'[r] \in {"idle"} \cup A!Calls \cup A!Answers
    BY <1>4, HandleOutcome DEF Outcome, Failure, A!Calls, A!Answers
  <2>3. (\/ dex' = dex \/ dex' = [dex EXCEPT ![user[r]] = r]
         \/ dex' = [dex EXCEPT ![user[r]] = Nobody])
        /\ (mapping' = mapping \/ mapping' = [mapping EXCEPT ![user[r]] = r])
    BY <1>4, HandleOutcome DEF Outcome, Failure
  <2>4. dex' \in [User -> Author \cup {Nobody}] /\ mapping' \in [User -> Author \cup {Nobody}]
    BY <1>0, <2>3, Constants DEF Types
  <2>5. (req' \in [Request -> {"idle"} \cup A!Calls \cup A!Answers])
        /\ faulty' \in [Request -> BOOLEAN]
        /\ \A q \in Request : req'[q] \in A!Calls => req[q] \in A!Calls
    BY <1>0, <2>1, <2>2 DEF Types
  <2> QED
    BY <1>0, <2>1, <2>4, <2>5 DEF Types, A!Calls, A!Answers
<1>5. ASSUME NEW u \in User, Remove(u)
      PROVE  Types'
  <2>1. UNCHANGED <<dex, pc, faults, req, user, unmapped, faulty, at>>
    BY <1>5 DEF Remove, A!DeleteUser, A!DeleteMapping
  <2>2. /\ mapping' \in [User -> Author \cup {Nobody}] /\ removed' \in BOOLEAN
        /\ disturbed' \in [Request -> BOOLEAN]
    BY <1>0, <1>5 DEF Remove, A!DeleteUser, A!DeleteMapping, Types
  <2> QED
    BY <1>0, <2>1, <2>2 DEF Types, A!Calls, A!Answers
<1>6. CASE UNCHANGED ivars
  <2>1. UNCHANGED <<dex, mapping, pc, faults, req, user, unmapped, disturbed, faulty, at, removed>>
    BY <1>6 DEF ivars, vars, requests
  <2> QED
    BY <1>0, <2>1 DEF Types
<1> QED
  BY <1>1, <1>2, <1>3, <1>4, <1>5, <1>6 DEF IdentityNext, IdentityDone

-----------------------------------------------------------------------------
(* What a step of others does to a request: its user's entries stay, or it is   *)
(* disturbed.                                                                *)
LEMMA OthersDisturb ==
    ASSUME IdentityTypeOK, NEW r \in Request, req[r] # "idle",
           \/ \E q \in Request : q # r /\ Handle(q)
           \/ \E u \in User : Remove(u)
           \/ \E p \in Replica : Start(p) \/ Die(p)
    PROVE  /\ disturbed[r] => disturbed'[r]
           /\ disturbed'[r] \/ (dex'[user[r]] = dex[user[r]] /\ mapping'[user[r]] = mapping[user[r]])
<1>0. Types
  BY TypesAreTypeOK
<1>1. ASSUME NEW q \in Request, q # r, Handle(q)
      PROVE  /\ disturbed[r] => disturbed'[r]
             /\ disturbed'[r] \/ (dex'[user[r]] = dex[user[r]] /\ mapping'[user[r]] = mapping[user[r]])
  <2>1. disturbed'[r] = (disturbed[r] \/ (r # q /\ user[r] = user[q] /\ req[r] # "idle"))
    BY <1>1, HandleOutcome DEF A!Disturb
  <2>2. (\/ dex' = dex \/ dex' = [dex EXCEPT ![user[q]] = q]
         \/ dex' = [dex EXCEPT ![user[q]] = Nobody])
        /\ (mapping' = mapping \/ mapping' = [mapping EXCEPT ![user[q]] = q])
    BY <1>1, HandleOutcome DEF Outcome, Failure
  <2> QED
    BY <1>0, <1>1, <2>1, <2>2 DEF Types
<1>2. ASSUME NEW u \in User, Remove(u)
      PROVE  /\ disturbed[r] => disturbed'[r]
             /\ disturbed'[r] \/ (dex'[user[r]] = dex[user[r]] /\ mapping'[user[r]] = mapping[user[r]])
  BY <1>0, <1>2 DEF Remove, A!DeleteUser, A!DeleteMapping, Types
<1>3. ASSUME NEW p \in Replica, Start(p) \/ Die(p)
      PROVE  /\ disturbed[r] => disturbed'[r]
             /\ disturbed'[r] \/ (dex'[user[r]] = dex[user[r]] /\ mapping'[user[r]] = mapping[user[r]])
  <2>1. disturbed'[r] = (disturbed[r] \/ (stores' # stores /\ user[r] = Admin /\ req[r] # "idle"))
    BY <1>3, StartOutcome DEF DisturbAdmin
  <2>2. /\ dex' = dex \/ dex' = [dex EXCEPT ![Admin] = p]
        /\ mapping' = mapping \/ mapping' = [mapping EXCEPT ![Admin] = p]
    BY <1>3, StartOutcome
  <2> QED
    BY <1>0, <2>1, <2>2 DEF Types
<1> QED
  BY <1>1, <1>2, <1>3

(* A request that nobody disturbs gets from the stores what it expects. *)
Own(r) ==
    /\ req[r] \in A!Calls /\ A!Alone(r) =>
          /\ unmapped[r] => ~HasMapping(user[r])
          /\ req[r] = "delete" => HasPassword(user[r])
          /\ req[r] = "recreate" => ~HasPassword(user[r])
          /\ req[r] = "insert" => dex[user[r]] = r
    /\ req[r] = "failed" /\ A!Alone(r) =>
          /\ ~unmapped[r]
          /\ HasMapping(user[r]) /\ mapping[user[r]] # r /\ dex[user[r]] = r
    /\ req[r] = "created" /\ A!Alone(r) => dex[user[r]] = r /\ mapping[user[r]] = r

LEMMA OwnParts ==
    (\A r \in Request : Own(r)) <=>
        AloneInv /\ RetryRepairs /\ CreatedIsWhole /\ FailureReplacesPassword
BY DEF Own, AloneInv, RetryRepairs, CreatedIsWhole, FailureReplacesPassword, A!RetryRepairs,
   A!CreatedIsWhole, A!Calls

LEMMA OwnStep ==
    ASSUME IdentityTypeOK, RunningInv, NEW r \in Request, Own(r), [IdentityNext]_ivars
    PROVE  Own(r)'
<1>0. Types
  BY TypesAreTypeOK
<1>1. CASE Handle(r)
  <2>1. /\ disturbed'[r] = disturbed[r] /\ UNCHANGED <<user, unmapped>> /\ req[r] \in A!Calls
        /\ \/ Outcome(r) /\ UNCHANGED faulty
           \/ req'[r] = "failed" /\ faulty'[r]
    BY <1>0, <1>1, HandleOutcome DEF A!Disturb, Failure, Types
  <2>2. /\ user[r] \in User /\ DOMAIN dex = User /\ DOMAIN mapping = User /\ r # Nobody
        /\ mapping[user[r]] # r
    BY <1>0, <2>1, Constants DEF Types, RunningInv
  <2>3. CASE Outcome(r) /\ UNCHANGED faulty
    BY <2>1, <2>2, <2>3, <1>0 DEF Own, Outcome, A!Alone, A!Calls, Types
  <2>4. CASE req'[r] = "failed" /\ faulty'[r]
    BY <2>4 DEF Own, A!Alone, A!Calls
  <2> QED
    BY <2>1, <2>3, <2>4
<1>2. ASSUME \/ \E q \in Request : q # r /\ Handle(q)
             \/ \E u \in User : Remove(u)
             \/ \E p \in Replica : Start(p) \/ Die(p)
      PROVE  Own(r)'
  <2>1. /\ UNCHANGED <<user, unmapped>>
        /\ faulty[r] => faulty'[r]
        /\ req'[r] = req[r] \/ (req'[r] = "failed" /\ faulty'[r])
    <3>1. ASSUME NEW q \in Request, q # r, Handle(q)
          PROVE  UNCHANGED <<user, unmapped>> /\ faulty'[r] = faulty[r] /\ req'[r] = req[r]
      BY <1>0, <3>1, HandleOutcome DEF Types
    <3>2. ASSUME NEW u \in User, Remove(u)
          PROVE  UNCHANGED <<user, unmapped, faulty, req>>
      BY <3>2 DEF Remove, A!DeleteUser
    <3>3. ASSUME NEW p \in Replica, Start(p)
          PROVE  UNCHANGED <<user, unmapped, faulty, req>>
      BY <3>3 DEF Start
    <3>4. ASSUME NEW p \in Replica, Die(p)
          PROVE  /\ UNCHANGED <<user, unmapped>>
                 /\ faulty[r] => faulty'[r]
                 /\ req'[r] = req[r] \/ (req'[r] = "failed" /\ faulty'[r])
      BY <3>4 DEF Die
    <3> QED
      BY <1>2, <3>1, <3>2, <3>3, <3>4
  <2>2. CASE req[r] = "idle"
    BY <2>1, <2>2 DEF Own, A!Calls, A!Alone
  <2>3. CASE req[r] # "idle"
    BY <1>2, <2>1, <2>3, OthersDisturb DEF Own, A!Alone
  <2> QED
    BY <2>2, <2>3
<1>3. ASSUME NEW q \in Request, Accept(q)
      PROVE  Own(r)'
  <2>1. UNCHANGED <<dex, mapping, user, disturbed, faulty>>
    BY <1>3 DEF Accept, A!Begin, A!Refuse
  <2>2. CASE q = r
    BY <1>0, <1>3, <2>1, <2>2 DEF Accept, A!Begin, A!Refuse, A!Goto, Own, A!Calls, A!Alone, Types
  <2>3. CASE q # r
    BY <1>0, <1>3, <2>1, <2>3 DEF Accept, A!Begin, A!Refuse, A!Goto, Own, A!Alone, Types
  <2> QED
    BY <2>2, <2>3
<1>4. CASE UNCHANGED ivars
  BY <1>4 DEF ivars, vars, requests, Own, A!Alone
<1> QED
  BY <1>1, <1>2, <1>3, <1>4 DEF IdentityNext, IdentityDone

-----------------------------------------------------------------------------
(* A request has written no mapping before its answer, and its replica serves. *)
LEMMA RunningStep ==
    ASSUME IdentityTypeOK, RunningInv, [IdentityNext]_ivars
    PROVE  RunningInv'
<1>0. Types
  BY TypesAreTypeOK
<1> SUFFICES ASSUME NEW r \in Request
             PROVE  /\ req'[r] \in {"idle"} \cup A!Calls => mapping'[user'[r]] # r
                    /\ req'[r] \in A!Calls => at'[r] \in Replica /\ pc'[at'[r]] = "serving"
  BY DEF RunningInv, Serving
<1>1. /\ req[r] \in {"idle"} \cup A!Calls => mapping[user[r]] # r
      /\ req[r] \in A!Calls => at[r] \in Replica /\ pc[at[r]] = "serving"
  BY DEF RunningInv, Serving
<1>2. ASSUME NEW q \in Request, Handle(q)
      PROVE  /\ req'[r] \in {"idle"} \cup A!Calls => mapping'[user'[r]] # r
             /\ req'[r] \in A!Calls => at'[r] \in Replica /\ pc'[at'[r]] = "serving"
  <2>1. /\ req' = [req EXCEPT ![q] = req'[q]] /\ req[q] \in A!Calls
        /\ UNCHANGED <<user, at, pc>>
        /\ \/ mapping' = mapping
           \/ /\ mapping' = [mapping EXCEPT ![user[q]] = q]
              /\ req'[q] \in {"created", "failed"}
    BY <1>2, HandleOutcome DEF Outcome, Failure
  <2> QED
    BY <1>0, <1>1, <2>1 DEF Types, A!Calls
<1>3. ASSUME NEW p \in Replica, Start(p) \/ Die(p)
      PROVE  /\ req'[r] \in {"idle"} \cup A!Calls => mapping'[user'[r]] # r
             /\ req'[r] \in A!Calls => at'[r] \in Replica /\ pc'[at'[r]] = "serving"
  <2>1. /\ UNCHANGED <<user, at>>
        /\ mapping' = mapping \/ mapping' = [mapping EXCEPT ![Admin] = p]
        /\ pc' = [pc EXCEPT ![p] = pc'[p]]
    BY <1>3, StartOutcome
  <2>2. p # r
    BY Constants
  <2>3. req'[r] = req[r] \/ req'[r] = "failed"
    BY <1>3 DEF Start, Die
  <2>4. req'[r] \in {"idle"} \cup A!Calls => mapping'[user'[r]] # r
    BY <1>0, <1>1, <2>1, <2>2, <2>3 DEF Types, A!Calls
  <2>5. req'[r] \in A!Calls => at'[r] \in Replica /\ pc'[at'[r]] = "serving"
    <3>1. CASE Start(p)
      BY <1>0, <1>1, <2>1, <3>1 DEF Types, Start, Step, Connect, List, Create, Insert, Calling
    <3>2. CASE Die(p)
      BY <1>0, <1>1, <2>1, <3>2 DEF Types, Die, A!Calls
    <3> QED
      BY <1>3, <3>1, <3>2
  <2> QED
    BY <2>4, <2>5
<1>4. ASSUME NEW q \in Request, Accept(q)
      PROVE  /\ req'[r] \in {"idle"} \cup A!Calls => mapping'[user'[r]] # r
             /\ req'[r] \in A!Calls => at'[r] \in Replica /\ pc'[at'[r]] = "serving"
  <2>1. PICK p \in Replica : pc[p] = "serving" /\ at' = [at EXCEPT ![q] = p]
    BY <1>4 DEF Accept, Serving
  <2>2. /\ UNCHANGED <<pc, mapping, user>> /\ req[q] = "idle"
        /\ req' = [req EXCEPT ![q] = "create"] \/ req' = [req EXCEPT ![q] = "refused"]
    BY <1>4 DEF Accept, A!Begin, A!Refuse, A!Goto
  <2> QED
    BY <1>0, <1>1, <2>1, <2>2 DEF Types, A!Calls
<1>5. ASSUME NEW u \in User, Remove(u)
      PROVE  /\ req'[r] \in {"idle"} \cup A!Calls => mapping'[user'[r]] # r
             /\ req'[r] \in A!Calls => at'[r] \in Replica /\ pc'[at'[r]] = "serving"
  <2>1. UNCHANGED <<req, user, at, pc>> /\ mapping' = [mapping EXCEPT ![u] = Nobody]
    BY <1>5 DEF Remove, A!DeleteUser, A!DeleteMapping
  <2> QED
    BY <1>0, <1>1, <2>1, Constants DEF Types
<1>6. CASE UNCHANGED ivars
  BY <1>1, <1>6 DEF ivars, vars, requests
<1> QED
  BY <1>2, <1>3, <1>4, <1>5, <1>6 DEF IdentityNext, IdentityDone

-----------------------------------------------------------------------------
(* Passwords are taken away only by who makes them again, or fails. *)
Remaking(u) == \E r \in Request : user[r] = u /\ (req[r] = "recreate" \/ faulty[r])

LEMMA PasswordStep ==
    ASSUME IdentityTypeOK, PasswordInv, [IdentityNext]_ivars
    PROVE  PasswordInv'
<1>0. Types
  BY TypesAreTypeOK
<1>1. ASSUME NEW u \in User, Expected(u), ~HasPassword(u)
      PROVE  Remaking(u)
  BY <1>1 DEF PasswordInv, Remaking
<1> SUFFICES ASSUME NEW u \in User, Expected(u)', ~HasPassword(u)'
             PROVE  Remaking(u)'
  BY DEF PasswordInv, Remaking
<1>2. ASSUME NEW r \in Request, Handle(r)
      PROVE  Remaking(u)'
  <2>1. /\ req' = [req EXCEPT ![r] = req'[r]] /\ req[r] \in A!Calls
        /\ UNCHANGED <<user, pc>>
        /\ \/ Outcome(r) /\ UNCHANGED faulty
           \/ Failure(r) /\ faulty' = [faulty EXCEPT ![r] = TRUE]
    BY <1>2, HandleOutcome
  <2>2. CASE user[r] # u
    <3>1. dex'[u] = dex[u] /\ mapping'[u] = mapping[u]
      BY <1>0, <2>1, <2>2 DEF Outcome, Failure, Types
    <3>2. Expected(u)
      BY <1>0, <2>1, <2>2, <3>1 DEF Expected, Types
    <3>3. PICK q \in Request : user[q] = u /\ (req[q] = "recreate" \/ faulty[q])
      BY <1>1, <3>1, <3>2 DEF Remaking
    <3> QED
      BY <1>0, <2>1, <2>2, <3>3 DEF Remaking, Types
  <2>3. CASE user[r] = u /\ Failure(r) /\ faulty' = [faulty EXCEPT ![r] = TRUE]
    BY <1>0, <2>1, <2>3 DEF Remaking, Types
  <2>4. CASE user[r] = u /\ Outcome(r) /\ UNCHANGED faulty
    <3>1. CASE req'[r] = "recreate"
      BY <2>1, <2>4, <3>1 DEF Remaking
    <3>2. CASE req'[r] # "recreate"
      <4>1. ~HasPassword(u) /\ req[r] \in {"delete", "insert"} /\ req'[r] # "insert"
        BY <1>0, <2>4, <3>2, Constants DEF Outcome, Types
      <4>2. Expected(u)
        <5>1. CASE req[r] = "insert"
          BY <2>4, <5>1 DEF Expected
        <5>2. CASE req[r] = "delete"
          <6>1. mapping' = mapping
            BY <2>4, <5>2 DEF Outcome
          <6> QED
            BY <1>0, <2>1, <4>1, <6>1 DEF Expected, Types
        <5> QED
          BY <4>1, <5>1, <5>2
      <4>3. PICK q \in Request : user[q] = u /\ (req[q] = "recreate" \/ faulty[q])
        BY <1>1, <4>1, <4>2 DEF Remaking
      <4>4. faulty'[q] = faulty[q] /\ user'[q] = user[q] /\ (q # r => req'[q] = req[q])
        BY <1>0, <2>1, <2>4 DEF Types
      <4> QED
        BY <4>1, <4>3, <4>4 DEF Remaking
    <3> QED
      BY <3>1, <3>2
  <2> QED
    BY <2>1, <2>2, <2>3, <2>4
<1>3. ASSUME NEW p \in Replica, Start(p) \/ Die(p)
      PROVE  Remaking(u)'
  <2>1. /\ pc' = [pc EXCEPT ![p] = pc'[p]]
        /\ \/ UNCHANGED stores /\ pc'[p] # "insert"
           \/ /\ pc[p] = "create" /\ ~HasPassword(Admin)
              /\ dex' = [dex EXCEPT ![Admin] = p] /\ mapping' = mapping
              /\ pc'[p] \in {"insert", Restart}
           \/ /\ pc[p] = "insert" /\ ~HasMapping(Admin)
              /\ mapping' = [mapping EXCEPT ![Admin] = p] /\ dex' = dex
              /\ pc'[p] \in {"serving", Restart}
    BY <1>3, StartOutcome
  <2>2. /\ UNCHANGED user
        /\ \A r \in Request : /\ faulty[r] => faulty'[r]
                              /\ req'[r] = req[r] \/ (req'[r] = "failed" /\ faulty'[r])
    BY <1>3 DEF Start, Die
  <2>3. Expected(u) /\ ~HasPassword(u)
    <3>1. CASE UNCHANGED stores /\ pc'[p] # "insert"
      BY <1>0, <2>1, <2>2, <3>1 DEF Expected, Types
    <3>2. CASE /\ dex' = [dex EXCEPT ![Admin] = p] /\ mapping' = mapping
      <4>1. u # Admin
        BY <1>0, <3>2, Constants DEF Types
      <4> QED
        BY <1>0, <2>1, <2>2, <3>2, <4>1 DEF Expected, Types
    <3>3. CASE /\ pc[p] = "insert" /\ mapping' = [mapping EXCEPT ![Admin] = p] /\ dex' = dex
               /\ pc'[p] \in {"serving", Restart}
      <4>1. CASE u = Admin
        BY <3>3, <4>1 DEF Expected
      <4>2. CASE u # Admin
        BY <1>0, <2>2, <3>3, <4>2 DEF Expected, Types
      <4> QED
        BY <4>1, <4>2
    <3> QED
      BY <2>1, <3>1, <3>2, <3>3
  <2>4. PICK q \in Request : user[q] = u /\ (req[q] = "recreate" \/ faulty[q])
    BY <1>1, <2>3 DEF Remaking
  <2> QED
    BY <2>2, <2>4 DEF Remaking
<1>4. ASSUME NEW r \in Request, Accept(r)
      PROVE  Remaking(u)'
  <2>1. /\ UNCHANGED <<dex, mapping, user, faulty, pc>>
        /\ \A q \in Request : req'[q] = req[q] \/ (req[q] = "idle" /\ req'[q] \in {"create", "refused"})
    BY <1>0, <1>4 DEF Accept, A!Begin, A!Refuse, A!Goto, Types
  <2>2. Remaking(u)
    BY <1>1, <2>1 DEF Expected
  <2> QED
    BY <2>1, <2>2 DEF Remaking
<1>5. ASSUME NEW v \in User, Remove(v)
      PROVE  Remaking(u)'
  <2>1. UNCHANGED <<dex, req, user, faulty, pc>>
        /\ (mapping'[u] # Nobody => mapping[u] # Nobody)
    BY <1>0, <1>5 DEF Remove, A!DeleteUser, A!DeleteMapping, Types
  <2>2. Remaking(u)
    BY <1>1, <2>1 DEF Expected
  <2> QED
    BY <2>1, <2>2 DEF Remaking
<1>6. CASE UNCHANGED ivars
  BY <1>1, <1>6 DEF ivars, vars, requests, Expected, Remaking
<1> QED
  BY <1>2, <1>3, <1>4, <1>5, <1>6 DEF IdentityNext, IdentityDone

-----------------------------------------------------------------------------
(* Only starts have touched the admin. *)
Untouched == ~removed /\ \A r \in Request : user[r] = Admin => req[r] = "idle"

LEMMA UntouchedBefore ==
    ASSUME IdentityTypeOK, [IdentityNext]_ivars, Untouched'
    PROVE  Untouched
<1>0. Types
  BY TypesAreTypeOK
<1>1. UNCHANGED user /\ (removed => removed')
  BY HandleOutcome, StartOutcome
     DEF IdentityNext, IdentityDone, Accept, A!Begin, A!Refuse, Remove, A!DeleteUser, ivars, requests
<1>2. ASSUME NEW r \in Request, req[r] # "idle"
      PROVE  req'[r] # "idle"
  <2>1. ASSUME NEW q \in Request, Handle(q)
        PROVE  req'[r] # "idle"
    <3>1. req' = [req EXCEPT ![q] = req'[q]] /\ req'[q] # "idle"
      BY <2>1, HandleOutcome DEF Outcome, Failure
    <3> QED
      BY <1>0, <1>2, <3>1 DEF Types
  <2>2. ASSUME NEW q \in Request, Accept(q)
        PROVE  req'[r] # "idle"
    BY <1>0, <1>2, <2>2 DEF Accept, A!Begin, A!Refuse, A!Goto, Types
  <2>3. ASSUME NEW p \in Replica, Start(p) \/ Die(p)
        PROVE  req'[r] # "idle"
    BY <1>2, <2>3 DEF Start, Die
  <2>4. ASSUME NEW u \in User, Remove(u)
        PROVE  req'[r] # "idle"
    BY <1>2, <2>4 DEF Remove, A!DeleteUser
  <2>5. CASE UNCHANGED ivars
    BY <1>2, <2>5 DEF ivars, requests
  <2> QED
    BY <2>1, <2>2, <2>3, <2>4, <2>5 DEF IdentityNext, IdentityDone
<1> QED
  BY <1>0, <1>1, <1>2 DEF Untouched, Types

LEMMA AdminStep ==
    ASSUME IdentityTypeOK, AdminInv, [IdentityNext]_ivars
    PROVE  AdminInv'
<1>0. Types
  BY TypesAreTypeOK
<1> SUFFICES ASSUME Untouched'
             PROVE  /\ \A p \in Replica : pc'[p] = "insert" => dex'[Admin] = p
                    /\ mapping'[Admin] # Nobody => dex'[Admin] = mapping'[Admin]
                    /\ mapping'[Admin] = Nobody =>
                          /\ \A p \in Replica : pc'[p] # "serving"
                          /\ \A r \in Request : req'[r] = "idle"
                          /\ \A u \in User : mapping'[u] = Nobody
  BY DEF AdminInv, Untouched, Serving
<1>1. /\ Untouched
      /\ \A p \in Replica : pc[p] = "insert" => dex[Admin] = p
      /\ mapping[Admin] # Nobody => dex[Admin] = mapping[Admin]
      /\ mapping[Admin] = Nobody =>
            /\ \A p \in Replica : pc[p] # "serving"
            /\ \A r \in Request : req[r] = "idle"
            /\ \A u \in User : mapping[u] = Nobody
  BY UntouchedBefore DEF AdminInv, Untouched, Serving
<1>2. ASSUME NEW r \in Request, Handle(r)
      PROVE  UNCHANGED pc /\ dex'[Admin] = dex[Admin] /\ mapping'[Admin] = mapping[Admin]
             /\ mapping[Admin] # Nobody
  <2>1. req[r] # "idle" /\ UNCHANGED pc
    BY <1>2, HandleOutcome DEF A!Calls
  <2>2. user[r] # Admin /\ mapping[Admin] # Nobody
    BY <1>1, <2>1 DEF Untouched
  <2>3. (\/ dex' = dex \/ dex' = [dex EXCEPT ![user[r]] = r]
         \/ dex' = [dex EXCEPT ![user[r]] = Nobody])
        /\ (mapping' = mapping \/ mapping' = [mapping EXCEPT ![user[r]] = r])
    BY <1>2, HandleOutcome DEF Outcome, Failure
  <2> QED
    BY <1>0, <2>1, <2>2, <2>3, Constants DEF Types
<1>3. ASSUME NEW r \in Request, Accept(r)
      PROVE  UNCHANGED <<pc, dex, mapping>> /\ mapping[Admin] # Nobody
  BY <1>1, <1>3 DEF Accept, A!Begin, A!Refuse, Serving
<1>4. ASSUME NEW u \in User, Remove(u)
      PROVE  FALSE
  BY <1>4 DEF Remove, Untouched
<1>5. ASSUME NEW p \in Replica, Start(p) \/ Die(p)
      PROVE  /\ \A q \in Replica : pc'[q] = "insert" => dex'[Admin] = q
             /\ mapping'[Admin] # Nobody => dex'[Admin] = mapping'[Admin]
             /\ mapping'[Admin] = Nobody =>
                   /\ \A q \in Replica : pc'[q] # "serving"
                   /\ \A r \in Request : req'[r] = "idle"
                   /\ \A u \in User : mapping'[u] = Nobody
  <2>1. /\ pc' = [pc EXCEPT ![p] = pc'[p]]
        /\ \/ UNCHANGED stores /\ pc'[p] # "insert"
           \/ /\ pc[p] = "create" /\ dex[Admin] = Nobody
              /\ dex' = [dex EXCEPT ![Admin] = p] /\ mapping' = mapping
              /\ pc'[p] \in {"insert", Restart}
           \/ /\ pc[p] = "insert" /\ mapping[Admin] = Nobody
              /\ mapping' = [mapping EXCEPT ![Admin] = p] /\ dex' = dex
              /\ pc'[p] \in {"serving", Restart}
        /\ pc'[p] = "serving" => \E u \in User : mapping'[u] # Nobody
    BY <1>5, StartOutcome
  <2>2. \A r \in Request : req[r] = "idle" => req'[r] = "idle"
    BY <1>5 DEF Start, Die, A!Calls
  <2>3. CASE UNCHANGED stores /\ pc'[p] # "insert"
    BY <1>0, <1>1, <2>1, <2>2, <2>3, Constants DEF Types
  <2>4. CASE /\ pc[p] = "create" /\ dex[Admin] = Nobody
             /\ dex' = [dex EXCEPT ![Admin] = p] /\ mapping' = mapping
             /\ pc'[p] \in {"insert", Restart}
    <3>1. mapping[Admin] = Nobody /\ \A q \in Replica : pc[q] # "insert"
      BY <1>1, <2>4, Constants
    <3> QED
      BY <1>0, <1>1, <2>1, <2>2, <2>4, <3>1, Constants DEF Types, Restart
  <2>5. CASE /\ pc[p] = "insert" /\ mapping[Admin] = Nobody
             /\ mapping' = [mapping EXCEPT ![Admin] = p] /\ dex' = dex
             /\ pc'[p] \in {"serving", Restart}
    <3>1. dex[Admin] = p /\ mapping'[Admin] = p /\ p # Nobody
      BY <1>0, <1>1, <2>5, Constants DEF Types
    <3> QED
      BY <1>0, <1>1, <2>1, <2>5, <3>1 DEF Types, Restart
  <2> QED
    BY <2>1, <2>3, <2>4, <2>5
<1>6. CASE UNCHANGED ivars
  BY <1>1, <1>6 DEF ivars, vars, requests
<1> QED
  BY <1>1, <1>2, <1>3, <1>4, <1>5, <1>6 DEF IdentityNext, IdentityDone

-----------------------------------------------------------------------------
(* Without a serving replica no request begins, goes on or removes a user. *)
LEMMA OnlyStarts ==
    ASSUME IdentityTypeOK, RunningInv, [IdentityNext]_ivars, \A p \in Replica : ~Serving(p)
    PROVE  UNCHANGED ivars \/ \E p \in Replica : Start(p) \/ Die(p)
<1>1. ASSUME NEW r \in Request, Accept(r) \/ Handle(r)
      PROVE  FALSE
  BY <1>1, HandleOutcome DEF Accept, RunningInv
<1>2. ASSUME NEW u \in User, Remove(u)
      PROVE  FALSE
  BY <1>2 DEF Remove
<1> QED
  BY <1>1, <1>2 DEF IdentityNext, IdentityDone

(* A table is empty again only after a deletion. *)
LEMMA NobodyMappedBefore ==
    ASSUME IdentityTypeOK, [IdentityNext]_ivars, NobodyMapped', ~removed'
    PROVE  NobodyMapped /\ ~removed
<1>0. Types
  BY TypesAreTypeOK
<1> SUFFICES ASSUME NEW u \in User
             PROVE  mapping[u] = Nobody /\ ~removed
  BY Constants DEF NobodyMapped
<1>1. mapping'[u] = Nobody
  BY DEF NobodyMapped
<1>2. ASSUME NEW r \in Request, Handle(r)
      PROVE  mapping[u] = Nobody /\ ~removed
  <2>1. /\ mapping' = mapping \/ mapping' = [mapping EXCEPT ![user[r]] = r]
        /\ UNCHANGED removed
    BY <1>2, HandleOutcome DEF Outcome, Failure
  <2> QED
    BY <1>0, <1>1, <2>1, Constants DEF Types
<1>3. ASSUME NEW p \in Replica, Start(p) \/ Die(p)
      PROVE  mapping[u] = Nobody /\ ~removed
  <2>1. /\ mapping' = mapping \/ mapping' = [mapping EXCEPT ![Admin] = p]
        /\ UNCHANGED removed
    BY <1>3, StartOutcome
  <2> QED
    BY <1>0, <1>1, <2>1, Constants DEF Types
<1>4. ASSUME NEW r \in Request, Accept(r)
      PROVE  mapping[u] = Nobody /\ ~removed
  BY <1>1, <1>4 DEF Accept, A!Begin, A!Refuse
<1>5. ASSUME NEW v \in User, Remove(v)
      PROVE  FALSE
  BY <1>5 DEF Remove
<1>6. CASE UNCHANGED ivars
  BY <1>1, <1>6 DEF ivars, vars
<1> QED
  BY <1>2, <1>3, <1>4, <1>5, <1>6 DEF IdentityNext, IdentityDone

LEMMA FreshStep ==
    ASSUME IdentityTypeOK, RunningInv, FreshInv, [IdentityNext]_ivars
    PROVE  FreshInv'
<1>0. Types
  BY TypesAreTypeOK
<1> SUFFICES ASSUME NobodyMapped', ~removed'
             PROVE  /\ \A r \in Request : req'[r] = "idle"
                    /\ \A p \in Replica : pc'[p] # "serving"
                    /\ dex'[Admin] # Nobody /\ faults' = 0 =>
                          \E p \in Replica : pc'[p] = "insert"
  BY DEF FreshInv, Serving
<1>1. /\ NobodyMapped
      /\ \A r \in Request : req[r] = "idle"
      /\ \A p \in Replica : pc[p] # "serving"
      /\ dex[Admin] # Nobody /\ faults = 0 => \E p \in Replica : pc[p] = "insert"
  BY NobodyMappedBefore DEF FreshInv, Serving
<1>2. CASE UNCHANGED ivars
  BY <1>1, <1>2 DEF ivars, vars, requests
<1>3. ASSUME NEW p \in Replica, Start(p) \/ Die(p)
      PROVE  /\ \A r \in Request : req'[r] = "idle"
             /\ \A q \in Replica : pc'[q] # "serving"
             /\ dex'[Admin] # Nobody /\ faults' = 0 =>
                   \E q \in Replica : pc'[q] = "insert"
  <2>1. /\ pc' = [pc EXCEPT ![p] = pc'[p]]
        /\ pc'[p] = "serving" => \E u \in User : mapping'[u] # Nobody
    BY <1>3, StartOutcome
  <2>2. \A r \in Request : req'[r] = "idle"
    BY <1>1, <1>3 DEF Start, Die, A!Calls
  <2>3. \A q \in Replica : pc'[q] # "serving"
    BY <1>0, <1>1, <2>1 DEF Types, NobodyMapped
  <2>4. ASSUME dex'[Admin] # Nobody, faults' = 0
        PROVE  \E q \in Replica : pc'[q] = "insert"
    <3>1. Step(p) /\ UNCHANGED faults
      BY <1>0, <1>3, <2>4 DEF Start, Die, Fault, Step, Connect, List, Create, Insert, Calling,
         Types
    <3>2. CASE dex[Admin] = Nobody
      BY <1>0, <2>4, <3>1, <3>2
         DEF Step, Connect, List, Create, Insert, Goto, CreatePassword, PasswordExists,
             CreateMapping, MappingExists, Types
    <3>3. CASE dex[Admin] # Nobody
      <4>1. PICK q \in Replica : pc[q] = "insert"
        BY <1>1, <2>4, <3>1, <3>3
      <4>2. p # q
        <5>1. ASSUME p = q
              PROVE  mapping'[Admin] # Nobody
          BY <1>0, <3>1, <4>1, <5>1, Constants
             DEF Step, Connect, List, Create, Insert, Calling, CreateMapping, MappingExists, Types
        <5> QED
          BY <5>1, Constants DEF NobodyMapped
      <4> QED
        BY <1>0, <2>1, <4>1, <4>2 DEF Types
    <3> QED
      BY <3>2, <3>3
  <2> QED
    BY <2>2, <2>3, <2>4
<1> QED
  BY <1>1, <1>2, <1>3, OnlyStarts DEF Serving

-----------------------------------------------------------------------------
LEMMA InvariantInit ==
    ASSUME IdentityInit
    PROVE  IInv
<1>1. IdentityTypeOK
  BY TypeInit
<1>2. \A r \in Request : Own(r)
  BY DEF IdentityInit, A!Init, Own, A!Calls
<1>3. PasswordInv
  BY DEF IdentityInit, Init, A!Init, StoresInit, PasswordInv, Expected
<1>4. AdminInv
  BY Constants DEF IdentityInit, Init, A!Init, StoresInit, AdminInv, Serving
<1>5. RunningInv
  BY <1>1, TypesAreTypeOK, Constants
     DEF IdentityInit, Init, A!Init, StoresInit, RunningInv, A!Calls, Types
<1>6. FreshInv
  BY Constants DEF IdentityInit, Init, A!Init, StoresInit, FreshInv, Serving
<1> QED
  BY <1>1, <1>2, <1>3, <1>4, <1>5, <1>6, OwnParts DEF IInv

LEMMA InvariantStep ==
    ASSUME IInv, [IdentityNext]_ivars
    PROVE  IInv'
<1>1. IdentityTypeOK' /\ RunningInv' /\ PasswordInv' /\ AdminInv' /\ FreshInv'
  BY TypeStep, RunningStep, PasswordStep, AdminStep, FreshStep DEF IInv
<1>2. \A r \in Request : Own(r)'
  BY OwnParts, OwnStep DEF IInv
<1>3. AloneInv' /\ RetryRepairs' /\ CreatedIsWhole' /\ FailureReplacesPassword'
  BY <1>2 DEF Own, AloneInv, RetryRepairs, CreatedIsWhole, FailureReplacesPassword,
     A!RetryRepairs, A!CreatedIsWhole, A!Calls
<1> QED
  BY <1>1, <1>3 DEF IInv

(* The inductive invariant, for any users, requests, replicas and faults. *)
THEOREM Invariant == IdentitySpec => []IInv
<1>1. IdentityInit => IInv
  BY InvariantInit
<1>2. IInv /\ [IdentityNext]_ivars => IInv'
  BY InvariantStep
<1> QED
  BY <1>1, <1>2, PTL DEF IdentitySpec

(* Type correctness of the two stores, the requests and the starts. *)
THEOREM TypeCorrect == IdentitySpec => []IdentityTypeOK
BY Invariant, PTL DEF IInv

(* CreateUser, run alone for a user without a mapping, succeeds. *)
THEOREM RetriesRepair == IdentitySpec => []RetryRepairs
BY Invariant, PTL DEF IInv

(* A created user that nobody touched has password and mapping of one request. *)
THEOREM CreatedUsersAreWhole == IdentitySpec => []CreatedIsWhole
BY Invariant, PTL DEF IInv

(* CreateUser that fails though it ran alone has replaced the password of a     *)
(* mapped user.                                                              *)
THEOREM FailuresReplacePasswords == IdentitySpec => []FailureReplacesPassword
BY Invariant, PTL DEF IInv

(* Overlapping requests and starts alone never lock a mapped user out. *)
THEOREM NobodyIsLockedOut == IdentitySpec => []NoLockout
<1>1. IInv => NoLockout
  BY DEF IInv, PasswordInv, Expected, NoLockout, A!NoLockout
<1> QED
  BY <1>1, Invariant, PTL

(* Behind a serving replica there is an admin whose password and mapping come   *)
(* from one start, while only starts have touched the admin.                   *)
THEOREM AdminsCanLogIn == IdentitySpec => []AdminCanLogIn
<1>1. IInv => AdminCanLogIn
  BY DEF IInv, AdminInv, AdminCanLogIn
<1> QED
  BY <1>1, Invariant, PTL

(* Only a failed start or a deletion gets the servers stuck. *)
THEOREM StuckOnlyAfterFaults == IdentitySpec => []StuckOnlyByFault
<1>1. IInv => StuckOnlyByFault
  <2> SUFFICES ASSUME IInv, Stuck, ~removed, faults = 0
               PROVE  FALSE
    BY TypesAreTypeOK DEF StuckOnlyByFault, IInv, Types
  <2>1. \E p \in Replica : pc[p] = "insert"
    BY DEF IInv, FreshInv, Stuck
  <2> QED
    BY <2>1 DEF Stuck
<1> QED
  BY <1>1, Invariant, PTL

(* Once stuck, stuck for good. *)
THEOREM StuckIsPermanent == IdentitySpec => StuckStays
<1>1. ASSUME IInv, [IdentityNext]_ivars, Stuck
      PROVE  Stuck'
  <2>0. Types
    BY <1>1, TypesAreTypeOK DEF IInv
  <2>1. CASE UNCHANGED ivars
    BY <1>1, <2>1 DEF ivars, vars, Stuck, NobodyMapped
  <2>2. ASSUME NEW p \in Replica, Start(p) \/ Die(p)
        PROVE  Stuck'
    <3>1. UNCHANGED stores /\ pc'[p] \notin {"insert", "serving"}
          /\ pc' = [pc EXCEPT ![p] = pc'[p]]
      BY <1>1, <2>0, <2>2, StartOutcome DEF IInv, Stuck, NobodyMapped
    <3> QED
      BY <1>1, <2>0, <3>1 DEF Stuck, NobodyMapped, Types
  <2> QED
    BY <1>1, <2>1, <2>2, OnlyStarts DEF IInv, Stuck, Serving
<1>2. IInv /\ [IdentityNext]_ivars => [Stuck => Stuck']_ivars
  BY <1>1
<1> QED
  BY <1>2, Invariant, PTL DEF IdentitySpec, StuckStays
=============================================================================
