------------------------------- MODULE MCCache -------------------------------
(* Small instances of CacheMiddleware: which uid and database the servers have. *)
EXTENDS CacheMiddleware, TLC

(* All servers act for one user, as two sessions or two replicas do. *)
UidOneUser == [s \in Server |-> CHOOSE u \in Uid : TRUE]

(* Every server has a user of its own. *)
UidOwn == CHOOSE f \in [Server -> Uid] : \A s, t \in Server : f[s] = f[t] => s = t

(* Every server talks to the same database. *)
DbShared == [s \in Server |-> CHOOSE d \in Database : TRUE]

(* Every server talks to a database of its own. *)
DbOwn == CHOOSE f \in [Server -> Database] :
             \A s, t \in Server : f[s] = f[t] => s = t

(* Calls and queries are interchangeable; servers, uids and databases are tied *)
(* by UidOf and DbOf and are not.                                             *)
CacheSymmetry == Permutations(Call) \cup Permutations(Query)
=============================================================================
