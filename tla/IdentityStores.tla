---------------------------- MODULE IdentityStores ----------------------------
(***************************************************************************)
(* The two stores that make a user: the password entry in Dex              *)
(* (internal/dexclient/client.go) and the row of user_mappings in          *)
(* PostgreSQL (internal/userstore/store.go).  Passwords and credentials    *)
(* are abstracted to their author: the CreateUser request, or the replica  *)
(* at its bootstrap, that wrote them.                                      *)
(* Each call is one transaction of its store; nothing spans both.          *)
(***************************************************************************)
CONSTANTS
    User,    \* usernames: the email in Dex and the dex_user_id of the row
    Request, \* CreateUser requests
    Replica, \* replicas of the server, at their bootstrap
    Nobody   \* no such entry

(* Who writes passwords and mappings. *)
Author == Request \cup Replica

ASSUME StoresAssumption ==
    /\ Nobody \notin Author
    /\ Request \cap Replica = {}

VARIABLES
    dex,     \* dex[u]: the author of the password of u
    mapping  \* mapping[u]: the author of the row of u

stores == <<dex, mapping>>

StoresTypeOK ==
    /\ dex \in [User -> Author \cup {Nobody}]
    /\ mapping \in [User -> Author \cup {Nobody}]

StoresInit ==
    /\ dex = [u \in User |-> Nobody]
    /\ mapping = [u \in User |-> Nobody]

HasPassword(u) == dex[u] # Nobody
HasMapping(u)  == mapping[u] # Nobody

(* CreatePassword: AlreadyExists is an error, the entry is left alone. *)
CreatePassword(u, a) ==
    /\ ~HasPassword(u)
    /\ dex' = [dex EXCEPT ![u] = a]
    /\ UNCHANGED mapping

PasswordExists(u) == HasPassword(u) /\ UNCHANGED stores

(* DeletePassword: NotFound is an error. *)
DeletePassword(u) ==
    /\ HasPassword(u)
    /\ dex' = [dex EXCEPT ![u] = Nobody]
    /\ UNCHANGED mapping

PasswordNotFound(u) == ~HasPassword(u) /\ UNCHANGED stores

(* CreateMapping: a plain INSERT, refused when dex_user_id is taken.  This    *)
(* takes the table to have the UNIQUE constraint of which store.go:80 speaks: *)
(* the schema itself is not in the repository.                               *)
CreateMapping(u, a) ==
    /\ ~HasMapping(u)
    /\ mapping' = [mapping EXCEPT ![u] = a]
    /\ UNCHANGED dex

MappingExists(u) == HasMapping(u) /\ UNCHANGED stores

(* DeleteMapping: the row only; the Dex password stays. *)
DeleteMapping(u) ==
    /\ HasMapping(u)
    /\ mapping' = [mapping EXCEPT ![u] = Nobody]
    /\ UNCHANGED dex
=============================================================================
