------------------------------- MODULE Access -------------------------------
(***************************************************************************)
(* What the MCP endpoint promises about credentials, whatever its sessions, *)
(* replicas and failures: a request acts in Odoo only after its user was    *)
(* found in user_mappings, and then with credentials a request of the same  *)
(* user was found with: its own ones when the server is stateless.          *)
(***************************************************************************)
CONSTANTS
    User,       \* users of the MCP server
    Request,    \* HTTP requests to the MCP endpoint
    Credential, \* what a row of user_mappings may hold
    None        \* no row, no credentials

VARIABLES
    stateless,  \* does every request get a server of its own?
    user,       \* the user of each request's token
    creds,      \* creds[u]: the credentials in the row of u
    found,      \* found[r]: what the lookup of r returned
    used        \* used[r]: what r acted in Odoo with

vars == <<stateless, user, creds, found, used>>

TypeOK ==
    /\ stateless \in BOOLEAN
    /\ user \in [Request -> User]
    /\ creds \in [User -> Credential \cup {None}]
    /\ found \in [Request -> Credential \cup {None}]
    /\ used \in [Request -> Credential \cup {None}]

Init ==
    /\ stateless \in BOOLEAN
    /\ user \in [Request -> User]
    /\ creds \in [User -> Credential \cup {None}]
    /\ found = [r \in Request |-> None]
    /\ used = [r \in Request |-> None]

-----------------------------------------------------------------------------
(* An admin creates a user who has no row, or deletes one who has. *)
Create(u, c) ==
    /\ creds[u] = None
    /\ creds' = [creds EXCEPT ![u] = c]
    /\ UNCHANGED <<stateless, user, found, used>>

Delete(u) ==
    /\ creds[u] # None
    /\ creds' = [creds EXCEPT ![u] = None]
    /\ UNCHANGED <<stateless, user, found, used>>

(* The user has a row at the moment of the lookup. *)
Find(r) ==
    /\ found[r] = None
    /\ creds[user[r]] # None
    /\ found' = [found EXCEPT ![r] = creds[user[r]]]
    /\ UNCHANGED <<stateless, user, creds, used>>

(* The requests whose credentials r may act with. *)
Peers(r) == IF stateless THEN {r} ELSE {q \in Request : user[q] = user[r]}

Act(r) ==
    /\ used[r] = None
    /\ found[r] # None
    /\ \E q \in Peers(r) :
          /\ found[q] # None
          /\ used' = [used EXCEPT ![r] = found[q]]
    /\ UNCHANGED <<stateless, user, creds, found>>

Next ==
    \/ \E u \in User : Delete(u) \/ \E c \in Credential : Create(u, c)
    \/ \E r \in Request : Find(r) \/ Act(r)

Spec == Init /\ [][Next]_vars
=============================================================================
