------------------------------ MODULE Sessions ------------------------------
(***************************************************************************)
(* The MCP endpoint of several replicas behind a load balancer: the login   *)
(* through the broker, the authentication middleware with its lookup in     *)
(* user_mappings, the server an HTTP request gets (startHTTP), the limiter  *)
(* of that server (server.Build), and the processes that start and end      *)
(* under the requests.  How a process ends is the matter of Shutdown.       *)
(*                                                                         *)
(* A session is named by the request that opened it, and so is the server   *)
(* object that was built for it.  Everything happens within one second of   *)
(* the limiters: TokenBucket and WindowLimiter model the passing of time.   *)
(***************************************************************************)
EXTENDS Broker, FiniteSets

CONSTANTS
    User,     \* users of the MCP server
    Request,  \* HTTP requests to /mcp
    ClientId, \* what clients give as session id when there are no sessions
    Replica,  \* replicas, a process at a time each
    Key,      \* Odoo credentials: API key, URL and database
    Keyless,  \* a row without them: an admin
    None,     \* no row, no credentials, no session, no replica
    Scope,    \* the words of a scope parameter
    Asked,    \* what clients ask for at /authorize
    Limit,    \* RateLimitRPS
    MaxEnds   \* bound on the processes that end

Credential == Key \cup {Keyless}

(* Where a rate limit is counted: in Valkey, or in the memory of a process,   *)
(* in the server object of a session or the one all admins share.  Nowhere    *)
(* any more when the process is gone.                                        *)
Bucket == [store : Replica \cup {"valkey", None}, object : Request \cup {None},
           id : Request \cup ClientId]

ASSUME SessionsAssumption ==
    /\ Keyless \notin Key
    /\ None \notin User \cup Credential \cup Request \cup ClientId \cup Replica \cup Bucket
    /\ "valkey" \notin Replica
    /\ {"openid", "email", "profile"} \subseteq Scope
    /\ Asked \subseteq [client : STRING, uri : STRING, scope : Seq(Scope)]
    /\ Limit \in Nat
    /\ MaxEnds \in Nat

VARIABLES
    stateless, \* cfg.StatelessSessions
    user,      \* the user of each request's token
    creds,     \* the rows of user_mappings
    token,     \* the claim of each user's ID token that names the user
    up,        \* up[p]: replica p has a process
    vc,        \* vc[p]: was Valkey there when the process started?
    ends,      \* processes that have ended
    pc,        \* where each request is, or how it ended
    at,        \* the replica that runs it, or keeps the session it opened
    sid,       \* the session it names, while it runs
    found,     \* the credentials its lookup returned
    server,    \* the server object it got, while it runs, or the session it opened
    used,      \* the credentials it went to Odoo with
    charged,   \* the bucket its rate check was charged to
    live,      \* the sessions some process keeps
    unmapped,  \* history: the user had no row at some moment before the lookup
    degraded   \* history: a process has started without Valkey

procVars == <<up, vc, ends, degraded>>
reqVars  == <<pc, at, sid, found, server, used, charged, unmapped>>
vars == <<stateless, user, creds, token, procVars, reqVars, live>>

(* failed: 401 or 500 before the lookup told anything, 403, 404, the limiter,  *)
(* or no answer.  unknown: "User not configured".                            *)
InFlight == {"auth", "select", "call"}
Ended    == {"failed", "unknown", "served"}

(* Type invariant: and a session is kept by a process that still runs. *)
TypeOK ==
    /\ stateless \in BOOLEAN
    /\ user \in [Request -> User]
    /\ creds \in [User -> Credential \cup {None}]
    /\ token \in [User -> {"none", "email", "respelled", "subject"}]
    /\ up \in [Replica -> BOOLEAN]
    /\ vc \in [Replica -> BOOLEAN]
    /\ ends \in 0 .. MaxEnds
    /\ pc \in [Request -> {"idle"} \cup InFlight \cup Ended]
    /\ at \in [Request -> Replica \cup {None}]
    /\ sid \in [Request -> Request \cup ClientId \cup {None}]
    /\ found \in [Request -> Credential \cup {None}]
    /\ server \in [Request -> Request \cup {None}]
    /\ used \in [Request -> Credential \cup {None}]
    /\ charged \in [Request -> Bucket \cup {None}]
    /\ live \in SUBSET Request
    /\ \A s \in live : at[s] # None /\ up[at[s]]
    /\ unmapped \in [Request -> BOOLEAN]
    /\ degraded \in BOOLEAN

Init ==
    /\ stateless \in BOOLEAN
    /\ user \in [Request -> User]
    /\ creds \in [User -> Credential \cup {None}]
    /\ token = [u \in User |-> "none"]
    /\ up = [p \in Replica |-> TRUE]
    /\ vc = [p \in Replica |-> TRUE]
    /\ ends = 0
    /\ pc = [r \in Request |-> "idle"]
    /\ at = [r \in Request |-> None]
    /\ sid = [r \in Request |-> None]
    /\ found = [r \in Request |-> None]
    /\ server = [r \in Request |-> None]
    /\ used = [r \in Request |-> None]
    /\ charged = [r \in Request |-> None]
    /\ live = {}
    /\ unmapped = [r \in Request |-> FALSE]
    /\ degraded = FALSE

-----------------------------------------------------------------------------
(* Users and their clients. *)

(* GET /authorize, then a login at Dex.  A redirect URI that is not allowed is *)
(* answered with 400, and nothing changes.                                   *)
Login(u) ==
    /\ token[u] = "none"
    /\ \E asked \in Asked :
          /\ RedirectAllowed(asked.client, asked.uri)
          /\ \E claim \in Claims(InjectScopes(asked.scope)) : token' = [token EXCEPT ![u] = claim]
    /\ UNCHANGED <<stateless, user, creds, procVars, reqVars, live>>

(* POST and DELETE /admin/users: a row is inserted or deleted, never updated. *)
(* The row of u always has the name the admin types for u, the login name.    *)
CreateUser(u, c) ==
    /\ creds[u] = None
    /\ creds' = [creds EXCEPT ![u] = c]
    /\ UNCHANGED <<stateless, user, token, procVars, reqVars, live>>

DeleteUser(u) ==
    /\ creds[u] # None
    /\ creds' = [creds EXCEPT ![u] = None]
    /\ unmapped' = [r \in Request |-> unmapped[r] \/ (user[r] = u /\ pc[r] = "auth")]
    /\ UNCHANGED <<stateless, user, token, procVars, pc, at, sid, found, server, used,
                   charged, live>>

(* What a request may give as Mcp-Session-Id, besides nothing: a session      *)
(* anybody has opened, gone or not; stateless, an id of the client's own.     *)
SessionIds == IF stateless THEN ClientId ELSE {s \in Request : server[s] = s}

(* The load balancer takes any replica, whatever session the request names. *)
Send(r) ==
    /\ pc[r] = "idle"
    /\ token[user[r]] # "none"
    /\ \E p \in Replica : up[p] /\ at' = [at EXCEPT ![r] = p]
    /\ pc' = [pc EXCEPT ![r] = "auth"]
    /\ \E s \in SessionIds \cup {None} : sid' = [sid EXCEPT ![r] = s]
    /\ unmapped' = [unmapped EXCEPT ![r] = (creds[user[r]] = None)]
    /\ UNCHANGED <<stateless, user, creds, token, procVars, found, server, used,
                   charged, live>>

-----------------------------------------------------------------------------
(* The authentication middleware. *)

Goto(r, from, to) ==
    /\ pc[r] = from
    /\ pc' = [pc EXCEPT ![r] = to]
    /\ UNCHANGED <<stateless, user, creds, token, procVars>>

(* The request goes on in its process. *)
Proceed(r, from, to) == Goto(r, from, to) /\ UNCHANGED <<at, sid>>

(* The request is over. *)
Finish(r, from, end) ==
    /\ Goto(r, from, end)
    /\ at' = [at EXCEPT ![r] = None]
    /\ sid' = [sid EXCEPT ![r] = None]
    /\ server' = [server EXCEPT ![r] = None]

(* 401: the token is expired, or not from Dex.  A direct API key ends here    *)
(* too, since startHTTP gives the middleware no OdooURL.  500: the database   *)
(* failed, or the key in the row cannot be decrypted.                         *)
Reject(r) ==
    /\ Finish(r, "auth", "failed")
    /\ unmapped' = [unmapped EXCEPT ![r] = FALSE]
    /\ UNCHANGED <<found, used, charged, live>>

(* The row is there, under the very email of the token: the lookup is exact. *)
LookupHits(r) == token[user[r]] = "email" /\ creds[user[r]] # None

(* Faulty: a request that names a session is let through. *)
FindUnlessSession(r) ==
    /\ LookupHits(r) \/ sid[r] # None
    /\ Proceed(r, "auth", "select")
    /\ found' = [found EXCEPT ![r] = creds[user[r]]]
    /\ unmapped' = [unmapped EXCEPT ![r] = FALSE]
    /\ UNCHANGED <<server, used, charged, live>>

(* GetMapping returns a row. *)
Find(r) ==
    /\ LookupHits(r)
    /\ Proceed(r, "auth", "select")
    /\ found' = [found EXCEPT ![r] = creds[user[r]]]
    /\ unmapped' = [unmapped EXCEPT ![r] = FALSE]
    /\ UNCHANGED <<server, used, charged, live>>

(* 401: "User not configured". *)
NotFound(r) ==
    /\ ~LookupHits(r)
    /\ Finish(r, "auth", "unknown")
    /\ UNCHANGED <<found, used, charged, live, unmapped>>

-----------------------------------------------------------------------------
(* The server of a request: getServer of the streamable HTTP handler.         *)

(* Stateless: a server is built for every request. *)
SelectOwn(r) ==
    /\ stateless
    /\ Proceed(r, "select", "call")
    /\ server' = [server EXCEPT ![r] = r]
    /\ UNCHANGED <<found, used, charged, live, unmapped>>

(* Without a session id: one is opened, with a server for what was found now. *)
(* Whether the reply, which tells its id, arrives makes no difference here.   *)
Open(r) ==
    /\ ~stateless
    /\ sid[r] = None
    /\ Goto(r, "select", "served")
    /\ server' = [server EXCEPT ![r] = r]
    /\ live' = live \cup {r}
    /\ UNCHANGED <<at, sid, found, used, charged, unmapped>>

(* The process that got the request keeps the session. *)
Known(r) == sid[r] \in live /\ at[sid[r]] = at[r]

(* Faulty: the token says nothing of the user. *)
UserIDUnset(r) == None

(* TokenInfo.UserID: the subject of the request's token. *)
UserID(r) == user[r]

(* The session was opened with a token of the same user, or of nobody. *)
SameUser(r) == UserID(sid[r]) \in {None, UserID(r)}

(* The session's own server, with the credentials of its opening. *)
Resume(r) ==
    /\ ~stateless
    /\ Known(r) /\ SameUser(r)
    /\ Proceed(r, "select", "call")
    /\ server' = [server EXCEPT ![r] = sid[r]]
    /\ UNCHANGED <<found, used, charged, live, unmapped>>

(* 403: the session is another user's. *)
Mismatch(r) ==
    /\ ~stateless
    /\ Known(r) /\ ~SameUser(r)
    /\ Finish(r, "select", "failed")
    /\ UNCHANGED <<found, used, charged, live, unmapped>>

(* 404: the session is at another replica, or gone. *)
Miss(r) ==
    /\ ~stateless
    /\ sid[r] # None /\ ~Known(r)
    /\ Finish(r, "select", "failed")
    /\ UNCHANGED <<found, used, charged, live, unmapped>>

-----------------------------------------------------------------------------
(* The tool call in that server. *)

(* What the limiters count by: the id of the session.  Stateless, that is     *)
(* what the client sends, and a new one for a request that names none.        *)
Id(r) == IF ~stateless THEN server[r] ELSE IF sid[r] # None THEN sid[r] ELSE r

(* The bucket in the memory of the process: of its shared server, or of the   *)
(* server built for the session or the request.                              *)
InMemory(r) == [store |-> at[r],
                object |-> IF found[server[r]] = Keyless THEN None ELSE server[r],
                id |-> Id(r)]

(* server.Build and guardrails.New: with Valkey the limiter is shared. *)
BucketOf(r) == IF vc[at[r]] THEN [store |-> "valkey", object |-> None, id |-> Id(r)]
               ELSE InMemory(r)

Spent(b) == Cardinality({q \in Request : charged[q] = b})

(* The bucket is empty, or Valkey does not answer. *)
Exceed(r) ==
    /\ Finish(r, "call", "failed")
    /\ Spent(BucketOf(r)) >= Limit \/ vc[at[r]]
    /\ UNCHANGED <<found, used, charged, live, unmapped>>

(* The rate check passes, and the Odoo client of the server is used with the  *)
(* credentials it was built with; those of the shared server are the service  *)
(* account's, for Keyless.  What Odoo answers, and whether the reply arrives, *)
(* or the client is gone or WriteTimeout over, makes no difference any more.  *)
Call(r) ==
    /\ Finish(r, "call", "served")
    /\ Spent(BucketOf(r)) < Limit
    /\ charged' = [charged EXCEPT ![r] = BucketOf(r)]
    /\ used' = [used EXCEPT ![r] = found[server[r]]]
    /\ UNCHANGED <<found, live, unmapped>>

-----------------------------------------------------------------------------
(* The processes. *)

(* What is left of the requests of a process that ends. *)
Abandon(p) ==
    LET cut == {r \in Request : at[r] = p /\ pc[r] \in InFlight}
    IN  /\ pc' = [r \in Request |-> IF r \in cut THEN "failed" ELSE pc[r]]
        /\ sid' = [r \in Request |-> IF r \in cut THEN None ELSE sid[r]]
        /\ server' = [r \in Request |-> IF r \in cut THEN None ELSE server[r]]
        /\ at' = [r \in Request |-> IF at[r] = p THEN None ELSE at[r]]
        /\ charged' = [r \in Request |-> IF charged[r] # None /\ charged[r].store = p
                                         THEN [charged[r] EXCEPT !.store = None]
                                         ELSE charged[r]]
        /\ unmapped' = [r \in Request |-> unmapped[r] /\ r \notin cut]

(* Faulty: the sessions outlive the process. *)
EndKeepingSessions(p) ==
    /\ up[p]
    /\ ends < MaxEnds
    /\ ends' = ends + 1
    /\ up' = [up EXCEPT ![p] = FALSE]
    /\ Abandon(p)
    /\ UNCHANGED <<stateless, user, creds, token, vc, degraded, found,
                   used, live>>

(* A process exits or is killed: its requests, its sessions and the buckets   *)
(* in its memory are gone.                                                   *)
End(p) ==
    /\ up[p]
    /\ ends < MaxEnds
    /\ ends' = ends + 1
    /\ up' = [up EXCEPT ![p] = FALSE]
    /\ live' = {s \in live : at[s] # p}
    /\ Abandon(p)
    /\ UNCHANGED <<stateless, user, creds, token, vc, degraded, found, used>>

(* Kubernetes starts a process; when Valkey does not answer, it goes without   *)
(* cache and shared limiter for all its life.                                *)
Start(p) ==
    /\ ~up[p]
    /\ up' = [up EXCEPT ![p] = TRUE]
    /\ \E v \in BOOLEAN :
          /\ vc' = [vc EXCEPT ![p] = v]
          /\ degraded' = (degraded \/ ~v)
    /\ UNCHANGED <<stateless, user, creds, token, ends, reqVars, live>>

-----------------------------------------------------------------------------
Handle(r) ==
    \/ Send(r) \/ Reject(r) \/ Find(r) \/ NotFound(r)
    \/ SelectOwn(r) \/ Open(r) \/ Resume(r) \/ Mismatch(r) \/ Miss(r)
    \/ Exceed(r) \/ Call(r)

Next ==
    \/ \E r \in Request : Handle(r)
    \/ \E u \in User : Login(u) \/ DeleteUser(u) \/ \E c \in Credential : CreateUser(u, c)
    \/ \E p \in Replica : End(p) \/ Start(p)

Spec == Init /\ [][Next]_vars

-----------------------------------------------------------------------------
(* The endpoint implements Access: whatever happens to sessions, processes and *)
(* rows, and whichever session a request names, it acts only after its own    *)
(* lookup found its user, and then with credentials a lookup for that user    *)
(* has found: in a live session the ones of its opening, deleted since or     *)
(* not; stateless, its own.  About: the lookup in front of every request, and *)
(* the UserID of TokenInfo, by which the SDK keeps a session to its user.     *)
A == INSTANCE Access
ActsAsChecked == A!Spec

(* Who logged in through the broker is told "not configured" only after having *)
(* been without a row during that very request, or when Dex spells the email  *)
(* otherwise than the row does.  About: the email claim being the lookup key, *)
(* and the broker asking for it whatever the client asks.                    *)
FoundWhileMapped ==
    \A r \in Request : pc[r] = "unknown" => unmapped[r] \/ token[user[r]] = "respelled"

(* No session id gets more than its limit in a second, over all servers and   *)
(* replicas, unless the server is stateless and a process has started without *)
(* Valkey.  Stateless requests that name no session are limited by nothing:   *)
(* each gets an id of its own.  About: a limiter built for every server       *)
(* object, in Valkey or in memory, and forgotten when its process ends.       *)
LimitKept ==
    ~stateless \/ ~degraded =>
        \A r \in Request : charged[r] # None =>
            Cardinality({q \in Request : charged[q] # None /\ charged[q].id = charged[r].id})
            <= Limit
-----------------------------------------------------------------------------
(* The inductive invariant of the proofs, in parts. *)

(* A request that runs has its process; one that is not over has left no trace. *)
RunInv ==
    \A r \in Request :
        /\ pc[r] \in InFlight => at[r] # None /\ up[at[r]]
        /\ pc[r] \in {"idle", "auth"} => found[r] = None
        /\ pc[r] \in {"select", "call"} => found[r] # None
        /\ pc[r] # "served" => used[r] = None /\ charged[r] = None

(* What is found for s may be used by r: its user is the same. *)
Own(r, s) == user[s] = user[r] /\ found[s] # None

(* A session a request may name was opened with what a lookup found, and one  *)
(* that is resumed is the user's own.                                        *)
SessionInv ==
    /\ \A s \in live : pc[s] = "served" /\ found[s] # None
    /\ \A r \in Request : pc[r] = "call" =>
          /\ server[r] # None /\ Own(r, server[r])
          /\ IF stateless THEN server[r] = r
             ELSE server[r] \in live /\ at[server[r]] = at[r]

(* Who is logged in has an email in the token, and who has no row is known to. *)
LookupInv ==
    /\ \A u \in User : token[u] # "subject"
    /\ \A r \in Request : pc[r] # "idle" => token[user[r]] \in {"email", "respelled"}
    /\ \A r \in Request : pc[r] = "auth" /\ creds[user[r]] = None => unmapped[r]

(* The bucket of a live session: that of the process that keeps it. *)
SessionBucket(s) ==
    IF vc[at[s]] THEN [store |-> "valkey", object |-> None, id |-> s]
    ELSE [store |-> at[s], object |-> IF found[s] = Keyless THEN None ELSE s, id |-> s]

(* What q was charged to is the bucket of its session, while that lives. *)
OfSession(q) ==
    /\ charged[q].id \in Request
    /\ pc[charged[q].id] = "served"
    /\ charged[q].id \in live => charged[q] = SessionBucket(charged[q].id)

(* With sessions, every charge is its session's; with Valkey in every process, *)
(* it is in Valkey.                                                          *)
ChargeInv ==
    /\ ~stateless => \A q \in Request : charged[q] # None => OfSession(q)
    /\ ~degraded => \A p \in Replica : vc[p]
    /\ stateless /\ ~degraded => \A q \in Request : charged[q] # None =>
          charged[q] = [store |-> "valkey", object |-> None, id |-> charged[q].id]

IInv ==
    /\ TypeOK /\ RunInv /\ SessionInv /\ LookupInv /\ ChargeInv
    /\ FoundWhileMapped /\ LimitKept
=============================================================================
