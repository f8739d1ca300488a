# Odoo MCP server: TLA+ models and proofs

The Odoo MCP server gives AI clients ten tools over an Odoo ERP. It runs as
several replicas behind a load balancer (`replicaCount: 2`, 3 in production)
that share one Valkey, one Dex and one PostgreSQL; a broker beside it lets MCP
clients log in at Dex. This directory models the parts of it that keep or change
shared state, checks them with TLC on small instances, and proves the safety
properties with TLAPS for every instance. Line numbers below are those of the Go
source.

## Inventory

| Component | State | Operations | What makes it correct |
|---|---|---|---|
| Result cache (`internal/cache`) | keys `mcp:{uid}:{tool}:{hash}` in Valkey, each with a TTL | `handleReadTool`, `handleWriteTool`; `Get`, `Set`, `Invalidate` (SCAN pages, then DEL) | a user reads what the user wrote; replies are the user's own; a call ends when the cache answers; nothing stale stays for good |
| UID resolver (`internal/server`) | `uid`, `done` per server object, under a mutex dropped around the remote call | `resolve` | the key's uid is that of the client behind the server |
| Server construction (`internal/server`) | a limiter, a client and a cache per server object | `Build` | the limit is the session's, not the server object's |
| Rate limiter, in memory (`guardrails.go`) | a token bucket per session, under a mutex | `check` | bounded bursts; no rejection of a caller within its rate |
| Rate limiter, Valkey (`valkey_ratelimiter.go`) | a counter per session and unix second | `check` (clock, then Lua script) | the same over all replicas; no counter that never expires |
| Guardrails, tool handlers (`internal/tools`) | none of their own; Odoo's records, the audit log | ten handlers: checks, Odoo request, audit entry, reply; `search_count` after a full page | guardrails before the change and before every answer; every change and every answer audited; an honest truncation notice |
| Odoo client (`internal/odoo`) | none | one HTTP request per call, timeout 30 s | a lost response is an error, the work may have been done |
| Admin API (`internal/admin`) | none of its own | `CreateUser`, `DeleteUser`, `ListUsers` | Dex and PostgreSQL agree on a user, or a retry repairs it |
| User store, Dex client | `user_mappings`; Dex passwords | insert, delete, list, look up; create, delete | one transaction per call, nothing across the two |
| Bootstrap (`cmd/odoo-mcp/main.go`) | none of its own | list, create password, create mapping, at every start | one admin who can log in, all replicas serve |
| Authentication (`internal/auth`) | the request's context | token of Dex with its `UserID`, then the lookup in `user_mappings` | a request acts only with credentials found for its user |
| HTTP transport, sessions (`main.go`) | a server object per session, in one process, or per request | server selection, opening and resuming | whoever resumes a session is looked up again, and is its own user (403 of the SDK otherwise); it is kept by one process only |
| Process end (`main.go`) | the listener, the pool, the requests in flight | signal, `Shutdown`, deferred `Close` calls | requests are drained before the process exits |
| OAuth broker (`cmd/mcpoauth`) | none (clients and logins are Dex's) | `/authorize`, `/register`, metadata | redirects checked; the email, by which users are looked up, is always asked for |
| Configuration, admin page, manifests | - | - | data and presentation |

How they interact: a client gets its token through the broker; `auth` looks its
user up and puts the Odoo credentials into the request's context; `startHTTP`
builds a server for them (`server.Build`) with its own resolver and guardrails
and the shared Valkey client, for the session or, stateless, for the request;
the cache middleware of that server runs before the tool handler, which asks the
guardrails, then Odoo, then writes the audit entry. The admin API and the
bootstrap write the same two stores, from every replica. Nothing is coordinated
between replicas except through those stores and Valkey, and the load balancer
sends a request to any replica, whatever session it names.

What is hard here: reads and writes of one user run concurrently on several
replicas against a cache that is invalidated by prefix with several commands;
every remote call may fail after it has taken effect; two stores are written
without a transaction; processes die between any two calls, and start without
Valkey when it does not answer; credentials change under open sessions; and
counters are shared by time windows. `PROJECT.json` lists 40 such hazards at
their lines, with the properties that are about them.

## Modules

| Module | Models | Extends |
|---|---|---|
| `CacheMiddleware` | cache middleware, Valkey commands, UID resolver, process crashes, Odoo's data as versions | |
| `RateLimit` | what a limiter promises: at most `Limit` calls of a session in any second | |
| `TokenBucket` | the in-memory limiter; implements `RateLimit` | |
| `WindowLimiter` | the Valkey limiter | |
| `ToolHandlers` | the ten handlers, guardrails, Odoo requests, audit, truncation notice, the cache in front | |
| `IdentityStores` | Dex passwords and user mappings, one action per call | |
| `AdminUsers` | concurrent `CreateUser` and `DeleteUser` | `IdentityStores` |
| `Bootstrap` | `bootstrapAdmin` on all replicas | `IdentityStores` |
| `Identity` | both together: replicas that start and die, with the admin requests they run | `Bootstrap`, and an instance of `AdminUsers` |
| `Broker` | the redirect check and the scopes of `/authorize`, as operators | |
| `Access` | what the MCP endpoint promises about credentials | |
| `Sessions` | login, authentication, server selection, limiter, processes; implements `Access` | `Broker` |
| `Shutdown` | the end of a process | |
| `CacheProofs`, `BucketProofs`, `WindowProofs`, `HandlersProofs`, `IdentityProofs`, `SessionsProofs`, `ShutdownProofs` | theorems | their module |
| `MC...` | constants and symmetry for TLC | |

Operators called "Faulty" are variants of the definition below them with a
plausible mistake; no specification uses them. Each shows that a property
notices the mistake.

### CacheMiddleware

A `Call` is one `tools/call` request. Its `pc` names what it does next:

    read:   resolve (ask)  get  fetch  store   -> replied | failed
            ask fails: bypass                  -> replied | failed
    write:  handle  resolve (ask)  scan  del   -> flushed | unflushed | failed

`resolve`/`ask` are the two halves of `uidResolver.resolve`, whose mutex is free
during `ServerInfo`. `Fetch` is the moment Odoo runs the read, `Store` the `SET`;
`Commit` is the moment Odoo commits. `Scan(c, k)` is the SCAN loop coming to one
key, in any order, so that pages are groups of these steps; keys stored behind
the cursor are not seen, as SCAN allows. `Del` removes all collected keys at
once. Every remote step has its failure: a failed `Get` misses, a failed `Set` is
logged, a failed SCAN or DEL leaves the write unflushed, a failed write may have
committed. `Crash` loses the calls of a server object and its resolver;
`Expire` is the TTL; `OutsideWrite` stands for whoever else changes Odoo: its own
users, and MCP users under other uids, whose writes (`odoo_call` included, which
is a write tool) invalidate the entries of their own uid only.

An answer records its database, uid, version and the call that fetched it. Three
histories serve the properties: `since` (the writes already invalidated when the
call began), `missedBy` (the invalidations that were past the key when a read
stored it), and the version a write committed, in `got`.

* `ReadYourWrites`: a read that begins after a write of its user was invalidated
  is answered with that write or a later state, unless its answer was stored
  late, by a read that overlapped the write and stored it when the
  invalidation was already past the key. The exception is exactly the race of
  finding 1; without it (`NoStaleReadAfterWrite`) TLC finds the race.
* `OwnAnswer`: a reply is from the caller's database and uid.
* `CallsAdvance`: every step of a call brings it nearer to its end (`LabelsLeft`, or
  a SCAN with less to do), and no store of new keys, failure or crash sets it
  back. It is the part of `CallsEnd` that does not depend on fairness: a call has a
  bounded number of steps. One GET or one SCAN command is one step here, however
  often the library sends it.
* `CallsEnd`: a call ends, or waits for ever for the answer to a GET or a SCAN,
  which nothing in the code bounds (see Fairness).
* `EventuallyFresh`: a stale entry does not stay.

### RateLimit, TokenBucket, WindowLimiter

All three have an observer: `Observe(s)` picks any moment `from[s]`, and
`admitted[s]` counts the calls allowed after it. A statement about
`now - from[s] < Second` is thus about every window of a second. Tokens are in
units of 1/`Second`, which makes the refill exact where the code uses floating
point. A full bucket and a second of refill give `2 * RPS` as the limit, and TLC
and the proof agree that the bound is kept. `WindowLimiter` counts per unix
second and keeps the same bound across the second's end; the doc comment
("sliding window", `valkey_ratelimiter.go:25`) suggests `RPS`, which a window of
fixed seconds does not give. Its bound excludes windows with a script that runs
after the second it counts (`late`), which bring calls of two seconds into a
third. Rejections are bounded with no such exclusion. The `TypeOK` of
`WindowLimiter` includes that no check holds the key of a second the clock has not
reached.

### ToolHandlers

`Plan` gives the checks of each handler in its order (the writing tools check
and parse; the others parse and check). `Refuse` leaves the audit entry that
handler leaves, which for the reading tools, `odoo_message_post` and the
parsing of `odoo_call` is none. `Write`, `Read` and `OdooFails` are the Odoo
request with its outcomes, `Report`/`ReportError` the audit entry, `Count` the
second request of `search_read`. `low` and `high` record how many records there
were while a call was between its two requests. The verdict of the rate limiter
is free: it may always pass and always refuse. `OnlyAllowedServed` therefore says
nothing of the rate limit, which hits do not count against, nor of replicas that
are configured with different block lists, since the configuration is fixed.

Empty arguments are where the handlers differ. `parseIDs` makes no ids of `''` and
`'[]'` (`registry.go:141`); `odoo_unlink` refuses that, `odoo_write` goes on to
Odoo. `MayChange` and `MayChangeNothing` say what Odoo may do with a request it
answers below 400: a write of no ids or no fields changes nothing, a method of
`odoo_call` may change something or not, everything else does (ids of records that
do not exist are an error to Odoo). `SuccessIsReal` is about the rest: it excepts
the writes without ids or fields, the unlinks without ids and `odoo_call`.

`Panic` is an answer of `ir.model` of a shape `ListModels` does not expect: the call
fails and leaves no audit entry. `ChangesAreAudited` is about changes and
`AnswersAreAudited` about answers, so neither says anything of that read.

The cache is in front of the guardrails (`middleware.go:101`): `Hit` answers a
call before any check of its handler, with the reply of an equal call that was
`stored`, and writes the audit entry itself; `Evict` is expiry or invalidation at
any moment. What is stored when is the matter of `CacheMiddleware`; here the
question is which replies may be stored at all. A refusal is a result too, with
`IsError` set, and line 137 keeps it out; `OnlyAllowedServed` fails without that.

`WorksOnce` is about steps: the client sends a request once, whatever becomes of
the answer (`HTTPClient.call`), so that a change whose response was lost is not made
again, and once the audit entry is written neither it nor what the call did
changes.

### IdentityStores, AdminUsers, Bootstrap, Identity

`dex[u]` and `mapping[u]` hold who wrote the entry, a request or a replica.
`AdminUsers` follows a request through `create`, `delete`, `recreate`, `insert`.
`Fault` fails any of these, with or without its effect, and also stands for the
death of the process, after which the request never gets an answer. `unmapped`,
`disturbed`, `faulty` are histories with which the properties say "alone".
`Bootstrap` follows a replica through `connect`, `list`, `create`, `insert`,
`serving`; any error brings it back to `connect`, since the process exits and
Kubernetes starts it again.

`CreateMapping` refuses a second row for a user. That is the unique constraint of
which `store.go:80` speaks; the schema is not in the repository, so the modules
assume it. `NoLockout` is about overlaps: it exempts users of a failed request, and
so does not speak of a recreate that fails after the delete
(`handler.go:117`), which does lock the user out until the next `CreateUser`.

`Identity` runs both over the same stores: a request is run by a replica that
serves (`at`), and ends with it (`Die`); a start writes under the requests for
the admin, and disturbs them; `Remove` may delete any user, the last one too.
`StartsOrStuck` says what the code promises about starting, with the one
exception it has: in the end all replicas serve, or the table of users is empty
while Dex has the admin's password, which no start repairs (finding 4). `Stuck`
names that state, with nobody serving or about to insert, for two properties that
need no fairness: `StuckOnlyByFault` (starts that only race never lead there) and
`StuckStays` (nothing leads out). `FailureReplacesPassword` is the other side of
finding 3: a request that fails though it ran alone has found the user mapped,
and the user's old password is gone.

### Broker, Access, Sessions

`Broker` has the check of redirect URIs and the loop that puts the required
scopes in front of those a client asked for. A scope parameter is the sequence of
its words. `Claims` is Dex's part, external: the email is in the ID token only if
its scope was granted, and the email is the key of the lookup. What it is spelled
like is Dex's matter too. The row has the name as the admin typed it
(`dexclient/client.go:132`, `handler.go:140`) and the lookup is exact
(`auth/middleware.go:181-189`), so that a claim may be `respelled`, and then its
user is never found.

`Sessions` follows an HTTP request: `Send` to any replica, `auth` (`Find`,
`NotFound`, `Reject`), `select` (`SelectOwn`, `Open`, `Resume`, `Mismatch`, `Miss`),
`call` (`Call`, `Exceed`). A session is named by the request that opened it and so
is its server object; `live` and `at` say which process keeps it. The header
`Mcp-Session-Id` is the client's to choose: `Send` takes any session that was ever
opened, by anybody, or none. What keeps a session to its user is the `UserID` that
the middleware puts into the token (`auth/middleware.go:171`), which the SDK
compares with that of the opening: `Resume` if they agree, `Mismatch` (403) if not.
That comparison is the SDK's and external; the faulty `UserIDUnset` shows what it
needs of the code. Stateless, there are no sessions, and a client may send one of
its own ids (`ClientId`) or none, and then the request gets a fresh id.

`BucketOf` is where a check is counted: in Valkey under the session's id, or, when
the process started without Valkey, in the memory of its server object. `End` loses
sessions and buckets of a process, `Start` brings up one that may not find Valkey.
All of this happens within one second of the limiters, so that a bucket only fills
up: the passing of time is in `TokenBucket` and `WindowLimiter`.

* `ActsAsChecked` (refinement of `Access`): whichever session a request names, it
  acts only after its own lookup found its user, and with credentials that a lookup
  for its user found; in a session these are the ones of its opening, even when the
  row has changed or gone since, and stateless they are its own.
* `FoundWhileMapped`: who logged in through the broker is told "not configured"
  only after having been without a row during that request, or when the claim is
  spelled otherwise than the row. This joins the broker's scopes to the lookup.
* `LimitKept`: no session id exceeds its limit over all servers and replicas, unless
  the server is stateless and a process has started without Valkey: there every
  request has a limiter of its own, and no limit applies. Nor does one apply to
  stateless requests that name no session, each of which has an id of its own, with
  Valkey or without; the property is per id and says so.

### Shutdown

The main goroutine in `ListenAndServe`, the goroutine that calls `Shutdown`, and
those of the requests. `RequestsAreDrained` is what `main.go:252` says; it fails
(finding 5).

## Runs

| Run | Instance | Question | Result |
|---|---|---|---|
| `cache` | 3 calls, 2 servers of 2 users, 2 queries, 2 writes | `ReadYourWrites`, `OwnAnswer` | hold, 1.6 M states |
| `cache_live` | 2 calls, 2 servers of one user, fairness | `CallsAdvance`, `CallsEnd`, `EventuallyFresh` | hold, 93 K states; `CallsEnd` up to an unanswered GET or SCAN |
| `token_bucket` | 2 sessions, rps 2, 2.5 s in half seconds | implements `RateLimit`; rejects only excess | hold |
| `window_limiter` | 3 goroutines, 1 session, rps 2, 3 unix seconds, delay up to half a second | bound, rejections, no leaked counter | hold, 92 K states |
| `identity` | 2 users, 2 requests, 2 replicas, 2 faults anywhere, any deletions, fairness | retry repairs, whole users, what a failure leaves, no lockout, the admin can log in, starts end well or are stuck in the known way, for the known reasons and for good | hold, 285 K states |
| `sessions` | 2 users, 3 requests naming any session, 2 replicas, limit 1, one process end | implements `Access`; mapped users are found; the limit is kept | hold, 0.9 M states |
| `tool_handlers` | 2 calls of any tool, 0 to 3 records, limit 1, offset 1 | guardrails, audit, truncation, what the cache may answer, one request with effect per call | hold, 3.1 M states |
| `cache_race` | 3 calls of one user | reads after a write see it | violated |
| `cache_collision` | 2 databases, one uid | replies are the caller's own | violated |
| `admin_existing` | 1 user, 3 requests | existing users are updated | violated |
| `bootstrap_torn` | 3 replicas, 1 fault anywhere, fairness | all serve | violated |
| `shutdown` | 2 requests | requests are drained | violated |

Why the bounds are enough. Cache: the race needs a late read, a write and a
reader, three calls; two queries let SCAN meet more than one key; two versions
let an answer be older than the write it misses by one. Token bucket: half a
second more than two seconds holds a full burst, a refill to the cap and a
second burst. Window: three checks with rps 2 reach a rejection in each of three
seconds, and a script can be late. Identity: two requests overlap or one retries
after the other; two replicas are a winner and a loser of the bootstrap's race;
two faults are a torn start and a torn request; the second user is one the admin
API makes while the admin is missing. Sessions: with limit 1, three requests are
one that opens a session, one that uses it up and one that is refused, or goes
through where it should not; with two users, one may name the session of the other, and
its rows may change in between; a user without requests does nothing (`SendersOnly`),
since nobody would notice; one end and the start after it, with or without
Valkey, give processes of both kinds side by side. Handlers: calls meet in the
number of records and in the cache; two suffice for a change between the two
requests of `search_read` and for an answer stored by one and given to the other,
and outside changes give the rest. The proofs below have none of these bounds.

Deadlock is checked in every run but `shutdown`, where a process that has exited
really stops; elsewhere finished instances have a `Done` step or an observer or
environment that goes on.

### Fairness

`cache_live` assumes weak fairness of each call's next step, except while it waits
for a GET or a SCAN (`ReadsValkey`), and of each key's expiry. Requests to Odoo have
`ODOO_TIMEOUT`, and `Set` is always given a positive TTL, since `ToolTTL` has a
default. For Valkey the code sets nothing but the address (`client.go:21`), and the
context of a call has no deadline. The library repeats a read-only command that
failed for as long as its context lives, so a call may wait for GET or SCAN for ever;
SET and DEL it does not repeat, and its default timeout of a connection ends them.
Both are facts about the library, which is external. Nothing is assumed about which
outcome a call has, nor that a call succeeds.

`identity` and
`bootstrap_torn` assume weak fairness of each replica's start and of nothing
else: Kubernetes restarts a container that exits, and each of its calls ends.
Requests, deletions and faults need not happen; faults are bounded.

## Proofs

Assumptions: those named in the modules (`CacheAssumption`, `BucketAssumption`,
`WindowAssumption`, `HandlersAssumption`, `StoresAssumption`,
`BootstrapAssumption`, `SessionsAssumption`): constants have their types and
placeholders are not values. Sets of calls, servers, users, replicas, queries and
databases are arbitrary, infinite ones included; `SessionsProofs` alone takes
`Request` to be finite, because it counts charges. Two theorems assume something of
a behaviour, `OnTimeImplementsPromise` and `WaitingWouldDrain`; both name it as a
state predicate, explained below, and behaviours of either kind exist.

**Cache** (`CacheProofs`). `ReadYourWrites` is not inductive: it says nothing of
what is in the cache. `IInv` adds the chain of facts from Odoo to a reply:
the resolver and the uid of a call are those of its server (`ResolverInv`,
`UidInv`); a write past its handler knows the version it committed (`WriteInv`);
what a read is about to store is at least as new as the writes it came after
(`FetchedInv`); an entry that is alive was stored after every invalidation that is
now past its key (`EntryInv`: otherwise that invalidation would have removed
it); and a reply is the call's own or such an entry (`ReplyInv`). The step where
it is decided is `EntryStep`: `Scan` and `Del` move an invalidation past a key, and
the key is then either gone or stored behind it. `RepliesAreOwn` needs that a uid
belongs to one database, which is what the code does not ensure (finding 2).
`CallsHaveBoundedSteps` proves `CallsAdvance` from the typing: what a call's own
step does to the measure is one lemma, that nobody else moves it another. What is
left of `CallsEnd` for TLC is fairness alone.

**Token bucket** (`BucketProofs`). `BucketInv` bounds the tokens left plus the
tokens spent since `from[s]` from above (full bucket plus refill) and from below
(full bucket, or the refill alone). From above follows `BurstIsBounded`, that
`TokenBucket` implements `RateLimit` (a rejection is a stutter); from below
`OnlyExcessRejected`. The products in it are handled by four lemmas on
`Refill` and `Cost`. What implementing `RateLimit` is worth is a theorem too:
`PromiseMeansLimit` proves from `RateLimit` alone that no window of a second has
more than its limit, and `BurstsStayWithinLimit` is that for the token bucket.

**Window limiter** (`WindowProofs`). The bound over any second needs to know
which counters the calls of a window are in. `ClockInv`, which `TypeOK` includes,
keeps the keys of checks within the seconds that have begun; `ExpiryInv` says that a
counter outlives the
second it counts, because it is given a second from its first INCR, so that the
counter of the current second never loses calls; `AdmittedInv` counts what was
allowed in the second of `from[s]` against the counter of that second, and later
against `RPS` and the counter of the next, a window having moments of at most two
unix seconds (`TwoSeconds`). `CountInv` is for the rejections: a counter that
expires more than a second after `from[s]` was begun after it, and so has no more
than the observer counted. Every rejecting counter is such a one a second after
`from[s]`. All outcomes of a check run the same script, whose effect is one lemma.
`OnTimeImplementsPromise` says that both limiters keep one promise: while no script
runs after the second it counts (`OnTime`, for every session and window) each step
of the Valkey limiter is a step of `RateLimit` with `2 * RPS` or a stutter. Without
`OnTime` it is not: the late script is the exclusion of `BurstBounded`.

**Handlers** (`HandlersProofs`). The properties speak of changes and answers, not
of how a handler gets there: `CheckInv` says that the checks left are the end of
the plan and those before them have passed, so that a call at Odoo has passed
them all (`EffectInv`) and so has the call whose reply is stored; `LogInv` says
where a call may be with which audit entry; `PageInv` that a page that is not full
had all the records there were at some moment. The call that moves and all the
others are separate lemmas: what others do reaches a call only through `records`
and through a stored reply. `CallsWorkOnce` follows from `EffectInv` (nothing is
committed before the request) and `LogInv` (the entry comes after the outcome).

**Identity** (`IdentityProofs`). Five parts make the properties inductive:
`AloneInv`, what a request that nobody disturbed knows of the stores, which gives
`RetryRepairs` and `CreatedIsWhole`; `PasswordInv`, that a mapping that is there
or about to be made has a password, or a request that will make it or has failed,
which gives `NoLockout` (the mapping alone is not enough: the request about to
insert it comes first); and `AdminInv`, that while only starts have touched the
admin the password belongs to the one start that may insert the mapping, and
nobody serves before that, which gives `AdminCanLogIn`. `RunningInv` says that a
request runs on a replica that serves and has not written the mapping yet: with
it a failure that ran alone can only be the mapping of somebody else, which is
`FailureReplacesPassword`. `FreshInv` is about the time before the first mapping:
no request runs and nobody serves, and unless a start has failed the one whose
password is in Dex is about to insert; hence `StuckOnlyAfterFaults`. That nothing
leads out of `Stuck` (`StuckIsPermanent`) uses `RunningInv` again: requests need a
replica that serves, and there is none.

**Sessions** (`SessionsProofs`). `RunInv` ties a request to its process and to
what it has done; `SessionInv` says that a session was opened after a lookup, and
that a request about to act has its own server or that of a session of its own user,
which `Resume` has from the comparison of `UserID`s, since a request may name any
session; `LookupInv` carries
the broker's scopes to the lookup (`RequiredScopes`: the three scopes are there,
and so is everything the client asked for; the claim is the email, in whichever
spelling); `ChargeInv` says to which bucket the
calls of a session are charged while it lives, and that without degraded
processes all is in Valkey. From it follows that the calls of one session share a
bucket, which is `LimitHolds`; from `SessionInv` follows `ActsOnlyAsChecked`, step
by step an implementation of `Access`. `AccessMeansOwn` proves from `Access` alone
that a request acts only after its own lookup and with what a lookup for its own
user found, in whichever of the user's requests; `OwnCredentialsOnly` is that for
the endpoint. The loop of the broker has two theorems more: `ClientScopesKept`, that
the client's words stay as they are behind the missing required ones, and
`InjectingTwice`, that a second pass changes nothing.

**Shutdown** (`ShutdownProofs`). The property that `main.go:252` states is violated;
two theorems say how far. `OnlyTheEndDoes`: requests fail or are cut off by the end
of a process only after a signal, and none is cut off once Shutdown has seen them
all answered. `WaitingWouldDrain`: in the behaviours in which the pool is never
closed while Shutdown is under way (`MainWaits`, which the code leaves to chance and
waiting for Shutdown to return would ensure), requests are drained, and none even
fails, unless the 30 seconds run out. `EndInv` needs what main's state says of the
pool and the pool's of the requests; in the last theorem a step of `Lookup` or
`Exit` that interrupts finds Shutdown neither waiting nor drained, and so expired.

Only model-checked: all liveness (`CallsEnd`, `EventuallyFresh`,
`StartsOrStuck`), which is out of reach of the proof system; `CallsAdvance`,
`StuckOnlyByFault` and `StuckStays` are the parts of it that are safety. The safety
and action properties of the passing runs are all proved. The properties of the
other runs are false of the code and have a counterexample.

## Findings

1. A read that overlaps a write can put the old state back after the
   invalidation (`middleware.go:143`); later reads see it for up to the TTL.
2. Cache keys do not name the database (`client.go:43`): users of two Odoo
   databases with the same uid share entries.
3. `CreateUser` for an existing user changes the password, then answers 500
   (`handler.go:149`).
4. A crash or lost reply between `CreatePassword` and `CreateMapping` of the
   bootstrap stops every later start (`main.go:299`). So does a restart after the
   last user was deleted.
5. `ListenAndServe` returns when `Shutdown` begins (`main.go:271`): the stores are
   closed and the process exits with requests still in flight.

Seen without a run of its own: `odoo_unlink` without ids is refused and audited
as a success (`unlink.go:75`), since `auditResult` overrides the entry's
`Success: false`. `odoo_write` without ids or fields asks Odoo to change nothing,
is audited as a success and answers `"success": true` (`write.go:81-100`,
`registry.go:141`). `SuccessIsReal` names both exceptions. When Valkey is
unreachable, a tool call may wait at its GET or SCAN for as long as it lives: the
fall-through to the handler (`middleware.go:106`) comes only once GET has returned
an error, and the library that repeats it has no deadline from the code
(`client.go:21`). `CallsEnd` names this wait.

## Not modelled

`PROJECT.json` gives the reason for each component. In short:

* Configuration is read once. The modules leave `ReadOnlyMode` and
  `StatelessSessions` free and take `RateLimitRPS` as a constant; values of
  booleans and numbers that do not parse become the default without a word;
  `AuthMode` is read by `Validate` alone.
* The direct API key of the authentication middleware is dead: `startHTTP` gives
  it no `OdooURL`. `RegisterKeyHandler` is never mounted, since `RegisterRoutes`
  has no caller. `docs/admin-auth-dual-middleware.md` describes an
  `admin/auth.go` that the repository does not have.
* `POST /register` of the broker forwards to `CreateClient` and keeps nothing; the
  metadata endpoints are constants; what Dex does with a login is external.
* Encryption, hashing, and the classification of Odoo's errors are pure.
* stdio has one user and one server; the streams inside an HTTP session are the
  SDK's; the admin page and the manifests hold no changing state.

Abstractions to keep in mind. An Odoo user is what `ServerInfo` reports: an answer
of Odoo without a uid is uid 0 (`http_client.go:297-300`), and two such users
become one; the runs give each user a uid. Tokens are exact fractions, without
the rounding of `float64`. The clock of `WindowLimiter` is one for Valkey and all
replicas. The unique constraint of `user_mappings` is assumed (`store.go:80`). An
email claim is spelled like the row or not, and stays so; how Dex spells it is not
modelled. Odoo answers ids of missing records with an error. The library of Valkey
does not repeat SET or DEL.

## Plan

Modelled and proved so far: everything above. What is left is small:

1. Proofs: that the requests of `Identity` implement the abstract view an
   administrator has of a user (absent, whole, torn); a bound on how stale a reply
   can be in terms of TTLs, which needs time in `CacheMiddleware`.
2. Monotonic reads of a session through the cache, as a finding or a bound, if
   the documentation comes to promise them.
3. Clocks that differ between replicas and Valkey in `WindowLimiter`, which
   would make every check of a slow replica late.
4. Registration at the broker with Dex's clients, once the code looks at the
   redirect URIs of registered clients itself.
