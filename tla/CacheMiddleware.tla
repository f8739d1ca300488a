--------------------------- MODULE CacheMiddleware ---------------------------
(***************************************************************************)
(* The Valkey result cache in front of the MCP tools                       *)
(* (internal/cache/middleware.go, internal/cache/client.go) and the UID    *)
(* resolver of each MCP server (internal/server/server.go).                *)
(*                                                                         *)
(* Every tools/call request is a Call, run by its own goroutine on some    *)
(* server object; servers of several replicas and of several users share   *)
(* one Valkey.  Data is abstracted to versions: Odoo's answer to a read is *)
(* the version its database had when Odoo ran the read, and a committed    *)
(* write makes a new version.                                              *)
(***************************************************************************)
EXTENDS Integers

CONSTANTS
    Call,       \* tool-call requests, each handled once
    Server,     \* server.Build results: per-user servers, the shared server
    Uid,        \* Odoo user ids
    Query,      \* (tool, parameter hash) pairs of the read-only tools
    Database,   \* Odoo databases
    UidOf,      \* UidOf[s]: the Odoo uid behind the credentials of s
    DbOf,       \* DbOf[s]: the database the client of s talks to
    MaxVersion, \* bound on the versions of a database
    NoUid,      \* uidResolver.done is false
    NoEntry,    \* Valkey holds no such key
    NoAnswer    \* nothing has been read or written yet

Key    == [uid : Uid, query : Query]
Answer == [db : Database, uid : Uid, version : Nat, by : Call]

ASSUME CacheAssumption ==
    /\ UidOf \in [Server -> Uid]
    /\ DbOf \in [Server -> Database]
    /\ MaxVersion \in Nat
    /\ NoUid \notin Uid
    /\ NoEntry \notin Answer
    /\ NoAnswer \notin Answer

VARIABLES
    odoo,      \* the current version of each database
    cache,     \* the Valkey keyspace: an Answer for each live key
    resolved,  \* uidResolver.uid of each server, NoUid until done
    pc,        \* where each call is
    req,       \* the call's kind, server and query
    uid,       \* the uid resolveUID returned to the call
    got,       \* the answer a read holds, the version a write committed
    todo,      \* keys of the prefix the call's SCAN loop has not looked at yet
    found,     \* keys the call's SCAN loop has collected
    since,     \* history: the writes already invalidated when the call began
    missedBy   \* history: the invalidations past the key when a read stored it

vars == <<odoo, cache, resolved, pc, req, uid, got, todo, found,
          since, missedBy>>

Request == [kind : {"read", "write"}, server : Server, query : Query]

Ended    == {"replied", "failed", "flushed", "unflushed", "lost"}
InFlight == {"resolve", "ask", "get", "fetch", "store", "bypass",
             "handle", "scan", "del"}

(* Type invariant: the middleware, Valkey and the calls stay in their domains. *)
TypeOK ==
    /\ odoo \in [Database -> Nat]
    /\ cache \in [Key -> Answer \cup {NoEntry}]
    /\ resolved \in [Server -> Uid \cup {NoUid}]
    /\ pc \in [Call -> {"idle"} \cup InFlight \cup Ended]
    /\ req \in [Call -> Request]
    /\ uid \in [Call -> Uid \cup {NoUid}]
    /\ got \in [Call -> Answer \cup {NoAnswer}]
    /\ todo \in [Call -> SUBSET Key]
    /\ found \in [Call -> SUBSET Key]
    /\ since \in [Call -> SUBSET Call]
    /\ missedBy \in [Call -> SUBSET Call]

Init ==
    /\ odoo = [d \in Database |-> 0]
    /\ cache = [k \in Key |-> NoEntry]
    /\ resolved = [s \in Server |-> NoUid]
    /\ pc = [c \in Call |-> "idle"]
    /\ req \in [Call -> Request]
    /\ uid = [c \in Call |-> NoUid]
    /\ got = [c \in Call |-> NoAnswer]
    /\ todo = [c \in Call |-> {}]
    /\ found = [c \in Call |-> {}]
    /\ since = [c \in Call |-> {}]
    /\ missedBy = [c \in Call |-> {}]

-----------------------------------------------------------------------------
Goto(c, label) == pc' = [pc EXCEPT ![c] = label]

Srv(c) == req[c].server

(* Faulty: a key without the uid. *)
CacheKeyWithoutUid(c) == [uid |-> CHOOSE u \in Uid : TRUE, query |-> req[c].query]

(* CacheKey: only the uid, the tool and the parameters are in the key. *)
CacheKey(c) == [uid |-> uid[c], query |-> req[c].query]

(* The keys that MATCH the prefix "mcp:{uid}:". *)
Matching(u) == {k \in Key : k.uid = u}

(* The current version of the database the call's server talks to, and what *)
(* Odoo answers to its client at a version.                                *)
Current(c) == odoo[DbOf[Srv(c)]]
OdooAnswer(c, v) == [db |-> DbOf[Srv(c)], uid |-> UidOf[Srv(c)],
                     version |-> v, by |-> c]

(* The invalidation of w can no longer remove an entry stored at k: its     *)
(* DEL is over, or its SCAN went past k when k was absent.                  *)
Past(w, k) == \/ pc[w] = "flushed"
              \/ pc[w] \in {"scan", "del"} /\ k \notin todo[w] \cup found[w]

-----------------------------------------------------------------------------
(* A request reaches the middleware.  A read resolves the uid first, a      *)
(* write runs its handler first.                                            *)
Begin(c) ==
    /\ pc[c] = "idle"
    /\ Goto(c, IF req[c].kind = "read" THEN "resolve" ELSE "handle")
    /\ since' = [since EXCEPT ![c] = {w \in Call : pc[w] = "flushed"}]
    /\ UNCHANGED <<odoo, cache, resolved, req, uid, got, todo, found, missedBy>>

(* resolveUID returned u: a read goes on to Get, a write starts to Invalidate. *)
Resolved(c, u) ==
    /\ uid' = [uid EXCEPT ![c] = u]
    /\ Goto(c, IF req[c].kind = "read" THEN "get" ELSE "scan")
    /\ todo' = [todo EXCEPT ![c] = IF req[c].kind = "read" THEN {} ELSE Matching(u)]
    /\ UNCHANGED <<odoo, cache, req, got, found, since, missedBy>>

(* uidResolver.resolve under its mutex, done already set. *)
ResolveCached(c) ==
    /\ pc[c] = "resolve"
    /\ resolved[Srv(c)] # NoUid
    /\ Resolved(c, resolved[Srv(c)])
    /\ UNCHANGED resolved

(* ... done not set: the mutex is released before ServerInfo is called. *)
ResolveRemote(c) ==
    /\ pc[c] = "resolve"
    /\ resolved[Srv(c)] = NoUid
    /\ Goto(c, "ask")
    /\ UNCHANGED <<odoo, cache, resolved, req, uid, got, todo, found,
                   since, missedBy>>

(* ServerInfo answered: the result is recorded without looking at done. *)
AskOk(c) ==
    /\ pc[c] = "ask"
    /\ resolved' = [resolved EXCEPT ![Srv(c)] = UidOf[Srv(c)]]
    /\ Resolved(c, UidOf[Srv(c)])

(* Faulty: a failed ServerInfo is retried without end. *)
AskRetried(c) ==
    /\ pc[c] = "ask"
    /\ Goto(c, "resolve")
    /\ UNCHANGED <<odoo, cache, resolved, req, uid, got, todo, found,
                   since, missedBy>>

(* ServerInfo failed: a read skips the cache, a write is not invalidated. *)
AskFails(c) ==
    /\ pc[c] = "ask"
    /\ Goto(c, IF req[c].kind = "read" THEN "bypass" ELSE "unflushed")
    /\ UNCHANGED <<odoo, cache, resolved, req, uid, got, todo, found,
                   since, missedBy>>

-----------------------------------------------------------------------------
(* handleReadTool *)

(* Faulty: what Get returned is the reply, found or not. *)
GetUnchecked(c) ==
    /\ pc[c] = "get"
    /\ got' = [got EXCEPT ![c] = cache[CacheKey(c)]]
    /\ Goto(c, "replied")
    /\ UNCHANGED <<odoo, cache, resolved, req, uid, todo, found, since, missedBy>>

(* Get found the key: the stored result is the reply. *)
GetHit(c) ==
    /\ pc[c] = "get"
    /\ cache[CacheKey(c)] # NoEntry
    /\ got' = [got EXCEPT ![c] = cache[CacheKey(c)]]
    /\ Goto(c, "replied")
    /\ UNCHANGED <<odoo, cache, resolved, req, uid, todo, found, since, missedBy>>

(* Get found nothing, failed, or found a value that does not unmarshal. *)
GetMiss(c) ==
    /\ pc[c] = "get"
    /\ Goto(c, "fetch")
    /\ UNCHANGED <<odoo, cache, resolved, req, uid, got, todo, found,
                   since, missedBy>>

(* next succeeded: Odoo has run the read, the result is not stored yet.  On *)
(* the path that skips the cache it is the reply.                          *)
Fetch(c) ==
    /\ pc[c] \in {"fetch", "bypass"}
    /\ got' = [got EXCEPT ![c] = OdooAnswer(c, Current(c))]
    /\ Goto(c, IF pc[c] = "fetch" THEN "store" ELSE "replied")
    /\ UNCHANGED <<odoo, cache, resolved, req, uid, todo, found, since, missedBy>>

(* next returned an error or an IsError result, which is never stored. *)
FetchFails(c) ==
    /\ pc[c] \in {"fetch", "bypass"}
    /\ Goto(c, "failed")
    /\ UNCHANGED <<odoo, cache, resolved, req, uid, got, todo, found,
                   since, missedBy>>

(* Set with the TTL of the tool. *)
Store(c) ==
    /\ pc[c] = "store"
    /\ cache' = [cache EXCEPT ![CacheKey(c)] = got[c]]
    /\ missedBy' = [missedBy EXCEPT ![c] = {w \in Call : Past(w, CacheKey(c))}]
    /\ Goto(c, "replied")
    /\ UNCHANGED <<odoo, resolved, req, uid, got, todo, found, since>>

(* Set failed: only logged. *)
StoreFails(c) ==
    /\ pc[c] = "store"
    /\ Goto(c, "replied")
    /\ UNCHANGED <<odoo, cache, resolved, req, uid, got, todo, found,
                   since, missedBy>>

-----------------------------------------------------------------------------
(* handleWriteTool *)

Bump(d) == [odoo EXCEPT ![d] = @ + 1]

(* next succeeded: Odoo has committed a new version. *)
Commit(c) ==
    /\ pc[c] = "handle"
    /\ Current(c) < MaxVersion
    /\ odoo' = Bump(DbOf[Srv(c)])
    /\ got' = [got EXCEPT ![c] = OdooAnswer(c, Current(c) + 1)]
    /\ Goto(c, "resolve")
    /\ UNCHANGED <<cache, resolved, req, uid, todo, found, since, missedBy>>

(* next returned an error or an IsError result: nothing is invalidated,    *)
(* also when Odoo had committed and only its response was lost.            *)
WriteFails(c) ==
    /\ pc[c] = "handle"
    /\ \/ UNCHANGED odoo
       \/ /\ Current(c) < MaxVersion
          /\ odoo' = Bump(DbOf[Srv(c)])
    /\ Goto(c, "failed")
    /\ UNCHANGED <<cache, resolved, req, uid, got, todo, found, since, missedBy>>

(* Faulty: the cursor is not passed on, and the SCAN begins again. *)
ScanRestarts(c, k) ==
    /\ pc[c] = "scan"
    /\ k \in todo[c]
    /\ found' = [found EXCEPT ![c] = IF cache[k] = NoEntry THEN @ ELSE @ \cup {k}]
    /\ UNCHANGED <<odoo, cache, resolved, pc, req, uid, got, todo, since, missedBy>>

(* The SCAN loop comes to key k: it is collected if it is live.  A page of  *)
(* several keys is several of these steps.                                 *)
Scan(c, k) ==
    /\ pc[c] = "scan"
    /\ k \in todo[c]
    /\ todo' = [todo EXCEPT ![c] = @ \ {k}]
    /\ found' = [found EXCEPT ![c] = IF cache[k] = NoEntry THEN @ ELSE @ \cup {k}]
    /\ UNCHANGED <<odoo, cache, resolved, pc, req, uid, got, since, missedBy>>

(* Faulty: the loop ends with the first page of the SCAN. *)
ScanEndsEarly(c) ==
    /\ pc[c] = "scan"
    /\ Goto(c, IF found[c] = {} THEN "flushed" ELSE "del")
    /\ UNCHANGED <<odoo, cache, resolved, req, uid, got, todo, found,
                   since, missedBy>>

(* The cursor is back at 0: with nothing collected there is nothing to DEL. *)
ScanEnds(c) ==
    /\ pc[c] = "scan"
    /\ todo[c] = {}
    /\ Goto(c, IF found[c] = {} THEN "flushed" ELSE "del")
    /\ UNCHANGED <<odoo, cache, resolved, req, uid, got, todo, found,
                   since, missedBy>>

(* One DEL of every collected key, whatever it holds by now. *)
Del(c) ==
    /\ pc[c] = "del"
    /\ cache' = [k \in Key |-> IF k \in found[c] THEN NoEntry ELSE cache[k]]
    /\ Goto(c, "flushed")
    /\ UNCHANGED <<odoo, resolved, req, uid, got, todo, found, since, missedBy>>

(* A SCAN or the DEL failed: only logged, the write has succeeded. *)
InvalidateFails(c) ==
    /\ pc[c] \in {"scan", "del"}
    /\ Goto(c, "unflushed")
    /\ UNCHANGED <<odoo, cache, resolved, req, uid, got, todo, found,
                   since, missedBy>>

-----------------------------------------------------------------------------
(* The environment *)

(* Faulty: Set gives no TTL. *)
KeptForever(k) == cache[k] # NoEntry /\ UNCHANGED vars

(* The TTL given to Set runs out. *)
Expire(k) ==
    /\ cache[k] # NoEntry
    /\ cache' = [cache EXCEPT ![k] = NoEntry]
    /\ UNCHANGED <<odoo, resolved, pc, req, uid, got, todo, found,
                   since, missedBy>>

(* Odoo's own users, and requests given up by their call, change the data.  *)
OutsideWrite(d) ==
    /\ odoo[d] < MaxVersion
    /\ odoo' = Bump(d)
    /\ UNCHANGED <<cache, resolved, pc, req, uid, got, todo, found,
                   since, missedBy>>

(* The process of server s dies: its calls are gone, Valkey and Odoo stay. *)
Crash(s) ==
    /\ \E c \in Call : Srv(c) = s /\ pc[c] \in InFlight
    /\ pc' = [c \in Call |-> IF Srv(c) = s /\ pc[c] \in InFlight
                             THEN "lost" ELSE pc[c]]
    /\ resolved' = [resolved EXCEPT ![s] = NoUid]
    /\ UNCHANGED <<odoo, cache, req, uid, got, todo, found, since, missedBy>>

Done ==
    /\ \A c \in Call : pc[c] \in Ended
    /\ UNCHANGED vars

Step(c) ==
    \/ ResolveCached(c) \/ ResolveRemote(c) \/ AskOk(c) \/ AskFails(c)
    \/ GetHit(c) \/ GetMiss(c) \/ Fetch(c) \/ FetchFails(c)
    \/ Store(c) \/ StoreFails(c)
    \/ Commit(c) \/ WriteFails(c)
    \/ (\E k \in Key : Scan(c, k)) \/ ScanEnds(c) \/ Del(c) \/ InvalidateFails(c)

Next ==
    \/ \E c \in Call : Begin(c) \/ Step(c)
    \/ \E k \in Key : Expire(k)
    \/ \E d \in Database : OutsideWrite(d)
    \/ \E s \in Server : Crash(s)
    \/ Done

Spec == Init /\ [][Next]_vars

(* The call waits for a GET or a SCAN.  NewValkeyClient sets InitAddress and *)
(* nothing else, so the library repeats a read-only command that failed for *)
(* as long as its context lives, and the context of a tool call has no      *)
(* deadline: nothing bounds this wait.                                      *)
ReadsValkey(c) == pc[c] \in {"get", "scan"}

(* A request to Odoo is bounded by its timeout, a SET or a DEL is not       *)
(* repeated by the library, and every key stored has a positive TTL.        *)
FairSpec ==
    /\ Spec
    /\ \A c \in Call : WF_vars(~ReadsValkey(c) /\ Step(c))
    /\ \A k \in Key : WF_vars(Expire(k))

-----------------------------------------------------------------------------
(* The read r began before the write w was invalidated, and stored its     *)
(* answer when the invalidation had already gone past the key.             *)
StoredLate(r, w) == w \notin since[r] /\ w \in missedBy[r]

(* A read that begins after a write of the same user in the same database  *)
(* was invalidated is answered with that write or a later state; the only  *)
(* exception is an answer stored late by a read that overlapped the write. *)
(* About: the order handler, SCAN, DEL of handleWriteTool and Invalidate   *)
(* against Get, next, Set of handleReadTool.                               *)
ReadYourWrites ==
    \A c, w \in Call :
        /\ pc[c] = "replied"
        /\ w \in since[c]
        /\ got[w].db = got[c].db
        /\ got[w].uid = got[c].uid
        => \/ got[c].version >= got[w].version
           \/ StoredLate(got[c].by, w)

(* The same without the exception: what a reader of the middleware's        *)
(* comment expects.                                                        *)
NoStaleReadAfterWrite ==
    \A c, w \in Call :
        /\ pc[c] = "replied"
        /\ w \in since[c]
        /\ got[w].db = got[c].db
        /\ got[w].uid = got[c].uid
        => got[c].version >= got[w].version

(* A reply comes from the database of the caller's own credentials and was  *)
(* computed for the caller's own uid, whoever filled the shared cache.      *)
(* About: the key format of CacheKey and the per-server UID resolver.       *)
OwnAnswer ==
    \A c \in Call : pc[c] = "replied" =>
        got[c].db = DbOf[Srv(c)] /\ got[c].uid = UidOf[Srv(c)]

(* Every tool call ends, also when ServerInfo, Odoo, SET or DEL fail or a   *)
(* GET or SCAN returns an error; a call that does not end waits for ever    *)
(* for one GET or SCAN.  About: the fall-through on every cache error, the  *)
(* SCAN cursor loop, and the client that bounds no read-only command.       *)
CallsEnd ==
    \A c \in Call : \/ pc[c] \in InFlight ~> pc[c] \in Ended
                    \/ <>[]ReadsValkey(c)

(* The labels a call may still go through. *)
LabelsLeft(label) ==
    CASE label = "idle" -> 7
      [] label = "handle" -> 6
      [] label = "resolve" -> 5
      [] label = "ask" -> 4
      [] label = "get" -> 3
      [] label \in {"fetch", "scan"} -> 2
      [] label \in {"bypass", "store", "del"} -> 1
      [] OTHER -> 0

Nearer(c) ==
    \/ LabelsLeft(pc'[c]) < LabelsLeft(pc[c])
    \/ pc'[c] = pc[c] /\ todo'[c] \subseteq todo[c] /\ todo'[c] # todo[c]

(* Every step of a call brings it nearer to its end, and nothing that others   *)
(* do, not even a store of new keys or a crash, sets it back: a call has a     *)
(* bounded number of steps, a GET or SCAN command being one of them.  About:   *)
(* the SCAN cursor loop of Invalidate, and the fall-through on every error of  *)
(* cache, resolver and Odoo.                                                  *)
CallsAdvance ==
    [][\A c \in Call :
          \/ Nearer(c)
          \/ ~Step(c) /\ pc'[c] = pc[c] /\ todo'[c] = todo[c]]_vars

(* When the calls and the writes are over, no stale answer stays in the     *)
(* cache: one stored late, or whose invalidation failed, lives for a TTL.   *)
(* About: the Ex(ttl) of Set, with ToolTTL never 0.                         *)
EventuallyFresh ==
    \A k \in Key :
        <>[](cache[k] = NoEntry \/ cache[k].version = odoo[cache[k].db])

-----------------------------------------------------------------------------
(* The inductive invariant behind ReadYourWrites and OwnAnswer. *)

(* The answer was computed for the user and the database of its reader. *)
FromItsReader(a) == a.db = DbOf[Srv(a.by)] /\ a.uid = UidOf[Srv(a.by)]

(* The answer is no older than the writes its reader came after. *)
SeesSince(a) ==
    \A w \in since[a.by] : got[w].db = a.db => got[w].version <= a.version

(* The answer of a read that is over. *)
Settled(a) == pc[a.by] = "replied" /\ FromItsReader(a) /\ SeesSince(a)

ResolverInv == \A s \in Server : resolved[s] \in {NoUid, UidOf[s]}

UidInv ==
    \A c \in Call : pc[c] \in {"get", "fetch", "store", "scan", "del", "flushed"}
        => uid[c] = UidOf[Srv(c)]

(* Reads and writes keep to their own labels. *)
KindInv ==
    \A c \in Call :
        /\ pc[c] \in {"get", "fetch", "store", "bypass", "replied"}
               => req[c].kind = "read"
        /\ pc[c] \in {"handle", "scan", "del", "flushed", "unflushed"}
               => req[c].kind = "write"

(* DEL comes after the whole SCAN. *)
ScanInv == \A w \in Call : pc[w] = "del" => todo[w] = {}

(* A write past its handler knows the version it committed. *)
WriteInv ==
    \A w \in Call :
        req[w].kind = "write" /\ pc[w] \in {"resolve", "ask", "scan", "del", "flushed"}
        => /\ got[w] \in Answer
           /\ got[w].by = w
           /\ FromItsReader(got[w])
           /\ got[w].version <= odoo[got[w].db]

SinceInv == \A c \in Call : \A w \in since[c] : pc[w] = "flushed"

(* What a read is about to store is its own. *)
FetchedInv ==
    \A c \in Call : pc[c] = "store" =>
        /\ got[c] \in Answer
        /\ got[c].by = c
        /\ FromItsReader(got[c])
        /\ SeesSince(got[c])

(* A live entry was missed by every invalidation that is past its key. *)
EntryOk(k) ==
    /\ cache[k].uid = k.uid
    /\ Settled(cache[k])
    /\ \A w \in Call : uid[w] = k.uid /\ Past(w, k) => w \in missedBy[cache[k].by]

EntryInv == \A k \in Key : cache[k] # NoEntry => EntryOk(k)

(* A reply is the call's own answer, or was stored after every invalidation *)
(* of its user that the call came after.                                   *)
ReplyOk(c) ==
    /\ got[c] \in Answer
    /\ got[c].uid = UidOf[Srv(c)]
    /\ Settled(got[c])
    /\ got[c].by # c => \A w \in since[c] : got[w].uid = got[c].uid
                            => w \in missedBy[got[c].by]

ReplyInv == \A c \in Call : pc[c] = "replied" => ReplyOk(c)

IInv ==
    /\ TypeOK /\ ResolverInv /\ UidInv /\ KindInv /\ ScanInv /\ WriteInv
    /\ SinceInv /\ FetchedInv /\ EntryInv /\ ReplyInv
=============================================================================
