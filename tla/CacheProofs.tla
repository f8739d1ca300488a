---------------------------- MODULE CacheProofs ----------------------------
(***************************************************************************)
(* Proofs about CacheMiddleware for any calls, servers, users, queries and *)
(* databases: type correctness, and the two promises of the cache.         *)
(***************************************************************************)
EXTENDS CacheMiddleware, TLAPS

(* Odoo's answer to a call has the type of an answer. *)
LEMMA OdooAnswerType ==
    ASSUME CacheAssumption, TypeOK, NEW c \in Call
    PROVE  /\ Current(c) \in Nat
           /\ \A v \in Nat : OdooAnswer(c, v) \in Answer
<1>1. Srv(c) \in Server
  BY DEF TypeOK, Request, Srv
<1>2. DbOf[Srv(c)] \in Database /\ UidOf[Srv(c)] \in Uid
  BY <1>1 DEF CacheAssumption
<1>3. Current(c) \in Nat
  BY <1>2 DEF TypeOK, Current
<1> QED
  BY <1>2, <1>3 DEF Answer, OdooAnswer

(* Once its uid is resolved, the key of a call has the type of a key. *)
LEMMA CacheKeyType ==
    ASSUME CacheAssumption, TypeOK, UidInv, NEW c \in Call, pc[c] \in {"get", "fetch", "store"}
    PROVE  /\ uid[c] \in Uid
           /\ CacheKey(c) \in Key
           /\ CacheKey(c).uid = UidOf[Srv(c)]
<1>1. Srv(c) \in Server /\ req[c].query \in Query
  BY DEF TypeOK, Request, Srv
<1>2. uid[c] = UidOf[Srv(c)]
  BY DEF UidInv
<1>3. uid[c] \in Uid
  BY <1>1, <1>2 DEF CacheAssumption
<1> QED
  BY <1>1, <1>2, <1>3 DEF CacheKey, Key

(* The types are kept by every step of a call. *)
LEMMA TypeStep ==
    ASSUME CacheAssumption, TypeOK, UidInv, FetchedInv, NEW c \in Call, Begin(c) \/ Step(c)
    PROVE  TypeOK'
<1> USE DEF Goto
<1>0. Srv(c) \in Server /\ UidOf[Srv(c)] \in Uid /\ DbOf[Srv(c)] \in Database
  BY DEF TypeOK, Request, Srv, CacheAssumption
<1>1. CASE Begin(c)
  BY <1>1 DEF Begin, TypeOK, InFlight
<1>2. CASE ResolveCached(c)
  <2>1. resolved[Srv(c)] \in Uid
    BY <1>0, <1>2 DEF ResolveCached, TypeOK
  <2> QED
    BY <1>2, <2>1 DEF ResolveCached, Resolved, TypeOK, InFlight, Matching
<1>3. CASE ResolveRemote(c)
  BY <1>3 DEF ResolveRemote, TypeOK, InFlight
<1>4. CASE AskOk(c)
  BY <1>0, <1>4 DEF AskOk, Resolved, TypeOK, InFlight, Matching
<1>5. CASE AskFails(c)
  BY <1>5 DEF AskFails, TypeOK, InFlight, Ended
<1>6. CASE GetHit(c)
  <2>1. CacheKey(c) \in Key
    BY <1>6, CacheKeyType DEF GetHit
  <2>2. cache[CacheKey(c)] \in Answer
    BY <1>6, <2>1 DEF GetHit, TypeOK
  <2> QED
    BY <1>6, <2>2 DEF GetHit, TypeOK, Ended
<1>7. CASE GetMiss(c)
  BY <1>7 DEF GetMiss, TypeOK, InFlight
<1>8. CASE Fetch(c)
  BY <1>8, OdooAnswerType DEF Fetch, TypeOK, InFlight, Ended
<1>9. CASE FetchFails(c)
  BY <1>9 DEF FetchFails, TypeOK, Ended
<1>10. CASE Store(c)
  BY <1>10 DEF Store, FetchedInv, TypeOK, Ended
<1>11. CASE StoreFails(c)
  BY <1>11 DEF StoreFails, TypeOK, Ended
<1>12. CASE Commit(c)
  BY <1>0, <1>12, OdooAnswerType DEF Commit, Bump, TypeOK, InFlight
<1>13. CASE WriteFails(c)
  BY <1>0, <1>13 DEF WriteFails, Bump, TypeOK, Ended
<1>14. CASE \E k \in Key : Scan(c, k)
  BY <1>14 DEF Scan, TypeOK
<1>15. CASE ScanEnds(c)
  BY <1>15 DEF ScanEnds, TypeOK, InFlight, Ended
<1>16. CASE Del(c)
  BY <1>16 DEF Del, TypeOK, Ended
<1>17. CASE InvalidateFails(c)
  BY <1>17 DEF InvalidateFails, TypeOK, Ended
<1> QED
  BY <1>1, <1>2, <1>3, <1>4, <1>5, <1>6, <1>7, <1>8, <1>9, <1>10, <1>11,
     <1>12, <1>13, <1>14, <1>15, <1>16, <1>17 DEF Step

(* What happens outside the calls. *)
Environment ==
    \/ \E k \in Key : Expire(k)
    \/ \E d \in Database : OutsideWrite(d)
    \/ \E s \in Server : Crash(s)
    \/ UNCHANGED vars

(* The environment keeps the types. *)
LEMMA TypeEnvironment ==
    ASSUME CacheAssumption, TypeOK,
           Environment
    PROVE  TypeOK'
<1>1. CASE \E k \in Key : Expire(k)
  BY <1>1 DEF Expire, TypeOK
<1>2. CASE \E d \in Database : OutsideWrite(d)
  BY <1>2 DEF OutsideWrite, Bump, TypeOK
<1>3. CASE \E s \in Server : Crash(s)
  BY <1>3 DEF Crash, TypeOK, Ended
<1>4. CASE UNCHANGED vars
  BY <1>4 DEF vars, TypeOK
<1> QED
  BY <1>1, <1>2, <1>3, <1>4 DEF Environment

-----------------------------------------------------------------------------
(* What no step changes: a reply once given, the history of the call that   *)
(* gave it, and what an invalidated write committed.                        *)
HistoryKept ==
    /\ req' = req
    /\ \A c \in Call : pc[c] = "replied" =>
           /\ pc'[c] = "replied"
           /\ got'[c] = got[c] /\ since'[c] = since[c] /\ missedBy'[c] = missedBy[c]
    /\ \A w \in Call : pc[w] = "flushed" =>
           pc'[w] = "flushed" /\ got'[w] = got[w] /\ uid'[w] = uid[w]
    /\ \A d \in Database : odoo[d] <= odoo'[d]

LEMMA HistoryStep ==
    ASSUME CacheAssumption, TypeOK, NEW c \in Call, Begin(c) \/ Step(c)
    PROVE  HistoryKept
<1> USE DEF Goto, HistoryKept
<1>1. CASE Begin(c)
  BY <1>1 DEF Begin, TypeOK
<1>2. CASE ResolveCached(c) \/ ResolveRemote(c) \/ AskOk(c) \/ AskFails(c)
  BY <1>2 DEF ResolveCached, ResolveRemote, AskOk, AskFails, Resolved, TypeOK
<1>3. CASE GetHit(c) \/ GetMiss(c) \/ Fetch(c) \/ FetchFails(c)
  BY <1>3 DEF GetHit, GetMiss, Fetch, FetchFails, TypeOK
<1>4. CASE Store(c) \/ StoreFails(c)
  BY <1>4 DEF Store, StoreFails, TypeOK
<1>5. CASE Commit(c) \/ WriteFails(c)
  <2>1. Srv(c) \in Server /\ DbOf[Srv(c)] \in Database
    BY DEF TypeOK, Request, Srv, CacheAssumption
  <2> QED
    BY <1>5, <2>1 DEF Commit, WriteFails, Bump, TypeOK
<1>6. CASE (\E k \in Key : Scan(c, k)) \/ ScanEnds(c) \/ Del(c) \/ InvalidateFails(c)
  BY <1>6 DEF Scan, ScanEnds, Del, InvalidateFails, TypeOK
<1> QED
  BY <1>1, <1>2, <1>3, <1>4, <1>5, <1>6 DEF Step

LEMMA HistoryEnvironment ==
    ASSUME CacheAssumption, TypeOK,
           Environment
    PROVE  HistoryKept
<1> USE DEF HistoryKept, TypeOK
<1>1. CASE \E k \in Key : Expire(k)
  BY <1>1 DEF Expire
<1>2. CASE \E d \in Database : OutsideWrite(d)
  BY <1>2 DEF OutsideWrite, Bump
<1>3. CASE \E s \in Server : Crash(s)
  BY <1>3 DEF Crash, InFlight
<1>4. CASE UNCHANGED vars
  BY <1>4 DEF vars
<1> QED
  BY <1>1, <1>2, <1>3, <1>4 DEF Environment

(* A settled answer stays settled. *)
LEMMA SettledKept ==
    ASSUME TypeOK, SinceInv, HistoryKept
    PROVE  \A a \in Answer : Settled(a) => Settled(a)'
<1> SUFFICES ASSUME NEW a \in Answer, Settled(a)
             PROVE  Settled(a)'
  OBVIOUS
<1>1. a.by \in Call
  BY DEF Answer
<1>2. pc'[a.by] = "replied" /\ since'[a.by] = since[a.by] /\ req' = req
  BY <1>1 DEF Settled, HistoryKept
<1>3. ASSUME NEW w \in since[a.by]
      PROVE  got'[w] = got[w]
  BY <1>1, <1>3 DEF SinceInv, HistoryKept, TypeOK
<1> QED
  BY <1>2, <1>3 DEF Settled, FromItsReader, SeesSince, Srv

-----------------------------------------------------------------------------
(* The resolver, the uids and the labels. *)
LEMMA LabelStep ==
    ASSUME CacheAssumption, TypeOK, ResolverInv, UidInv, KindInv, ScanInv, SinceInv,
           NEW c \in Call, Begin(c) \/ Step(c)
    PROVE  ResolverInv' /\ UidInv' /\ KindInv' /\ ScanInv' /\ SinceInv'
<1> USE DEF Goto, ResolverInv, UidInv, KindInv, ScanInv, SinceInv, Srv, TypeOK
<1>0. Srv(c) \in Server /\ UidOf[Srv(c)] \in Uid
  BY DEF Request, CacheAssumption
<1>1. CASE Begin(c)
  BY <1>1 DEF Begin, Request
<1>2. CASE ResolveCached(c)
  <2>1. resolved[Srv(c)] = UidOf[Srv(c)]
    BY <1>0, <1>2 DEF ResolveCached
  <2> QED
    BY <1>2, <2>1 DEF ResolveCached, Resolved, Request
<1>3. CASE AskOk(c)
  BY <1>0, <1>3 DEF AskOk, Resolved, Request
<1>4. CASE ResolveRemote(c) \/ AskFails(c)
  BY <1>4 DEF ResolveRemote, AskFails, Request
<1>5. CASE GetHit(c) \/ GetMiss(c) \/ Fetch(c) \/ FetchFails(c)
  BY <1>5 DEF GetHit, GetMiss, Fetch, FetchFails
<1>6. CASE Store(c) \/ StoreFails(c)
  BY <1>6 DEF Store, StoreFails
<1>7. CASE Commit(c) \/ WriteFails(c)
  BY <1>7 DEF Commit, WriteFails
<1>8. CASE (\E k \in Key : Scan(c, k)) \/ ScanEnds(c)
  BY <1>8 DEF Scan, ScanEnds
<1>9. CASE Del(c) \/ InvalidateFails(c)
  BY <1>9 DEF Del, InvalidateFails
<1> QED
  BY <1>1, <1>2, <1>3, <1>4, <1>5, <1>6, <1>7, <1>8, <1>9 DEF Step

(* A write past its handler keeps the version it committed. *)
LEMMA WriteStep ==
    ASSUME CacheAssumption, TypeOK, KindInv, WriteInv, HistoryKept,
           NEW c \in Call, Begin(c) \/ Step(c)
    PROVE  WriteInv'
<1> DEFINE After(w) == req[w].kind = "write"
                       /\ pc[w] \in {"resolve", "ask", "scan", "del", "flushed"}
           Committed(w) == /\ got[w] \in Answer /\ got[w].by = w
                           /\ FromItsReader(got[w])
                           /\ got[w].version <= odoo[got[w].db]
<1> SUFFICES ASSUME NEW w \in Call, After(w)'
             PROVE  Committed(w)'
  BY DEF WriteInv
<1> USE DEF Goto
<1>0. req' = req /\ \A d \in Database : odoo[d] \in Nat /\ odoo'[d] \in Int /\ odoo'[d] >= odoo[d]
  <2>1. CASE UNCHANGED odoo
    BY <2>1 DEF HistoryKept, TypeOK
  <2>2. CASE odoo' = Bump(DbOf[Srv(c)])
    BY <2>2 DEF HistoryKept, Bump, TypeOK
  <2>3. UNCHANGED odoo \/ odoo' = Bump(DbOf[Srv(c)])
    BY DEF Step, Begin, ResolveCached, ResolveRemote, AskOk, AskFails, Resolved,
           GetHit, GetMiss, Fetch, FetchFails, Store, StoreFails, Commit,
           WriteFails, Scan, ScanEnds, Del, InvalidateFails
  <2> QED
    BY <2>1, <2>2, <2>3
<1>1. CASE Commit(c) /\ w = c
  <2>1. Srv(c) \in Server /\ DbOf[Srv(c)] \in Database /\ Current(c) \in Nat
    BY OdooAnswerType DEF TypeOK, Request, Srv, CacheAssumption
  <2>2. OdooAnswer(c, Current(c) + 1) \in Answer
    BY <2>1, OdooAnswerType
  <2>3. got'[c] = OdooAnswer(c, Current(c) + 1)
    BY <1>1 DEF Commit, TypeOK
  <2>4. odoo'[DbOf[Srv(c)]] = Current(c) + 1
    BY <1>1, <2>1 DEF Commit, Bump, Current, TypeOK
  <2>5. /\ got'[c].by = c /\ got'[c].db = DbOf[Srv(c)] /\ got'[c].uid = UidOf[Srv(c)]
        /\ got'[c].version = Current(c) + 1
    BY <2>3 DEF OdooAnswer
  <2> QED
    BY <1>0, <1>1, <2>1, <2>2, <2>3, <2>4, <2>5 DEF FromItsReader, Srv
<1>2. CASE ~(Commit(c) /\ w = c)
  <2>1. After(w) /\ got'[w] = got[w]
    BY <1>0, <1>2 DEF Step, Begin, ResolveCached, ResolveRemote, AskOk, AskFails, Resolved,
           GetHit, GetMiss, Fetch, FetchFails, Store, StoreFails, Commit,
           WriteFails, Scan, ScanEnds, Del, InvalidateFails, KindInv, TypeOK
  <2>2. Committed(w)
    BY <2>1 DEF WriteInv
  <2>3. got[w].db \in Database /\ got[w].version \in Nat
    BY <2>2 DEF Answer
  <2> QED
    BY <1>0, <2>1, <2>2, <2>3 DEF FromItsReader, Srv
<1> QED
  BY <1>1, <1>2

(* A fetched answer sees the writes its reader came after: they had been    *)
(* committed, and the database only grows.                                 *)
LEMMA FetchSees ==
    ASSUME CacheAssumption, TypeOK, KindInv, WriteInv, SinceInv,
           NEW c \in Call, Fetch(c)
    PROVE  /\ got'[c] \in Answer /\ got'[c].by = c
           /\ FromItsReader(got[c])' /\ SeesSince(got[c])'
<1>1. Srv(c) \in Server /\ DbOf[Srv(c)] \in Database
  BY DEF TypeOK, Request, Srv, CacheAssumption
<1>2. got' = [got EXCEPT ![c] = OdooAnswer(c, Current(c))] /\ OdooAnswer(c, Current(c)) \in Answer
  BY OdooAnswerType DEF Fetch
<1>3. got'[c] = OdooAnswer(c, Current(c)) /\ since' = since /\ req' = req
  BY <1>2 DEF TypeOK, Fetch
<1>4. ASSUME NEW w \in since[c], got'[w].db = DbOf[Srv(c)]
      PROVE  got'[w].version <= Current(c)
  <2>1. w \in Call /\ pc[w] = "flushed" /\ w # c
    BY <1>4 DEF TypeOK, SinceInv, Fetch
  <2>2. got'[w] = got[w]
    BY <1>2, <2>1 DEF TypeOK
  <2> QED
    BY <1>4, <2>1, <2>2 DEF WriteInv, KindInv, Current
<1> QED
  BY <1>2, <1>3, <1>4 DEF OdooAnswer, FromItsReader, SeesSince, Srv

(* What a read is about to store stays its own. *)
LEMMA FetchedStep ==
    ASSUME CacheAssumption, TypeOK, KindInv, WriteInv, SinceInv, FetchedInv, HistoryKept,
           NEW c \in Call, Begin(c) \/ Step(c)
    PROVE  FetchedInv'
<1> SUFFICES ASSUME NEW r \in Call, pc'[r] = "store"
             PROVE  /\ got'[r] \in Answer /\ got'[r].by = r
                    /\ FromItsReader(got[r])' /\ SeesSince(got[r])'
  BY DEF FetchedInv
<1> USE DEF Goto
<1>1. CASE Fetch(c) /\ r = c
  BY <1>1, FetchSees
<1>2. CASE ~(Fetch(c) /\ r = c)
  <2>1. pc[r] = "store" /\ got'[r] = got[r] /\ since'[r] = since[r]
    BY <1>2 DEF Step, Begin, ResolveCached, ResolveRemote, AskOk, AskFails, Resolved,
                GetHit, GetMiss, Fetch, FetchFails, Store, StoreFails, Commit,
                WriteFails, Scan, ScanEnds, Del, InvalidateFails, TypeOK
  <2>2. ASSUME NEW w \in since[r]
        PROVE  got'[w] = got[w]
    BY <2>2 DEF SinceInv, HistoryKept, TypeOK
  <2> QED
    BY <2>1, <2>2 DEF FetchedInv, FromItsReader, SeesSince, HistoryKept, Srv
<1> QED
  BY <1>1, <1>2

(* The server of a call and its credentials have their types. *)
LEMMA UidType ==
    ASSUME CacheAssumption, TypeOK, NEW c \in Call
    PROVE  Srv(c) \in Server /\ UidOf[Srv(c)] \in Uid /\ DbOf[Srv(c)] \in Database
BY DEF TypeOK, Request, Srv, CacheAssumption

(* No step makes a live entry one that an invalidation of its user newly    *)
(* missed: SCAN passes only absent keys, and DEL removes what SCAN found.   *)
LEMMA PastKept ==
    ASSUME CacheAssumption, TypeOK, UidInv, ScanInv, HistoryKept,
           NEW c \in Call, Begin(c) \/ Step(c),
           NEW k \in Key, NEW w \in Call,
           cache'[k] # NoEntry, uid'[w] = k.uid, Past(w, k)'
    PROVE  uid[w] = k.uid /\ Past(w, k)
<1> USE DEF Goto
<1>1. CASE w # c
  BY <1>1 DEF Step, Begin, ResolveCached, ResolveRemote, AskOk, AskFails, Resolved,
              GetHit, GetMiss, Fetch, FetchFails, Store, StoreFails, Commit,
              WriteFails, Scan, ScanEnds, Del, InvalidateFails, Past, TypeOK
<1>2. CASE w = c
  <2>1. CASE ResolveCached(c) \/ AskOk(c)
    <3>1. PICK u \in Uid \cup {NoUid} : Resolved(c, u)
      BY <2>1, UidType DEF ResolveCached, AskOk, TypeOK
    <3>2. uid'[c] = u /\ pc'[c] = IF req[c].kind = "read" THEN "get" ELSE "scan"
      BY <3>1 DEF Resolved, TypeOK
    <3>3. todo'[c] = IF req[c].kind = "read" THEN {} ELSE Matching(u)
      BY <3>1 DEF Resolved, TypeOK
    <3> QED
      BY <1>2, <3>2, <3>3 DEF Past, Matching
  <2>2. CASE \E q \in Key : Scan(c, q)
    <3>1. PICK q \in Key : Scan(c, q)
      BY <2>2
    <3>2. pc' = pc /\ uid' = uid /\ cache' = cache /\ pc[c] = "scan"
      BY <3>1 DEF Scan
    <3>3. todo'[c] = todo[c] \ {q}
          /\ found'[c] = IF cache[q] = NoEntry THEN found[c] ELSE found[c] \cup {q}
      BY <3>1 DEF Scan, TypeOK
    <3> QED
      BY <1>2, <3>2, <3>3 DEF Past
  <2>3. CASE ScanEnds(c)
    BY <1>2, <2>3 DEF ScanEnds, Past, TypeOK
  <2>4. CASE Del(c)
    <3>1. uid' = uid /\ pc[c] = "del" /\ cache' = [q \in Key |-> IF q \in found[c] THEN NoEntry ELSE cache[q]]
      BY <2>4 DEF Del
    <3>2. k \notin found[c]
      BY <3>1
    <3> QED
      BY <1>2, <3>1, <3>2 DEF Past, ScanInv
  <2>5. CASE Begin(c) \/ ResolveRemote(c) \/ AskFails(c) \/ GetHit(c) \/ GetMiss(c)
             \/ Fetch(c) \/ FetchFails(c) \/ Store(c) \/ StoreFails(c) \/ Commit(c)
             \/ WriteFails(c) \/ InvalidateFails(c)
    BY <1>2, <2>5 DEF Begin, ResolveRemote, AskFails, GetHit, GetMiss, Fetch, FetchFails,
                      Store, StoreFails, Commit, WriteFails, InvalidateFails, Past, TypeOK
  <2> QED
    BY <2>1, <2>2, <2>3, <2>4, <2>5 DEF Step
<1> QED
  BY <1>1, <1>2

(* An entry that no step replaced stays in order. *)
LEMMA EntryKept ==
    ASSUME TypeOK, SinceInv, EntryInv, HistoryKept,
           NEW k \in Key, cache[k] # NoEntry, cache'[k] = cache[k],
           \A w \in Call : uid'[w] = k.uid /\ Past(w, k)' => uid[w] = k.uid /\ Past(w, k)
    PROVE  EntryOk(k)'
<1>1. cache[k] \in Answer /\ EntryOk(k)
  BY DEF TypeOK, EntryInv
<1>2. Settled(cache[k])'
  <2>1. PICK a \in Answer : a = cache[k]
    BY <1>1
  <2>2. Settled(a)
    BY <1>1, <2>1 DEF EntryOk, Settled, FromItsReader, SeesSince
  <2>3. Settled(a)'
    BY <2>2, SettledKept
  <2> QED
    BY <2>1, <2>3 DEF Settled, FromItsReader, SeesSince
<1>3. missedBy'[cache[k].by] = missedBy[cache[k].by]
  BY <1>1 DEF EntryOk, Settled, HistoryKept, Answer
<1> QED
  BY <1>1, <1>2, <1>3 DEF EntryOk

(* Every live entry stays in order; the one Store writes is in order too.   *)
LEMMA EntryStep ==
    ASSUME CacheAssumption, TypeOK, UidInv, KindInv, ScanInv, SinceInv, FetchedInv,
           EntryInv, HistoryKept,
           NEW c \in Call, Begin(c) \/ Step(c)
    PROVE  EntryInv'
<1> SUFFICES ASSUME NEW k \in Key, cache'[k] # NoEntry
             PROVE  EntryOk(k)'
  BY DEF EntryInv
<1>1. CASE Store(c) /\ k = CacheKey(c)
  <2>1. CacheKey(c) \in Key /\ k.uid = UidOf[Srv(c)]
    BY <1>1, CacheKeyType DEF Store
  <2>2. /\ cache'[k] = got[c] /\ pc'[c] = "replied" /\ got' = got /\ since' = since
        /\ req' = req /\ uid' = uid /\ todo' = todo /\ found' = found
    BY <1>1, <2>1 DEF Store, Goto, TypeOK
  <2>3. got[c] \in Answer /\ got[c].by = c /\ FromItsReader(got[c]) /\ SeesSince(got[c])
    BY <1>1 DEF Store, FetchedInv
  <2>4. Settled(cache[k])'
    BY <2>2, <2>3 DEF Settled, FromItsReader, SeesSince, Srv
  <2>5. missedBy'[c] = {w \in Call : Past(w, k)}
    BY <1>1 DEF Store, TypeOK
  <2>6. \A w \in Call : Past(w, k)' => Past(w, k)
    BY <1>1, <2>2 DEF Store, Goto, Past, TypeOK
  <2>7. cache'[k].uid = k.uid /\ cache'[k].by = c
    BY <2>1, <2>2, <2>3 DEF FromItsReader
  <2> QED
    BY <2>4, <2>5, <2>6, <2>7 DEF EntryOk
<1>2. CASE ~(Store(c) /\ k = CacheKey(c))
  <2>1. cache'[k] = cache[k]
    BY <1>2 DEF Step, Begin, ResolveCached, ResolveRemote, AskOk, AskFails, Resolved,
           GetHit, GetMiss, Fetch, FetchFails, Store, StoreFails, Commit,
           WriteFails, Scan, ScanEnds, Del, InvalidateFails, TypeOK
  <2> QED
    BY <2>1, PastKept, EntryKept
<1> QED
  BY <1>1, <1>2

(* A reply given before the step stays in order. *)
LEMMA ReplyKept ==
    ASSUME TypeOK, SinceInv, ReplyInv, HistoryKept, NEW r \in Call, pc[r] = "replied"
    PROVE  ReplyOk(r)'
<1>1. ReplyOk(r) /\ got[r] \in Answer
  BY DEF ReplyInv, ReplyOk
<1>2. got'[r] = got[r] /\ since'[r] = since[r] /\ req' = req
  BY DEF HistoryKept
<1>3. Settled(got[r])'
  <2>1. PICK a \in Answer : a = got[r]
    BY <1>1
  <2>2. Settled(a)
    BY <1>1, <2>1 DEF ReplyOk, Settled, FromItsReader, SeesSince
  <2>3. Settled(a)'
    BY <2>2, SettledKept
  <2> QED
    BY <1>2, <2>1, <2>3 DEF Settled, FromItsReader, SeesSince
<1>4. missedBy'[got[r].by] = missedBy[got[r].by]
  BY <1>1 DEF ReplyOk, Settled, HistoryKept, Answer
<1>5. \A w \in since[r] : got'[w] = got[w]
  BY DEF SinceInv, HistoryKept, TypeOK
<1> QED
  BY <1>1, <1>2, <1>3, <1>4, <1>5 DEF ReplyOk, Srv

(* A reply given by the step is in order: a hit is a live entry, any other  *)
(* reply is the call's own answer.                                         *)
LEMMA ReplyStep ==
    ASSUME CacheAssumption, TypeOK, UidInv, KindInv, WriteInv, SinceInv, FetchedInv,
           EntryInv, ReplyInv, HistoryKept,
           NEW c \in Call, Begin(c) \/ Step(c)
    PROVE  ReplyInv'
<1> SUFFICES ASSUME NEW r \in Call, pc'[r] = "replied"
             PROVE  ReplyOk(r)'
  BY DEF ReplyInv
<1>1. CASE pc[r] = "replied"
  BY <1>1, ReplyKept
<1>2. CASE pc[r] # "replied" /\ GetHit(c)
  <2>1. r = c
    BY <1>2 DEF GetHit, Goto, TypeOK
  <2> DEFINE k == CacheKey(c)
  <2>2. k \in Key /\ k.uid = UidOf[Srv(c)] /\ cache[k] # NoEntry /\ cache' = cache
    BY <1>2, CacheKeyType DEF GetHit
  <2>3. EntryOk(k) /\ cache[k] \in Answer
    BY <2>2 DEF EntryInv, TypeOK
  <2>4. got'[c] = cache[k] /\ since' = since /\ missedBy' = missedBy /\ req' = req
    BY <1>2 DEF GetHit, TypeOK
  <2>5. Settled(got[c])'
    <3>1. PICK a \in Answer : a = cache[k]
      BY <2>3
    <3>2. Settled(a)
      BY <2>3, <3>1 DEF EntryOk, Settled, FromItsReader, SeesSince
    <3>3. Settled(a)'
      BY <3>2, SettledKept
    <3> QED
      BY <2>4, <3>1, <3>3 DEF Settled, FromItsReader, SeesSince
  <2>6. ASSUME NEW w \in since[c], got'[w].uid = k.uid
        PROVE  w \in missedBy[cache[k].by]
    <3>1. w \in Call /\ pc[w] = "flushed" /\ got'[w] = got[w]
      BY <2>6 DEF SinceInv, HistoryKept, TypeOK
    <3>2. got[w].uid = UidOf[Srv(w)] /\ uid[w] = UidOf[Srv(w)]
      BY <3>1 DEF WriteInv, KindInv, UidInv, FromItsReader
    <3> QED
      BY <2>3, <2>6, <3>1, <3>2 DEF EntryOk, Past
  <2> HIDE DEF k
  <2>7. got'[c].uid = k.uid /\ got'[c].uid = UidOf[Srv(c)]
    BY <2>2, <2>3, <2>4 DEF EntryOk
  <2> QED
    BY <2>1, <2>3, <2>4, <2>5, <2>6, <2>7 DEF ReplyOk, Srv
<1>3. CASE pc[r] # "replied" /\ Fetch(c)
  <2>1. r = c
    BY <1>3 DEF Fetch, Goto, TypeOK
  <2> QED
    BY <1>3, <2>1, FetchSees DEF ReplyOk, Settled, FromItsReader
<1>4. CASE pc[r] # "replied" /\ (Store(c) \/ StoreFails(c))
  <2>1. r = c /\ pc[c] = "store" /\ got' = got /\ since' = since /\ req' = req
    BY <1>4 DEF Store, StoreFails, Goto, TypeOK
  <2> QED
    BY <2>1 DEF FetchedInv, ReplyOk, Settled, FromItsReader, SeesSince, Srv
<1>5. CASE pc[r] # "replied" /\ ~(GetHit(c) \/ Fetch(c) \/ Store(c) \/ StoreFails(c))
  BY <1>5 DEF Goto, Step, Begin, ResolveCached, ResolveRemote, AskOk, AskFails, Resolved,
              GetMiss, FetchFails, Commit, WriteFails, Scan, ScanEnds, Del,
              InvalidateFails, TypeOK
<1> QED
  BY <1>1, <1>2, <1>3, <1>4, <1>5

-----------------------------------------------------------------------------
(* The environment keeps the invariant: an expiry removes an entry, a write  *)
(* elsewhere makes a database newer, a crash ends the calls of a server.    *)
LEMMA EnvironmentStep ==
    ASSUME CacheAssumption, IInv, Environment
    PROVE  IInv'
<1> USE DEF IInv
<1>1. TypeOK' /\ HistoryKept
  BY TypeEnvironment, HistoryEnvironment
<1>2. /\ uid' = uid /\ req' = req /\ got' = got /\ since' = since /\ todo' = todo
      /\ found' = found /\ missedBy' = missedBy
      /\ \A c \in Call : pc'[c] = pc[c] \/ pc'[c] = "lost"
      /\ \A s \in Server : resolved'[s] \in {resolved[s], NoUid}
      /\ \A k \in Key : cache'[k] \in {cache[k], NoEntry}
  BY DEF Environment, Expire, OutsideWrite, Crash, vars, TypeOK
<1>3. ResolverInv' /\ UidInv' /\ KindInv' /\ ScanInv'
  BY <1>2 DEF ResolverInv, UidInv, KindInv, ScanInv, Srv
<1>4. WriteInv'
  <2>1. \A d \in Database : odoo[d] \in Nat /\ odoo'[d] \in Nat /\ odoo[d] <= odoo'[d]
    BY <1>1 DEF HistoryKept, TypeOK
  <2>2. \A a \in Answer : a.db \in Database /\ a.version \in Nat
    BY DEF Answer
  <2> QED
    BY <1>2, <2>1, <2>2 DEF WriteInv, FromItsReader, Srv
<1>5. SinceInv'
  BY <1>1, <1>2 DEF SinceInv, HistoryKept, TypeOK
<1>6. FetchedInv'
  BY <1>2 DEF FetchedInv, FromItsReader, SeesSince, Srv
<1>7. EntryInv'
  <2> SUFFICES ASSUME NEW k \in Key, cache'[k] # NoEntry
               PROVE  EntryOk(k)'
    BY DEF EntryInv
  <2>1. cache'[k] = cache[k]
    BY <1>2
  <2>2. \A w \in Call : uid'[w] = k.uid /\ Past(w, k)' => uid[w] = k.uid /\ Past(w, k)
    BY <1>2 DEF Past
  <2> QED
    BY <1>1, <2>1, <2>2, EntryKept
<1>8. ReplyInv'
  BY <1>1, <1>2, ReplyKept DEF ReplyInv
<1> QED
  BY <1>1, <1>3, <1>4, <1>5, <1>6, <1>7, <1>8

LEMMA InvariantInit ==
    ASSUME CacheAssumption, Init
    PROVE  IInv
<1>1. TypeOK
  BY DEF Init, TypeOK
<1>2. \A c \in Call : pc[c] = "idle" /\ since[c] = {}
  BY DEF Init
<1>3. \A k \in Key : cache[k] = NoEntry
  BY DEF Init
<1>4. ResolverInv
  BY DEF Init, ResolverInv
<1> QED
  BY <1>1, <1>2, <1>3, <1>4 DEF IInv, UidInv, KindInv, ScanInv, WriteInv, SinceInv,
     FetchedInv, EntryInv, ReplyInv

LEMMA InvariantStep ==
    ASSUME CacheAssumption, IInv, [Next]_vars
    PROVE  IInv'
<1>1. ASSUME NEW c \in Call, Begin(c) \/ Step(c)
      PROVE  IInv'
  <2> USE DEF IInv
  <2>1. TypeOK' /\ HistoryKept
    BY <1>1, TypeStep, HistoryStep
  <2>2. ResolverInv' /\ UidInv' /\ KindInv' /\ ScanInv' /\ SinceInv'
    BY <1>1, LabelStep
  <2>3. WriteInv'
    BY <1>1, <2>1, WriteStep
  <2>4. FetchedInv'
    BY <1>1, <2>1, FetchedStep
  <2>5. EntryInv'
    BY <1>1, <2>1, EntryStep
  <2>6. ReplyInv'
    BY <1>1, <2>1, ReplyStep
  <2> QED
    BY <2>1, <2>2, <2>3, <2>4, <2>5, <2>6
<1>2. CASE Environment
  BY <1>2, EnvironmentStep
<1> QED
  BY <1>1, <1>2 DEF Next, Done, Environment

(* The inductive invariant, for any number of calls, servers and keys. *)
THEOREM Invariant == Spec => []IInv
<1>1. Init => IInv
  BY CacheAssumption, InvariantInit
<1>2. IInv /\ [Next]_vars => IInv'
  BY CacheAssumption, InvariantStep
<1> QED
  BY <1>1, <1>2, PTL DEF Spec

(* Type correctness of the cache middleware. *)
THEOREM TypeCorrect == Spec => []TypeOK
BY Invariant, PTL DEF IInv

(* A read that begins after an invalidated write of its user sees it, unless *)
(* its answer was stored late by a read that overlapped the write.          *)
THEOREM ReadsSeeInvalidatedWrites == Spec => []ReadYourWrites
<1>1. IInv => ReadYourWrites
  <2> SUFFICES ASSUME IInv, NEW c \in Call, NEW w \in Call,
                      pc[c] = "replied", w \in since[c],
                      got[w].db = got[c].db, got[w].uid = got[c].uid
               PROVE  got[c].version >= got[w].version \/ StoredLate(got[c].by, w)
    BY DEF ReadYourWrites
  <2>1. ReplyOk(c) /\ got[c].version \in Nat
    BY DEF IInv, ReplyInv, ReplyOk, Answer
  <2>2. got[w].version \in Nat
    BY DEF IInv, SinceInv, WriteInv, KindInv, Answer
  <2>3. CASE w \in since[got[c].by]
    BY <2>1, <2>2, <2>3 DEF ReplyOk, Settled, SeesSince
  <2>4. CASE w \notin since[got[c].by]
    BY <2>1, <2>4 DEF ReplyOk, StoredLate
  <2> QED
    BY <2>3, <2>4
<1> QED
  BY <1>1, Invariant, PTL

(* When a uid names one user of one database, as within one Odoo, every      *)
(* reply comes from the caller's own database and user.                     *)
THEOREM RepliesAreOwn ==
    ASSUME \A s, t \in Server : UidOf[s] = UidOf[t] => DbOf[s] = DbOf[t]
    PROVE  Spec => []OwnAnswer
<1>1. IInv => OwnAnswer
  <2> SUFFICES ASSUME IInv, NEW c \in Call, pc[c] = "replied"
               PROVE  got[c].db = DbOf[Srv(c)] /\ got[c].uid = UidOf[Srv(c)]
    BY DEF OwnAnswer
  <2>1. ReplyOk(c)
    BY DEF IInv, ReplyInv
  <2>2. got[c].by \in Call /\ FromItsReader(got[c]) /\ got[c].uid = UidOf[Srv(c)]
    BY <2>1 DEF ReplyOk, Settled, Answer
  <2>3. Srv(c) \in Server /\ Srv(got[c].by) \in Server
    BY <2>2 DEF IInv, TypeOK, Request, Srv
  <2> QED
    BY <2>2, <2>3 DEF FromItsReader
<1> QED
  BY <1>1, Invariant, PTL

-----------------------------------------------------------------------------
(* A step of a call leaves the other calls where they are, and never begins. *)
LEMMA OnlyOneMoves ==
    ASSUME TypeOK, NEW c \in Call, Begin(c) \/ Step(c), NEW d \in Call, d # c
    PROVE  pc'[d] = pc[d] /\ todo'[d] = todo[d]
BY DEF Begin, Step, ResolveCached, ResolveRemote, AskOk, AskFails, Resolved, GetHit, GetMiss,
       Fetch, FetchFails, Store, StoreFails, Commit, WriteFails, Scan, ScanEnds, Del,
       InvalidateFails, Goto, TypeOK

(* A step of a call brings it nearer to its end. *)
LEMMA StepsAdvance ==
    ASSUME TypeOK, NEW c \in Call, Begin(c) \/ Step(c)
    PROVE  Nearer(c)
<1> USE DEF Goto, Nearer, LabelsLeft, TypeOK
<1>1. CASE Begin(c)
  BY <1>1 DEF Begin
<1>2. CASE ResolveCached(c) \/ ResolveRemote(c) \/ AskOk(c) \/ AskFails(c)
  BY <1>2 DEF ResolveCached, ResolveRemote, AskOk, AskFails, Resolved
<1>3. CASE GetHit(c) \/ GetMiss(c) \/ Fetch(c) \/ FetchFails(c)
  BY <1>3 DEF GetHit, GetMiss, Fetch, FetchFails
<1>4. CASE Store(c) \/ StoreFails(c) \/ Commit(c) \/ WriteFails(c)
  BY <1>4 DEF Store, StoreFails, Commit, WriteFails
<1>5. CASE \E k \in Key : Scan(c, k)
  BY <1>5 DEF Scan
<1>6. CASE ScanEnds(c) \/ Del(c) \/ InvalidateFails(c)
  BY <1>6 DEF ScanEnds, Del, InvalidateFails
<1> QED
  BY <1>1, <1>2, <1>3, <1>4, <1>5, <1>6 DEF Step

(* Every step of a call brings it nearer to its end, and nothing sets it back. *)
THEOREM CallsHaveBoundedSteps == Spec => CallsAdvance
<1>1. ASSUME TypeOK, [Next]_vars, NEW c \in Call
      PROVE  \/ Nearer(c)
             \/ ~Step(c) /\ pc'[c] = pc[c] /\ todo'[c] = todo[c]
  <2>1. CASE Begin(c) \/ Step(c)
    BY <1>1, <2>1, StepsAdvance
  <2>2. ASSUME ~Step(c), NEW d \in Call, d # c, Begin(d) \/ Step(d)
        PROVE  pc'[c] = pc[c] /\ todo'[c] = todo[c]
    BY <1>1, <2>2, OnlyOneMoves
  <2>3. ASSUME ~Step(c), Environment
        PROVE  Nearer(c) \/ (pc'[c] = pc[c] /\ todo'[c] = todo[c])
    <3>1. CASE UNCHANGED <<pc, todo>>
      BY <3>1
    <3>2. ASSUME NEW s \in Server, Crash(s)
          PROVE  Nearer(c) \/ (pc'[c] = pc[c] /\ todo'[c] = todo[c])
      BY <1>1, <3>2 DEF Crash, InFlight, Nearer, LabelsLeft, TypeOK
    <3> QED
      BY <2>3, <3>1, <3>2 DEF Environment, Expire, OutsideWrite, vars
  <2> QED
    BY <1>1, <2>1, <2>2, <2>3 DEF Next, Done, Environment
<1>2. TypeOK /\ [Next]_vars =>
        [\A c \in Call : \/ Nearer(c)
                         \/ ~Step(c) /\ pc'[c] = pc[c] /\ todo'[c] = todo[c]]_vars
  BY <1>1
<1> QED
  BY <1>2, TypeCorrect, PTL DEF Spec, CallsAdvance
=============================================================================
