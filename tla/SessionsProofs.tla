--------------------------- MODULE SessionsProofs ---------------------------
(***************************************************************************)
(* Proofs about Sessions for any users, requests, replicas, credentials and *)
(* scopes: type correctness, the implementation of Access, the lookup, and  *)
(* the limit.                                                              *)
(***************************************************************************)
EXTENDS Sessions, FiniteSetTheorems, SequenceTheorems, TLAPS

(* A step of the users and their clients, or of the processes. *)
Others ==
    \/ \E u \in User : Login(u) \/ DeleteUser(u) \/ \E c \in Credential : CreateUser(u, c)
    \/ \E p \in Replica : End(p) \/ Start(p)
    \/ UNCHANGED vars

(* A request at work has its replica and has been given what it names. *)
LEMMA InFlightType ==
    ASSUME TypeOK, RunInv, SessionInv, NEW r \in Request
    PROVE  /\ user[r] \in User
           /\ pc[r] \in InFlight => at[r] \in Replica /\ up[at[r]]
           /\ pc[r] = "call" => server[r] \in Request /\ found[server[r]] \in Credential
BY DEF TypeOK, RunInv, SessionInv, Own

(* A bucket that is charged has the type of a bucket. *)
LEMMA BucketType ==
    ASSUME SessionsAssumption, TypeOK, RunInv, SessionInv, NEW r \in Request, pc[r] = "call"
    PROVE  BucketOf(r) \in Bucket /\ BucketOf(r) # None
<1>1. at[r] \in Replica /\ user[r] \in User /\ server[r] \in Request
  BY InFlightType DEF InFlight
<1>2. Id(r) \in Request \cup ClientId
  BY <1>1 DEF Id, TypeOK
<1>3. BucketOf(r) \in Bucket
  BY <1>1, <1>2 DEF BucketOf, InMemory, Bucket
<1> QED
  BY <1>3 DEF SessionsAssumption

(* The types are kept by every step of a request. *)
LEMMA TypeHandle ==
    ASSUME SessionsAssumption, IInv, NEW r \in Request, Handle(r)
    PROVE  TypeOK'
<1> USE DEF IInv, InFlight, Ended, procVars
<1>1. CASE Send(r)
  BY <1>1 DEF Send, SessionIds, TypeOK
<1>2. CASE Reject(r)
  BY <1>2 DEF Reject, Finish, Goto, TypeOK, SessionInv
<1>3. CASE Find(r)
  <2>1. creds[user[r]] \in Credential
    BY <1>3, InFlightType DEF Find, LookupHits, TypeOK
  <2> QED
    BY <1>3, <2>1 DEF Find, Proceed, Goto, TypeOK
<1>4. CASE NotFound(r)
  BY <1>4 DEF NotFound, Finish, Goto, TypeOK, SessionInv
<1>5. CASE SelectOwn(r)
  BY <1>5 DEF SelectOwn, Proceed, Goto, TypeOK
<1>6. CASE Open(r)
  BY <1>6, InFlightType DEF Open, Goto, TypeOK
<1>7. CASE Resume(r)
  BY <1>7 DEF Resume, Known, Proceed, Goto, TypeOK
<1>8. CASE Miss(r)
  BY <1>8 DEF Miss, Finish, Goto, TypeOK, SessionInv
<1>11. CASE Mismatch(r)
  BY <1>11 DEF Mismatch, Finish, Goto, TypeOK, SessionInv
<1>9. CASE Exceed(r)
  BY <1>9 DEF Exceed, Finish, Goto, TypeOK, SessionInv
<1>10. CASE Call(r)
  <2>1. BucketOf(r) \in Bucket /\ found[server[r]] \in Credential \cup {None}
    BY <1>10, BucketType, InFlightType DEF Call, Finish, Goto
  <2>2. charged' \in [Request -> Bucket \cup {None}] /\ used' \in [Request -> Credential \cup {None}]
    BY <1>10, <2>1 DEF Call, TypeOK
  <2> QED
    BY <1>10, <2>2 DEF Call, Finish, Goto, TypeOK, SessionInv
<1> QED
  BY <1>1, <1>2, <1>3, <1>4, <1>5, <1>6, <1>7, <1>8, <1>9, <1>10, <1>11 DEF Handle

(* The types are kept by every other step. *)
LEMMA TypeOthers ==
    ASSUME SessionsAssumption, IInv, Others
    PROVE  TypeOK'
<1> USE DEF IInv, procVars, reqVars
<1>1. ASSUME NEW u \in User, Login(u)
      PROVE  TypeOK'
  BY <1>1 DEF Login, Claims, TypeOK
<1>2. ASSUME NEW u \in User, DeleteUser(u)
      PROVE  TypeOK'
  BY <1>2 DEF DeleteUser, TypeOK
<1>3. ASSUME NEW u \in User, NEW c \in Credential, CreateUser(u, c)
      PROVE  TypeOK'
  BY <1>3 DEF CreateUser, TypeOK
<1>4. ASSUME NEW p \in Replica, End(p)
      PROVE  TypeOK'
  <2>1. charged' \in [Request -> Bucket \cup {None}]
    <3>1. \A b \in Bucket : [b EXCEPT !.store = None] \in Bucket
      BY DEF Bucket
    <3> QED
      BY <1>4, <3>1 DEF End, Abandon, TypeOK
  <2>2. \A s \in live' : at'[s] # None /\ up'[at'[s]]
    BY <1>4 DEF End, Abandon, TypeOK
  <2>3. ends' \in 0 .. MaxEnds
    BY <1>4 DEF End, TypeOK, SessionsAssumption
  <2>4. pc' \in [Request -> {"idle"} \cup InFlight \cup Ended]
    BY <1>4 DEF End, Abandon, TypeOK, Ended
  <2> QED
    BY <1>4, <2>1, <2>2, <2>3, <2>4 DEF End, Abandon, TypeOK
<1>5. ASSUME NEW p \in Replica, Start(p)
      PROVE  TypeOK'
  BY <1>5 DEF Start, TypeOK
<1>6. CASE UNCHANGED vars
  BY <1>6 DEF vars, TypeOK
<1> QED
  BY <1>1, <1>2, <1>3, <1>4, <1>5, <1>6 DEF Others

-----------------------------------------------------------------------------
(* RunInv is kept. *)
LEMMA RunStep ==
    ASSUME SessionsAssumption, IInv, (\E r \in Request : Handle(r)) \/ Others
    PROVE  RunInv'
<1> USE DEF IInv, InFlight, procVars, reqVars
<1>1. ASSUME NEW r \in Request, Handle(r)
      PROVE  RunInv'
  <2>1. CASE Send(r)
    BY <2>1 DEF Send, TypeOK, RunInv, SessionsAssumption
  <2>2. CASE Reject(r) \/ NotFound(r)
    BY <2>2 DEF Reject, NotFound, Finish, Goto, TypeOK, RunInv
  <2>3. CASE Find(r)
    BY <2>3 DEF Find, LookupHits, Proceed, Goto, TypeOK, RunInv
  <2>4. CASE SelectOwn(r) \/ Resume(r)
    BY <2>4 DEF SelectOwn, Resume, Proceed, Goto, TypeOK, RunInv
  <2>5. CASE Open(r)
    BY <2>5 DEF Open, Goto, TypeOK, RunInv
  <2>6. CASE Miss(r) \/ Mismatch(r) \/ Exceed(r)
    BY <2>6 DEF Miss, Mismatch, Exceed, Finish, Goto, TypeOK, RunInv
  <2>7. CASE Call(r)
    BY <2>7 DEF Call, Finish, Goto, TypeOK, RunInv
  <2> QED
    BY <1>1, <2>1, <2>2, <2>3, <2>4, <2>5, <2>6, <2>7 DEF Handle
<1>2. CASE Others
  <2>1. ASSUME NEW p \in Replica, End(p)
        PROVE  RunInv'
    BY <2>1 DEF End, Abandon, TypeOK, RunInv
  <2>2. ASSUME NEW p \in Replica, Start(p)
        PROVE  RunInv'
    BY <2>2 DEF Start, TypeOK, RunInv
  <2> QED
    BY <1>2, <2>1, <2>2 DEF Others, Login, DeleteUser, CreateUser, vars, RunInv
<1> QED
  BY <1>1, <1>2

(* SessionInv is kept. *)
LEMMA SessionStep ==
    ASSUME SessionsAssumption, IInv, (\E r \in Request : Handle(r)) \/ Others
    PROVE  SessionInv'
<1> USE DEF IInv, InFlight, procVars, reqVars, Own
<1>1. ASSUME NEW r \in Request, Handle(r)
      PROVE  SessionInv'
  <2>1. CASE Send(r)
    BY <2>1 DEF Send, TypeOK, RunInv, SessionInv
  <2>2. CASE Reject(r) \/ NotFound(r)
    BY <2>2 DEF Reject, NotFound, Finish, Goto, TypeOK, RunInv, SessionInv
  <2>3. CASE Find(r)
    BY <2>3 DEF Find, LookupHits, Proceed, Goto, TypeOK, RunInv, SessionInv
  <2>4. CASE SelectOwn(r)
    BY <2>4 DEF SelectOwn, Proceed, Goto, TypeOK, RunInv, SessionInv, SessionsAssumption
  <2>5. CASE Resume(r)
    <3>1. sid[r] \in live /\ at[sid[r]] = at[r] /\ ~stateless
      BY <2>5 DEF Resume, Known
    <3>2. sid[r] \in Request /\ Own(r, sid[r])
      <4>1. sid[r] \in Request /\ found[sid[r]] # None
        BY <3>1 DEF TypeOK, SessionInv
      <4>2. user[sid[r]] = user[r]
        BY <2>5, <4>1 DEF Resume, SameUser, UserID, TypeOK, SessionsAssumption
      <4> QED
        BY <4>1, <4>2
    <3> QED
      BY <2>5, <3>1, <3>2 DEF Resume, Proceed, Goto, TypeOK, RunInv, SessionInv,
          SessionsAssumption
  <2>6. CASE Open(r)
    BY <2>6 DEF Open, Goto, TypeOK, RunInv, SessionInv
  <2>7. CASE Miss(r) \/ Mismatch(r)
    BY <2>7 DEF Miss, Mismatch, Finish, Goto, TypeOK, RunInv, SessionInv
  <2>8. CASE Exceed(r)
    BY <2>8 DEF Exceed, Finish, Goto, TypeOK, RunInv, SessionInv
  <2>9. CASE Call(r)
    BY <2>9 DEF Call, Finish, Goto, TypeOK, RunInv, SessionInv
  <2> QED
    BY <1>1, <2>1, <2>2, <2>3, <2>4, <2>5, <2>6, <2>7, <2>8, <2>9 DEF Handle
<1>2. CASE Others
  <2>1. ASSUME NEW p \in Replica, End(p)
        PROVE  SessionInv'
    BY <2>1 DEF End, Abandon, TypeOK, RunInv, SessionInv
  <2>2. ASSUME NEW p \in Replica, Start(p)
        PROVE  SessionInv'
    BY <2>2 DEF Start, TypeOK, SessionInv
  <2> QED
    BY <1>2, <2>1, <2>2 DEF Others, Login, DeleteUser, CreateUser, vars, SessionInv
<1> QED
  BY <1>1, <1>2

-----------------------------------------------------------------------------
(* A scope that is there stays there, and a required one is put there. *)
LEMMA WithScopeContains ==
    ASSUME NEW S, NEW scope \in Seq(S), NEW required \in S
    PROVE  /\ WithScope(scope, required) \in Seq(S)
           /\ containsScope(WithScope(scope, required), required)
           /\ \A t \in S : containsScope(scope, t) => containsScope(WithScope(scope, required), t)
<1>1. CASE containsScope(scope, required)
  BY <1>1 DEF WithScope
<1>2. CASE ~containsScope(scope, required)
  <2> DEFINE s == <<required>> \o scope
  <2>1. WithScope(scope, required) = s
    BY <1>2 DEF WithScope
  <2>2. s \in Seq(S) /\ Len(s) = Len(scope) + 1
    OBVIOUS
  <2>3. s[1] = required /\ 1 \in DOMAIN s
    BY <2>2
  <2>4. \A i \in DOMAIN scope : i + 1 \in DOMAIN s /\ s[i + 1] = scope[i]
    BY <2>2
  <2>5. containsScope(s, required)
    BY <2>3 DEF containsScope
  <2>6. ASSUME NEW t \in S, containsScope(scope, t)
        PROVE  containsScope(s, t)
    BY <2>4, <2>6 DEF containsScope
  <2> QED
    BY <2>1, <2>2, <2>5, <2>6
<1> QED
  BY <1>1, <1>2

(* Whatever a client asks for, all required scopes go to Dex, and what it     *)
(* asked for is kept.  About: the loop of GET /authorize.                     *)
THEOREM RequiredScopes ==
    ASSUME SessionsAssumption, NEW scope \in Seq(Scope)
    PROVE  /\ \A t \in {"openid", "email", "profile"} : containsScope(InjectScopes(scope), t)
           /\ \A t \in Scope : containsScope(scope, t) => containsScope(InjectScopes(scope), t)
<1> DEFINE s1 == WithScope(scope, "openid")
           s2 == WithScope(s1, "email")
           s3 == WithScope(s2, "profile")
<1> HIDE DEF s1, s2, s3
<1>0. "openid" \in Scope /\ "email" \in Scope /\ "profile" \in Scope
  BY DEF SessionsAssumption
<1>1. /\ s1 \in Seq(Scope)
      /\ containsScope(s1, "openid")
      /\ \A t \in Scope : containsScope(scope, t) => containsScope(s1, t)
  BY <1>0, WithScopeContains, Zenon DEF s1
<1>2. /\ s2 \in Seq(Scope)
      /\ containsScope(s2, "email")
      /\ \A t \in Scope : containsScope(s1, t) => containsScope(s2, t)
  BY <1>0, <1>1, WithScopeContains, Zenon DEF s2
<1>3. /\ containsScope(s3, "profile")
      /\ \A t \in Scope : containsScope(s2, t) => containsScope(s3, t)
  BY <1>0, <1>2, WithScopeContains, Zenon DEF s3
<1>4. InjectScopes(scope) = s3
  BY DEF InjectScopes, s1, s2, s3
<1> QED
  BY <1>0, <1>1, <1>2, <1>3, <1>4

(* The words that were put in front: required ones that were missing, each once. *)
Required == {"openid", "email", "profile"}

Added(front, scope) ==
    /\ front \in Seq(Required)
    /\ \A i \in DOMAIN front : ~containsScope(scope, front[i])
    /\ \A i, j \in DOMAIN front : front[i] = front[j] => i = j

(* A scope in front and the ones behind it. *)
LEMMA InFront ==
    ASSUME NEW S, NEW w \in S, NEW scope \in Seq(S)
    PROVE  /\ <<w>> \o scope \in Seq(S)
           /\ Len(<<w>> \o scope) = Len(scope) + 1
           /\ (<<w>> \o scope)[1] = w
           /\ \A i \in 1 .. Len(scope) : (<<w>> \o scope)[i + 1] = scope[i]
OBVIOUS

(* A scope that is nowhere in a parameter is in no part of it. *)
LEMMA InNoPart ==
    ASSUME NEW S, NEW front \in Seq(S), NEW scope \in Seq(S), NEW w,
           ~containsScope(front \o scope, w)
    PROVE  ~containsScope(front, w) /\ ~containsScope(scope, w)
<1>1. /\ Len(front \o scope) = Len(front) + Len(scope)
      /\ DOMAIN (front \o scope) = 1 .. (Len(front) + Len(scope))
      /\ Len(front) \in Nat /\ Len(scope) \in Nat
      /\ DOMAIN front = 1 .. Len(front) /\ DOMAIN scope = 1 .. Len(scope)
  OBVIOUS
<1>2. \A i \in 1 .. Len(front) : (front \o scope)[i] = front[i]
  BY ConcatProperties
<1>3. ASSUME NEW i \in 1 .. Len(scope)
      PROVE  (front \o scope)[Len(front) + i] = scope[i]
  BY <1>1, ConcatProperties
<1>4. ASSUME NEW i \in 1 .. Len(front)
      PROVE  i \in DOMAIN (front \o scope)
  BY <1>1
<1>5. ASSUME NEW i \in 1 .. Len(scope)
      PROVE  Len(front) + i \in DOMAIN (front \o scope)
  BY <1>1
<1> QED
  BY <1>1, <1>2, <1>3, <1>4, <1>5 DEF containsScope

(* One turn of the loop puts at most one word in front. *)
LEMMA WithScopeAdds ==
    ASSUME NEW S, Required \subseteq S, NEW scope \in Seq(S), NEW w \in Required,
           NEW front, Added(front, scope)
    PROVE  \E longer : Added(longer, scope) /\ WithScope(front \o scope, w) = longer \o scope
<1>0. front \in Seq(S) /\ <<w>> \in Seq(S)
  BY DEF Added
<1>1. CASE containsScope(front \o scope, w)
  BY <1>1 DEF WithScope
<1>2. CASE ~containsScope(front \o scope, w)
  <2> DEFINE longer == <<w>> \o front
  <2>1. WithScope(front \o scope, w) = longer \o scope
    <3>1. <<w>> \o (front \o scope) = longer \o scope
      BY <1>0, ConcatAssociative
    <3> QED
      BY <1>2, <3>1 DEF WithScope
  <2>2. /\ longer \in Seq(Required) /\ Len(longer) = Len(front) + 1 /\ longer[1] = w
        /\ \A i \in 1 .. Len(front) : longer[i + 1] = front[i]
        /\ Len(front) \in Nat
    BY InFront DEF Added
  <2>3. ~containsScope(front, w) /\ ~containsScope(scope, w)
    BY <1>0, <1>2, InNoPart
  <2> HIDE DEF longer
  <2>4. DOMAIN longer = 1 .. (Len(front) + 1) /\ DOMAIN front = 1 .. Len(front)
    BY <2>2 DEF Added
  <2>5. \A i \in DOMAIN longer : i = 1 \/ (i - 1 \in DOMAIN front /\ longer[i] = front[i - 1])
    <3> TAKE i \in DOMAIN longer
    <3>1. i = 1 \/ (i - 1 \in 1 .. Len(front) /\ (i - 1) + 1 = i)
      BY <2>2, <2>4
    <3> QED
      BY <2>2, <2>4, <3>1
  <2>6. \A i \in DOMAIN front : front[i] # w
    BY <2>3 DEF containsScope
  <2>7. \A i \in DOMAIN longer : ~containsScope(scope, longer[i])
    BY <2>2, <2>3, <2>5 DEF Added
  <2>8. ASSUME NEW i \in DOMAIN longer, NEW j \in DOMAIN longer, longer[i] = longer[j]
        PROVE  i = j
    <3>1. i \in Int /\ j \in Int
      BY <2>2, <2>4
    <3>2. CASE i = 1 \/ j = 1
      BY <2>2, <2>5, <2>6, <2>8, <3>2
    <3>3. CASE i # 1 /\ j # 1
      <4>1. /\ i - 1 \in DOMAIN front /\ j - 1 \in DOMAIN front
            /\ front[i - 1] = front[j - 1]
        BY <2>5, <2>8, <3>3
      <4>2. i - 1 = j - 1
        BY <4>1 DEF Added
      <4> QED
        BY <3>1, <4>2
    <3> QED
      BY <3>2, <3>3
  <2> QED
    BY <2>1, <2>2, <2>7, <2>8 DEF Added
<1> QED
  BY <1>1, <1>2

(* The client's own words go to Dex unchanged and in order, behind the required *)
(* ones it did not ask for, none of them twice.  About: the same loop.         *)
THEOREM ClientScopesKept ==
    ASSUME SessionsAssumption, NEW scope \in Seq(Scope)
    PROVE  \E front : Added(front, scope) /\ InjectScopes(scope) = front \o scope
<1>0. Required \subseteq Scope /\ \A w \in {"openid", "email", "profile"} : w \in Required
  BY DEF SessionsAssumption, Required
<1>1. Added(<<>>, scope) /\ <<>> \o scope = scope
  BY DEF Added
<1>2. PICK f1 : Added(f1, scope) /\ WithScope(scope, "openid") = f1 \o scope
  <2>1. \E f : Added(f, scope) /\ WithScope(<<>> \o scope, "openid") = f \o scope
    BY <1>0, <1>1, WithScopeAdds
  <2> QED
    BY <1>1, <2>1
<1>3. PICK f2 : Added(f2, scope) /\ WithScope(f1 \o scope, "email") = f2 \o scope
  BY <1>0, <1>2, WithScopeAdds
<1>4. PICK f3 : Added(f3, scope) /\ WithScope(f2 \o scope, "profile") = f3 \o scope
  BY <1>0, <1>3, WithScopeAdds
<1> QED
  BY <1>2, <1>3, <1>4 DEF InjectScopes

(* A parameter that has passed the broker once passes it unchanged. *)
THEOREM InjectingTwice ==
    ASSUME SessionsAssumption, NEW scope \in Seq(Scope)
    PROVE  InjectScopes(InjectScopes(scope)) = InjectScopes(scope)
BY RequiredScopes DEF InjectScopes, WithScope

(* The lookup is by email, and whoever is not found has been without a row. *)
LEMMA LookupStep ==
    ASSUME SessionsAssumption, IInv, (\E r \in Request : Handle(r)) \/ Others
    PROVE  LookupInv' /\ FoundWhileMapped'
<1> USE DEF IInv, InFlight, Ended, procVars, reqVars
<1>1. ASSUME NEW r \in Request, Handle(r)
      PROVE  LookupInv' /\ FoundWhileMapped'
  <2>1. CASE Send(r)
    BY <2>1 DEF Send, TypeOK, LookupInv, FoundWhileMapped
  <2>2. CASE Reject(r) \/ Miss(r) \/ Mismatch(r) \/ Exceed(r) \/ Call(r)
    BY <2>2 DEF Reject, Miss, Mismatch, Exceed, Call, Finish, Goto, TypeOK, LookupInv, FoundWhileMapped
  <2>3. CASE NotFound(r)
    BY <2>3 DEF NotFound, LookupHits, Finish, Goto, TypeOK, LookupInv, FoundWhileMapped
  <2>4. CASE Find(r)
    BY <2>4 DEF Find, Proceed, Goto, TypeOK, LookupInv, FoundWhileMapped
  <2>5. CASE SelectOwn(r) \/ Resume(r) \/ Open(r)
    BY <2>5 DEF SelectOwn, Resume, Open, Proceed, Goto, TypeOK, LookupInv, FoundWhileMapped
  <2> QED
    BY <1>1, <2>1, <2>2, <2>3, <2>4, <2>5 DEF Handle
<1>2. ASSUME NEW u \in User, Login(u)
      PROVE  LookupInv' /\ FoundWhileMapped'
  <2>1. PICK asked \in Asked :
            \E claim \in Claims(InjectScopes(asked.scope)) : token' = [token EXCEPT ![u] = claim]
    BY <1>2 DEF Login
  <2>2. asked.scope \in Seq(Scope)
    BY <2>1 DEF SessionsAssumption
  <2>3. \E claim \in {"email", "respelled"} : token' = [token EXCEPT ![u] = claim]
    BY <2>1, <2>2, RequiredScopes DEF Claims
  <2> QED
    BY <1>2, <2>3 DEF Login, TypeOK, LookupInv, FoundWhileMapped
<1>3. ASSUME NEW u \in User, DeleteUser(u)
      PROVE  LookupInv' /\ FoundWhileMapped'
  BY <1>3 DEF DeleteUser, TypeOK, LookupInv, FoundWhileMapped
<1>4. ASSUME NEW u \in User, NEW c \in Credential, CreateUser(u, c)
      PROVE  LookupInv' /\ FoundWhileMapped'
  BY <1>4 DEF CreateUser, TypeOK, LookupInv, FoundWhileMapped, SessionsAssumption
<1>5. ASSUME NEW p \in Replica, End(p)
      PROVE  LookupInv' /\ FoundWhileMapped'
  BY <1>5 DEF End, Abandon, TypeOK, LookupInv, FoundWhileMapped
<1>6. CASE (\E p \in Replica : Start(p)) \/ UNCHANGED vars
  BY <1>6 DEF Start, vars, LookupInv, FoundWhileMapped
<1> QED
  BY <1>1, <1>2, <1>3, <1>4, <1>5, <1>6 DEF Others

-----------------------------------------------------------------------------
(* A bucket that is gone with its process still is of its session. *)
Forgotten(b) == [b EXCEPT !.store = None]

LEMMA ForgottenBucket ==
    ASSUME NEW b \in Bucket
    PROVE  Forgotten(b) \in Bucket /\ Forgotten(b).id = b.id
BY DEF Bucket, Forgotten

(* What a process leaves of the charges when it ends. *)
LEMMA ChargesAfterEnd ==
    ASSUME SessionsAssumption, TypeOK, NEW p \in Replica, End(p), NEW q \in Request
    PROVE  /\ charged[q] = None => charged'[q] = None
           /\ charged[q] # None => charged'[q] # None /\ charged'[q].id = charged[q].id
           /\ charged[q] # None /\ charged[q].store # p => charged'[q] = charged[q]
<1>1. charged'[q] = IF charged[q] # None /\ charged[q].store = p
                    THEN Forgotten(charged[q]) ELSE charged[q]
  BY DEF End, Abandon, Forgotten
<1>2. CASE charged[q] = None
  BY <1>1, <1>2
<1>3. CASE charged[q] # None
  <2>1. charged[q] \in Bucket
    BY <1>3 DEF TypeOK
  <2>2. Forgotten(charged[q]) # None
    BY <2>1, ForgottenBucket DEF SessionsAssumption
  <2> QED
    BY <1>1, <1>3, <2>1, <2>2, ForgottenBucket
<1> QED
  BY <1>2, <1>3

(* In what a call is charged to, its session's bucket is recognised. *)
LEMMA CallBucket ==
    ASSUME SessionsAssumption, IInv, NEW r \in Request, pc[r] = "call"
    PROVE  /\ BucketOf(r).id = Id(r)
           /\ ~stateless => BucketOf(r) = SessionBucket(server[r])
           /\ stateless /\ ~degraded =>
                BucketOf(r) = [store |-> "valkey", object |-> None, id |-> Id(r)]
<1>1. at[r] \in Replica /\ user[r] \in User /\ server[r] \in Request
  BY InFlightType DEF IInv, InFlight
<1>2. BucketOf(r).id = Id(r)
  BY DEF BucketOf, InMemory
<1>3. ~stateless => at[server[r]] = at[r]
  BY DEF IInv, SessionInv
<1>4. ~stateless => BucketOf(r) = SessionBucket(server[r])
  BY <1>3 DEF BucketOf, InMemory, SessionBucket, Id
<1>5. ~degraded => vc[at[r]]
  BY <1>1 DEF IInv, ChargeInv
<1> QED
  BY <1>2, <1>4, <1>5 DEF BucketOf, Id

(* ChargeInv is kept. *)
LEMMA ChargeStep ==
    ASSUME SessionsAssumption, IInv, (\E r \in Request : Handle(r)) \/ Others
    PROVE  ChargeInv'
<1> USE DEF IInv, InFlight, procVars, reqVars
<1>1. ASSUME NEW r \in Request, Handle(r)
      PROVE  ChargeInv'
  <2>1. CASE Send(r)
    BY <2>1 DEF Send, TypeOK, SessionInv, ChargeInv, OfSession, SessionBucket
  <2>2. CASE Reject(r) \/ NotFound(r)
    BY <2>2 DEF Reject, NotFound, Finish, Goto, TypeOK, SessionInv, ChargeInv, OfSession, SessionBucket
  <2>3. CASE Find(r)
    BY <2>3 DEF Find, Proceed, Goto, TypeOK, SessionInv, ChargeInv, OfSession, SessionBucket
  <2>4. CASE SelectOwn(r) \/ Resume(r)
    BY <2>4 DEF SelectOwn, Resume, Proceed, Goto, TypeOK, SessionInv, ChargeInv, OfSession, SessionBucket
  <2>5. CASE Open(r)
    BY <2>5 DEF Open, Goto, TypeOK, SessionInv, ChargeInv, OfSession, SessionBucket
  <2>6. CASE Miss(r) \/ Mismatch(r) \/ Exceed(r)
    BY <2>6 DEF Miss, Mismatch, Exceed, Finish, Goto, TypeOK, SessionInv, ChargeInv, OfSession, SessionBucket
  <2>7. CASE Call(r)
    <3>1. pc[r] = "call" /\ server[r] \in Request
      BY <2>7, InFlightType DEF Call, Finish, Goto
    <3>2. charged' = [charged EXCEPT ![r] = BucketOf(r)]
      BY <2>7 DEF Call
    <3>3. /\ ~stateless => server[r] \in live /\ server[r] # r /\ Id(r) = server[r]
          /\ BucketOf(r) # None
      BY <3>1, BucketType DEF SessionInv, Id
    <3>4. \A s \in Request : pc[s] = "served" =>
              pc'[s] = "served" /\ SessionBucket(s)' = SessionBucket(s)
      BY <2>7, <3>1 DEF Call, Finish, Goto, TypeOK, SessionBucket
    <3>5. UNCHANGED <<stateless, degraded, vc, live>>
      BY <2>7 DEF Call, Finish, Goto
    <3>6. ASSUME ~stateless, NEW q \in Request, charged'[q] # None
          PROVE  OfSession(q)'
      <4>1. CASE q = r
        <5>1. charged'[q] = SessionBucket(server[r]) /\ charged'[q].id = server[r]
          BY <3>1, <3>2, <3>3, <3>6, <4>1, CallBucket DEF TypeOK
        <5>2. pc[server[r]] = "served"
          BY <3>3, <3>6 DEF SessionInv
        <5> QED
          BY <3>1, <3>4, <3>5, <5>1, <5>2 DEF OfSession, SessionBucket
      <4>2. CASE q # r
        <5>1. charged'[q] = charged[q] /\ charged[q] # None
          BY <3>2, <3>6, <4>2 DEF TypeOK
        <5>2. OfSession(q)
          BY <3>6, <5>1 DEF ChargeInv
        <5> QED
          BY <3>4, <3>5, <5>1, <5>2 DEF OfSession, SessionBucket
      <4> QED
        BY <4>1, <4>2
    <3>7. ASSUME stateless, ~degraded, NEW q \in Request, charged'[q] # None
          PROVE  charged'[q] = [store |-> "valkey", object |-> None, id |-> charged'[q].id]
      <4>1. CASE q = r
        BY <3>1, <3>2, <3>7, <4>1, CallBucket DEF TypeOK, Id
      <4>2. CASE q # r
        BY <3>2, <3>7, <4>2 DEF TypeOK, ChargeInv
      <4> QED
        BY <4>1, <4>2
    <3> QED
      BY <3>5, <3>6, <3>7 DEF ChargeInv
  <2> QED
    BY <1>1, <2>1, <2>2, <2>3, <2>4, <2>5, <2>6, <2>7 DEF Handle
<1>2. ASSUME NEW p \in Replica, End(p)
      PROVE  ChargeInv'
  <2>1. \A s \in Request : pc[s] = "served" => pc'[s] = pc[s]
    BY <1>2 DEF End, Abandon, TypeOK
  <2>2. \A s \in live' : s \in live /\ at'[s] = at[s] /\ at[s] # p
    BY <1>2 DEF End, Abandon, TypeOK
  <2>3. UNCHANGED <<stateless, degraded, vc, found>>
    BY <1>2 DEF End
  <2>4. \A s \in live' : SessionBucket(s)' = SessionBucket(s) /\ SessionBucket(s).store # p
    BY <2>2, <2>3 DEF SessionBucket, SessionsAssumption
  <2>5. ASSUME ~stateless, NEW q \in Request, charged'[q] # None
        PROVE  OfSession(q)'
    <3>1. charged[q] # None /\ charged'[q].id = charged[q].id
      BY <1>2, <2>5, ChargesAfterEnd
    <3>2. charged[q].id \in Request /\ pc[charged[q].id] = "served"
      BY <2>5, <3>1 DEF ChargeInv, OfSession
    <3>3. charged[q].id \in live => charged[q] = SessionBucket(charged[q].id)
      BY <2>5, <3>1 DEF ChargeInv, OfSession
    <3>4. charged[q].id \in live' => charged'[q] = charged[q]
      BY <1>2, <2>2, <2>4, <3>1, <3>3, ChargesAfterEnd
    <3> QED
      BY <2>1, <2>2, <2>3, <2>4, <3>1, <3>2, <3>3, <3>4 DEF OfSession, SessionBucket
  <2>6. ASSUME stateless, ~degraded, NEW q \in Request, charged'[q] # None
        PROVE  charged'[q] = [store |-> "valkey", object |-> None, id |-> charged'[q].id]
    <3>1. charged[q] # None
      BY <1>2, <2>6, ChargesAfterEnd
    <3>2. charged[q] = [store |-> "valkey", object |-> None, id |-> charged[q].id]
      BY <2>6, <3>1 DEF ChargeInv
    <3>3. charged[q].store = "valkey"
      BY <3>2
    <3>4. charged'[q] = charged[q]
      BY <1>2, <3>1, <3>3, ChargesAfterEnd DEF SessionsAssumption
    <3> QED
      BY <3>2, <3>4
  <2> QED
    BY <2>3, <2>5, <2>6 DEF ChargeInv
<1>3. ASSUME NEW p \in Replica, Start(p)
      PROVE  ChargeInv'
  <2>1. \A s \in live : at[s] \in Replica /\ at[s] # p
    BY <1>3 DEF Start, TypeOK
  <2>2. \A s \in live : SessionBucket(s)' = SessionBucket(s)
    BY <1>3, <2>1 DEF Start, TypeOK, SessionBucket
  <2>3. ~degraded' => ~degraded /\ \A o \in Replica : vc'[o]
    BY <1>3 DEF Start, TypeOK, ChargeInv
  <2> QED
    BY <1>3, <2>1, <2>2, <2>3 DEF Start, ChargeInv, OfSession, SessionBucket
<1>4. CASE (\E u \in User : Login(u) \/ DeleteUser(u) \/ \E c \in Credential : CreateUser(u, c))
           \/ UNCHANGED vars
  <2>1. UNCHANGED <<stateless, charged, live, pc, at, vc, degraded, found>>
    BY <1>4 DEF Login, DeleteUser, CreateUser, vars
  <2> QED
    BY <2>1 DEF ChargeInv, OfSession, SessionBucket
<1> QED
  BY <1>1, <1>2, <1>3, <1>4 DEF Others

-----------------------------------------------------------------------------
(* A call that passes the check has room in its bucket, which is that of all  *)
(* the calls charged under its id.                                           *)
LEMMA LimitStepOfCall ==
    ASSUME SessionsAssumption, IsFiniteSet(Request), IInv, NEW r \in Request, Call(r)
    PROVE  LimitKept'
<1> DEFINE b == BucketOf(r)
<1>1. /\ pc[r] = "call" /\ charged[r] = None
      /\ charged' = [charged EXCEPT ![r] = b]
      /\ Spent(b) < Limit
      /\ UNCHANGED <<stateless, degraded>>
  BY DEF Call, Finish, Goto, IInv, RunInv, procVars
<1>2. b # None /\ b.id = Id(r)
  BY <1>1, BucketType, CallBucket DEF IInv
<1>3. SUFFICES ASSUME ~stateless \/ ~degraded, NEW q \in Request, charged'[q] # None
               PROVE  Cardinality({t \in Request : charged'[t] # None
                                        /\ charged'[t].id = charged'[q].id}) <= Limit
  BY <1>1 DEF LimitKept
<1> DEFINE S == {t \in Request : charged[t] # None /\ charged[t].id = charged'[q].id}
           T == {t \in Request : charged'[t] # None /\ charged'[t].id = charged'[q].id}
<1> HIDE DEF b
<1>4. /\ charged'[r] = b
      /\ \A t \in Request : t # r => charged'[t] = charged[t]
  BY <1>1 DEF IInv, TypeOK
<1>5. CASE charged'[q].id = b.id
  <2>1. T = S \cup {r}
    BY <1>1, <1>2, <1>4, <1>5
  <2>2. \A t \in Request : charged[t] # None /\ charged[t].id = b.id => charged[t] = b
    <3>1. CASE stateless
      BY <1>1, <1>2, <1>3, <3>1, CallBucket DEF b, Id, IInv, ChargeInv
    <3>2. CASE ~stateless
      BY <1>1, <1>2, <3>2, CallBucket DEF b, Id, IInv, ChargeInv, OfSession, SessionInv
    <3> QED
      BY <3>1, <3>2
  <2>3. S \in SUBSET {t \in Request : charged[t] = b}
    BY <1>5, <2>2
  <2>4. IsFiniteSet({t \in Request : charged[t] = b})
    BY FS_Subset
  <2>5. /\ IsFiniteSet(S)
        /\ Cardinality(S) <= Spent(b)
    BY <2>3, <2>4, FS_Subset DEF Spent
  <2>6. Cardinality(S) \in Nat /\ Spent(b) \in Nat
    BY <2>4, <2>5, FS_CardinalityType DEF Spent
  <2>7. r \notin S
    BY <1>1
  <2>8. Cardinality(T) = Cardinality(S) + 1
    BY <2>1, <2>5, <2>7, FS_AddElement
  <2> HIDE DEF S, T
  <2>9. Cardinality(T) <= Limit
    BY <1>1, <2>5, <2>6, <2>8 DEF SessionsAssumption
  <2> QED
    BY <2>9 DEF T
<1>6. CASE charged'[q].id # b.id
  <2>1. q # r /\ charged'[q] = charged[q]
    BY <1>4, <1>6
  <2>2. T = S
    BY <1>1, <1>4, <1>6
  <2>3. Cardinality({t \in Request : charged[t] # None /\ charged[t].id = charged[q].id}) <= Limit
    BY <1>3, <2>1 DEF IInv, LimitKept
  <2> QED
    BY <2>1, <2>2, <2>3
<1> QED
  BY <1>5, <1>6

(* LimitKept is kept. *)
LEMMA LimitStep ==
    ASSUME SessionsAssumption, IsFiniteSet(Request), IInv,
           (\E r \in Request : Handle(r)) \/ Others
    PROVE  LimitKept'
<1>1. CASE UNCHANGED <<stateless, charged>> /\ (degraded => degraded')
  BY <1>1 DEF IInv, LimitKept
<1>2. ASSUME NEW r \in Request, Handle(r)
      PROVE  LimitKept'
  <2>1. CASE Call(r)
    BY <2>1, LimitStepOfCall
  <2>2. CASE ~Call(r)
    BY <1>1, <1>2, <2>2 DEF Handle, Send, Reject, Find, NotFound, SelectOwn, Open, Resume,
       Mismatch, Miss, Exceed, Finish, Proceed, Goto, procVars
  <2> QED
    BY <2>1, <2>2
<1>3. ASSUME NEW p \in Replica, End(p)
      PROVE  LimitKept'
  <2>1. SUFFICES ASSUME ~stateless \/ ~degraded, NEW q \in Request, charged'[q] # None
                 PROVE  Cardinality({t \in Request : charged'[t] # None
                                          /\ charged'[t].id = charged'[q].id}) <= Limit
    BY <1>3 DEF LimitKept, End
  <2>2. ASSUME NEW t \in Request
        PROVE  /\ (charged'[t] # None) <=> (charged[t] # None)
               /\ charged[t] # None => charged'[t].id = charged[t].id
    BY <1>3, ChargesAfterEnd DEF IInv
  <2>3. charged[q] # None /\ charged'[q].id = charged[q].id
    BY <2>1, <2>2
  <2>4. {t \in Request : charged'[t] # None /\ charged'[t].id = charged'[q].id}
        = {t \in Request : charged[t] # None /\ charged[t].id = charged[q].id}
    BY <2>2, <2>3
  <2>5. UNCHANGED stateless /\ (degraded' = degraded)
    BY <1>3 DEF End
  <2> QED
    BY <2>1, <2>3, <2>4, <2>5 DEF IInv, LimitKept
<1>4. CASE Others /\ ~\E p \in Replica : End(p)
  <2>1. ASSUME NEW p \in Replica, Start(p)
        PROVE  LimitKept'
    BY <1>1, <2>1 DEF Start, reqVars
  <2> QED
    BY <1>1, <1>4, <2>1 DEF Others, Login, DeleteUser, CreateUser, vars, procVars, reqVars
<1> QED
  BY <1>2, <1>3, <1>4 DEF Others

-----------------------------------------------------------------------------
LEMMA InvariantInit ==
    ASSUME SessionsAssumption, IsFiniteSet(Request), Init
    PROVE  IInv
<1>1. TypeOK
  <2>1. ends \in 0 .. MaxEnds
    BY SessionsAssumption DEF Init, SessionsAssumption
  <2>2. live = {}
    BY DEF Init
  <2>3. stateless \in BOOLEAN /\ user \in [Request -> User] /\ degraded \in BOOLEAN
    BY DEF Init
  <2>4. /\ creds \in [User -> Credential \cup {None}]
        /\ token \in [User -> {"none", "email", "respelled", "subject"}]
    BY DEF Init
  <2>5. /\ up \in [Replica -> BOOLEAN]
        /\ vc \in [Replica -> BOOLEAN]
        /\ unmapped \in [Request -> BOOLEAN]
        /\ pc \in [Request -> {"idle"} \cup InFlight \cup Ended]
    BY DEF Init
  <2>6. /\ at \in [Request -> Replica \cup {None}]
        /\ sid \in [Request -> Request \cup ClientId \cup {None}]
        /\ server \in [Request -> Request \cup {None}]
        /\ charged \in [Request -> Bucket \cup {None}]
    BY DEF Init
  <2>7. /\ found \in [Request -> Credential \cup {None}]
        /\ used \in [Request -> Credential \cup {None}]
    BY DEF Init
  <2> QED
    BY <2>1, <2>2, <2>3, <2>4, <2>5, <2>6, <2>7 DEF TypeOK
<1>2. RunInv /\ SessionInv /\ LookupInv
  BY DEF Init, RunInv, SessionInv, LookupInv, InFlight
<1>3. ChargeInv /\ FoundWhileMapped /\ LimitKept
  BY DEF Init, ChargeInv, FoundWhileMapped, LimitKept
<1> QED
  BY <1>1, <1>2, <1>3 DEF IInv

LEMMA InvariantStep ==
    ASSUME SessionsAssumption, IsFiniteSet(Request), IInv, [Next]_vars
    PROVE  IInv'
<1>1. (\E r \in Request : Handle(r)) \/ Others
  BY DEF Next, Others
<1>2. TypeOK'
  BY <1>1, TypeHandle, TypeOthers
<1>3. RunInv' /\ SessionInv'
  BY <1>1, RunStep, SessionStep
<1>4. LookupInv' /\ FoundWhileMapped'
  BY <1>1, LookupStep
<1>5. ChargeInv' /\ LimitKept'
  BY <1>1, ChargeStep, LimitStep
<1> QED
  BY <1>2, <1>3, <1>4, <1>5 DEF IInv

(* The inductive invariant, for any users, replicas, credentials and scopes    *)
(* and any finite number of requests.                                        *)
THEOREM Invariant ==
    ASSUME IsFiniteSet(Request)
    PROVE  Spec => []IInv
<1>1. Init => IInv
  BY SessionsAssumption, InvariantInit
<1>2. IInv /\ [Next]_vars => IInv'
  BY SessionsAssumption, InvariantStep
<1> QED
  BY <1>1, <1>2, PTL DEF Spec

(* Type correctness of the endpoint: a session that is kept is kept by a       *)
(* process that runs.                                                        *)
THEOREM TypeCorrect ==
    ASSUME IsFiniteSet(Request)
    PROVE  Spec => []TypeOK
BY Invariant, PTL DEF IInv

(* "User not configured" is said only to who has been without a row during    *)
(* the request, or whose email Dex spells otherwise than the row does,        *)
(* whatever scopes the client asked for.                                     *)
THEOREM MappedUsersAreFound ==
    ASSUME IsFiniteSet(Request)
    PROVE  Spec => []FoundWhileMapped
BY Invariant, PTL DEF IInv

(* The limit of a session id holds over all servers, replicas and processes.  *)
THEOREM LimitHolds ==
    ASSUME IsFiniteSet(Request)
    PROVE  Spec => []LimitKept
BY Invariant, PTL DEF IInv

-----------------------------------------------------------------------------
(* A step of the endpoint is a step of Access, or none. *)
LEMMA AccessStep ==
    ASSUME SessionsAssumption, IInv, [Next]_vars
    PROVE  [A!Next]_(A!vars)
<1> USE DEF IInv, procVars, reqVars
<1>1. ASSUME UNCHANGED <<stateless, user, creds, found, used>>
      PROVE  [A!Next]_(A!vars)
  BY <1>1 DEF A!vars
<1>2. ASSUME NEW r \in Request, Find(r)
      PROVE  A!Find(r)
  BY <1>2 DEF Find, LookupHits, Proceed, Goto, RunInv, A!Find
<1>3. ASSUME NEW r \in Request, Call(r), used' # used
      PROVE  A!Act(r)
  <2>1. pc[r] = "call" /\ used' = [used EXCEPT ![r] = found[server[r]]]
    BY <1>3 DEF Call, Finish, Goto
  <2>2. /\ used[r] = None /\ found[r] # None
        /\ server[r] \in Request /\ user[server[r]] = user[r] /\ found[server[r]] # None
        /\ stateless => server[r] = r
    BY <2>1, InFlightType DEF RunInv, SessionInv, Own
  <2>3. server[r] \in A!Peers(r)
    BY <2>2 DEF A!Peers
  <2> QED
    BY <1>3, <2>1, <2>2, <2>3 DEF Call, Finish, Goto, A!Act
<1>4. ASSUME NEW r \in Request, Handle(r), ~Find(r), ~(Call(r) /\ used' # used)
      PROVE  UNCHANGED <<stateless, user, creds, found, used>>
  BY <1>4 DEF Handle, Send, Reject, NotFound, SelectOwn, Open, Resume, Mismatch, Miss,
     Exceed, Call,
     Finish, Proceed, Goto
<1>5. ASSUME NEW u \in User, DeleteUser(u)
      PROVE  A!Delete(u)
  BY <1>5 DEF DeleteUser, A!Delete
<1>6. ASSUME NEW u \in User, NEW c \in Credential, CreateUser(u, c)
      PROVE  A!Create(u, c)
  BY <1>6 DEF CreateUser, A!Create
<1>7. ASSUME (\E u \in User : Login(u)) \/ (\E p \in Replica : End(p) \/ Start(p))
             \/ UNCHANGED vars
      PROVE  UNCHANGED <<stateless, user, creds, found, used>>
  BY <1>7 DEF Login, End, Start, vars
<1> QED
  BY <1>1, <1>2, <1>3, <1>4, <1>5, <1>6, <1>7 DEF Next, A!Next

(* The endpoint implements Access: whichever session a request names, it acts  *)
(* only after its own lookup found its user, and with credentials some lookup  *)
(* for that user found.                                                      *)
THEOREM ActsOnlyAsChecked ==
    ASSUME IsFiniteSet(Request)
    PROVE  Spec => ActsAsChecked
<1>1. Init => A!Init
  BY DEF Init, A!Init
<1>2. IInv /\ [Next]_vars => [A!Next]_(A!vars)
  BY SessionsAssumption, AccessStep
<1> QED
  BY <1>1, <1>2, Invariant, PTL DEF Spec, ActsAsChecked, A!Spec

-----------------------------------------------------------------------------
(* What Access promises, in one formula: who has acted had been found, and     *)
(* acted with credentials found for the same user, the very own if stateless. *)
CredentialsAreOwn ==
    \A r \in Request : used[r] # None =>
        /\ found[r] # None
        /\ \E q \in Request :
              user[q] = user[r] /\ used[r] = found[q] /\ (stateless => q = r)

AccessInv == A!TypeOK /\ CredentialsAreOwn

(* Access means that, whoever implements it. *)
THEOREM AccessMeansOwn == A!Spec => []CredentialsAreOwn
<1>1. A!Init => AccessInv
  BY DEF A!Init, A!TypeOK, AccessInv, CredentialsAreOwn
<1>2. AccessInv /\ [A!Next]_(A!vars) => AccessInv'
  <2> SUFFICES ASSUME AccessInv, [A!Next]_(A!vars)
               PROVE  AccessInv'
    OBVIOUS
  <2> USE DEF AccessInv, A!TypeOK, CredentialsAreOwn
  <2>1. ASSUME NEW u \in User, NEW c \in Credential, A!Create(u, c)
        PROVE  AccessInv'
    BY <2>1 DEF A!Create
  <2>2. ASSUME NEW u \in User, A!Delete(u)
        PROVE  AccessInv'
    BY <2>2 DEF A!Delete
  <2>3. ASSUME NEW r \in Request, A!Find(r)
        PROVE  AccessInv'
    <3>1. /\ found[r] = None /\ creds[user[r]] # None
          /\ found' = [found EXCEPT ![r] = creds[user[r]]]
          /\ UNCHANGED <<stateless, user, creds, used>>
      BY <2>3 DEF A!Find
    <3>2. A!TypeOK'
      BY <3>1
    <3>3. ASSUME NEW q \in Request, used'[q] # None
          PROVE  /\ found'[q] # None
                 /\ \E s \in Request :
                       user'[s] = user'[q] /\ used'[q] = found'[s] /\ (stateless' => s = q)
      <4>0. used[q] # None /\ CredentialsAreOwn
        BY <3>1, <3>3
      <4>1. found[q] # None /\ found'[q] # None
        BY <3>1, <4>0
      <4>2. PICK s \in Request : user[s] = user[q] /\ used[q] = found[s] /\ (stateless => s = q)
        BY <4>0, Zenon DEF CredentialsAreOwn
      <4>3. s # r
        BY <3>1, <3>3, <4>2
      <4> QED
        BY <3>1, <4>1, <4>2, <4>3
    <3> QED
      BY <3>2, <3>3
  <2>4. ASSUME NEW r \in Request, A!Act(r)
        PROVE  AccessInv'
    <3>1. PICK q \in A!Peers(r) : found[q] # None /\ used' = [used EXCEPT ![r] = found[q]]
      BY <2>4 DEF A!Act
    <3>2. q \in Request /\ user[q] = user[r] /\ (stateless => q = r)
      BY <3>1 DEF A!Peers
    <3>3. found[r] # None /\ UNCHANGED <<stateless, user, creds, found>>
      BY <2>4 DEF A!Act
    <3> QED
      BY <3>1, <3>2, <3>3
  <2>5. CASE UNCHANGED A!vars
    BY <2>5 DEF A!vars
  <2> QED
    BY <2>1, <2>2, <2>3, <2>4, <2>5 DEF A!Next
<1>3. AccessInv => CredentialsAreOwn
  BY DEF AccessInv
<1> QED
  BY <1>1, <1>2, <1>3, PTL DEF A!Spec

(* No request acts in Odoo with credentials of another user, or without its    *)
(* own lookup, whichever session it names and whatever deletions and ends of   *)
(* processes do.  About: UserID in the token, and the 403 of the SDK.          *)
THEOREM OwnCredentialsOnly ==
    ASSUME IsFiniteSet(Request)
    PROVE  Spec => []CredentialsAreOwn
BY ActsOnlyAsChecked, AccessMeansOwn, PTL DEF ActsAsChecked
=============================================================================
