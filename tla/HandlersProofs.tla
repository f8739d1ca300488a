---------------------------- MODULE HandlersProofs ----------------------------
(***************************************************************************)
(* Proofs about ToolHandlers for any calls, records, limits and offsets:    *)
(* guardrails, audit log, truncation notice, and the cache in front.        *)
(***************************************************************************)
EXTENDS ToolHandlers, TLAPS

(* A plan is a few checks, and the guardrails are among them. *)
LEMMA PlanType ==
    ASSUME NEW r \in Request
    PROVE  /\ Plan(r) \in Seq(Checks)
           /\ Len(Plan(r)) \in 1 .. 4
           /\ Mutates(r) => /\ \E i \in DOMAIN Plan(r) : Plan(r)[i] = "readonly"
                            /\ \E i \in DOMAIN Plan(r) : Plan(r)[i] = "model"
<1>1. CASE Plan(r) = <<"rate", "model", "readonly", "parse">>
  <2>1. 2 \in DOMAIN Plan(r) /\ 3 \in DOMAIN Plan(r)
        /\ Plan(r)[2] = "model" /\ Plan(r)[3] = "readonly"
    BY <1>1
  <2> QED
    BY <1>1, <2>1 DEF Checks
<1>2. CASE Plan(r) = <<"parse", "rate", "model", "readonly">>
  <2>1. 3 \in DOMAIN Plan(r) /\ 4 \in DOMAIN Plan(r)
        /\ Plan(r)[3] = "model" /\ Plan(r)[4] = "readonly"
    BY <1>2
  <2> QED
    BY <1>2, <2>1 DEF Checks
<1>3. CASE Plan(r) = <<"rate">> /\ ~Mutates(r)
  BY <1>3 DEF Checks
<1>4. CASE Plan(r) = <<"parse", "rate", "model">> /\ ~Mutates(r)
  BY <1>4 DEF Checks
<1>5. r.tool \in Viewers => ~Mutates(r)
  BY DEF Mutates, Viewers, Writers
<1> QED
  BY <1>1, <1>2, <1>3, <1>4, <1>5 DEF Plan, Mutates

(* A request that changes something and is allowed passed both guardrails. *)
LEMMA AllowedChange ==
    ASSUME NEW r \in Request, Allowed(r), Mutates(r)
    PROVE  ~readOnly /\ ~r.blocked
<1>1. PICK i \in DOMAIN Plan(r) : Plan(r)[i] = "readonly"
  BY PlanType
<1>2. PICK j \in DOMAIN Plan(r) : Plan(r)[j] = "model"
  BY PlanType
<1> QED
  BY <1>1, <1>2 DEF Allowed, Passes

(* What the record of a request says. *)
LEMMA RequestType ==
    ASSUME HandlersAssumption, NEW r \in Request
    PROVE  /\ r.limit \in Nat /\ r.offset \in Nat
           /\ r.limit # 0 => r.tool = "search_read"
           /\ r.blocked \in BOOLEAN
           /\ Cached(r) => ~Mutates(r)
           /\ r.tool = "search_read" => ~Mutates(r)
           /\ r.tool = "list_models" => ~Mutates(r)
           /\ r.input \in {"valid", "invalid", "empty"}
<1>1. /\ r.limit \in Limit \cup {0} /\ r.offset \in Offset \cup {0}
      /\ r.limit # 0 => r.tool = "search_read"
      /\ r.blocked \in BOOLEAN
      /\ r.input \in {"valid", "invalid", "empty"}
  BY DEF Request
<1>2. Cached(r) => ~Mutates(r)
  BY DEF Cached, Mutates, Readers, Viewers, Writers
<1>3. (r.tool = "search_read" => ~Mutates(r)) /\ (r.tool = "list_models" => ~Mutates(r))
  BY DEF Mutates, Writers
<1>4. r.limit \in Nat /\ r.offset \in Nat
  <2>1. Limit \cup {0} \subseteq Nat /\ Offset \cup {0} \subseteq Nat
    BY DEF HandlersAssumption
  <2> QED
    BY <1>1, <2>1
<1> QED
  BY <1>1, <1>2, <1>3, <1>4

(* The checks of a plan are passed or not whatever the other variables are. *)
LEMMA AllowedStays ==
    ASSUME UNCHANGED readOnly, NEW r
    PROVE  /\ \A check : (Passes(r, check)') = Passes(r, check)
           /\ (Allowed(r)') = Allowed(r)
BY DEF Passes, Allowed

-----------------------------------------------------------------------------
(* What is a call's own. *)
Same(c) ==
    /\ pc'[c] = pc[c] /\ req'[c] = req[c] /\ checks'[c] = checks[c]
    /\ committed'[c] = committed[c] /\ logged'[c] = logged[c]
    /\ page'[c] = page[c] /\ notice'[c] = notice[c]
    /\ uncounted'[c] = uncounted[c] /\ stored'[c] = stored[c]

(* A step of others leaves what is known of c; the records may change under it. *)
LEMMA Untouched ==
    ASSUME HandlersAssumption, TypeOK, UNCHANGED readOnly,
           NEW c \in Call, CallInv(c), Same(c),
           \/ UNCHANGED records /\ low'[c] = low[c] /\ high'[c] = high[c]
           \/ \E n : Records(n)
    PROVE  CallInv(c)'
<1>1. CheckInv(c)'
  BY AllowedStays DEF CallInv, CheckInv, Same
<1>2. EffectInv(c)'
  BY AllowedStays DEF CallInv, EffectInv, Same
<1>3. LogInv(c)'
  BY DEF CallInv, LogInv, Same
<1>4. PageInv(c)'
  <2>1. low[c] \in 0 .. MaxRecords /\ high[c] \in 0 .. MaxRecords /\ records \in 0 .. MaxRecords
        /\ page[c] \in 0 .. MaxRecords
    BY DEF TypeOK
  <2>2. CASE UNCHANGED records /\ low'[c] = low[c] /\ high'[c] = high[c]
    BY <2>2 DEF CallInv, PageInv, Same, Reading
  <2>3. ASSUME NEW n, Records(n)
        PROVE  PageInv(c)'
    <3>1. CASE Reading(c)
      <4>1. /\ records' = n /\ n \in 0 .. MaxRecords
            /\ low'[c] = IF n < low[c] THEN n ELSE low[c]
            /\ high'[c] = IF n > high[c] THEN n ELSE high[c]
        BY <2>3, <3>1 DEF Records
      <4>2. req[c].limit \in Nat /\ req[c].offset \in Nat
        BY <3>1, RequestType DEF CallInv, EffectInv, Reading
      <4>3. pc[c] # "ok" /\ ~notice[c]
        BY <3>1 DEF CallInv, PageInv, Reading
      <4>4. low'[c] <= n /\ n <= high'[c] /\ low'[c] <= low[c]
        BY <2>1, <4>1
      <4>5. low'[c] \in Int /\ high'[c] \in Int
        BY <2>1, <4>1
      <4> QED
        BY <2>1, <3>1, <4>1, <4>2, <4>3, <4>4, <4>5 DEF CallInv, PageInv, Same, Reading
    <3>2. CASE ~Reading(c)
      <4>1. low'[c] = low[c] /\ high'[c] = high[c]
        BY <2>3, <3>2 DEF Records
      <4> QED
        BY <3>2, <4>1 DEF CallInv, PageInv, Same, Reading
    <3> QED
      BY <3>1, <3>2
  <2> QED
    BY <2>2, <2>3
<1> QED
  BY <1>1, <1>2, <1>3, <1>4 DEF CallInv

-----------------------------------------------------------------------------
(* The types. *)
LEMMA RecordsType ==
    ASSUME TypeOK, NEW n, Records(n)
    PROVE  /\ records' \in 0 .. MaxRecords
           /\ low' \in [Call -> 0 .. MaxRecords]
           /\ high' \in [Call -> 0 .. MaxRecords]
BY DEF Records, TypeOK

LEMMA EffectType ==
    ASSUME TypeOK, NEW c \in Call, Effect(c)
    PROVE  /\ records' \in 0 .. MaxRecords
           /\ low' \in [Call -> 0 .. MaxRecords]
           /\ high' \in [Call -> 0 .. MaxRecords]
           /\ committed' \in [Call -> BOOLEAN]
           /\ \E n : Records(n)
<1>1. PICK n : Records(n)
  BY DEF Effect
<1>2. committed' \in [Call -> BOOLEAN]
  BY DEF Effect, TypeOK
<1> QED
  BY <1>1, <1>2, RecordsType

(* A page has no more records than there are. *)
LEMMA PageType ==
    ASSUME HandlersAssumption, TypeOK, NEW r \in Request
    PROVE  /\ Page(r) \in 0 .. MaxRecords
           /\ r.limit > 0 /\ Page(r) # r.limit => records <= r.offset + Page(r)
<1>1. r.limit \in Nat /\ r.offset \in Nat /\ records \in 0 .. MaxRecords
  BY RequestType DEF TypeOK
<1>2. MaxRecords \in Nat
  BY DEF HandlersAssumption
<1> QED
  BY <1>1, <1>2 DEF Page

LEMMA TypeStep ==
    ASSUME HandlersAssumption, IInv, NEW c \in Call, Step(c)
    PROVE  TypeOK'
<1> USE DEF IInv, Goto, Log
<1>1. CASE Arrive(c)
  BY <1>1, PlanType DEF Arrive, TypeOK
<1>2. CASE Hit(c)
  BY <1>2 DEF Hit, TypeOK, Ended
<1>3. CASE Evict(c)
  BY <1>3 DEF Evict, TypeOK
<1>4. CASE Pass(c)
  <2>1. checks[c] \in Seq(Checks) /\ checks[c] # <<>>
    BY <1>4 DEF Pass, TypeOK, CallInv, CheckInv
  <2>2. Tail(checks[c]) \in Seq(Checks)
    BY <2>1
  <2> QED
    BY <1>4, <2>2 DEF Pass, TypeOK
<1>5. CASE Refuse(c)
  BY <1>5 DEF Refuse, RefusalLog, TypeOK, Ended
<1>6. CASE Write(c)
  BY <1>6, EffectType DEF Write, NoEffect, TypeOK
<1>7. CASE Read(c)
  <2>1. req[c] \in Request
    BY <1>7 DEF Read, CallInv, EffectInv
  <2>2. 0 \in 0 .. MaxRecords
    BY DEF HandlersAssumption
  <2> QED
    BY <1>7, <2>1, <2>2, PageType DEF Read, TypeOK
<1>8. CASE OdooFails(c)
  BY <1>8, EffectType DEF OdooFails, NoEffect, TypeOK
<1>9. CASE Panic(c)
  BY <1>9 DEF Panic, TypeOK, Ended
<1>10. CASE Report(c)
  BY <1>10 DEF Report, Succeed, TypeOK, Ended
<1>11. CASE ReportError(c)
  BY <1>11 DEF ReportError, TypeOK, Ended
<1>12. CASE Count(c)
  BY <1>12 DEF Count, Succeed, TypeOK, Ended
<1>13. CASE CountFails(c)
  BY <1>13 DEF CountFails, Succeed, TypeOK, Ended
<1> QED
  BY <1>1, <1>2, <1>3, <1>4, <1>5, <1>6, <1>7, <1>8, <1>9, <1>10, <1>11, <1>12, <1>13
     DEF Step

-----------------------------------------------------------------------------
(* The other calls: a step leaves what is theirs. *)
LEMMA OthersSame ==
    ASSUME IInv, NEW c \in Call, Step(c), NEW d \in Call, d # c
    PROVE  Same(d) /\ UNCHANGED readOnly
BY DEF IInv, TypeOK, Step, Arrive, Hit, Evict, Pass, Refuse, Write, Read, OdooFails, NoEffect,
   Effect, Panic, Report, ReportError, Count, CountFails, Succeed, Goto, Log, Same

LEMMA OthersStep ==
    ASSUME HandlersAssumption, IInv, NEW c \in Call, Step(c), NEW d \in Call, d # c
    PROVE  CallInv(d)'
<1>1. Same(d) /\ UNCHANGED readOnly
  BY OthersSame
<1>2. \/ UNCHANGED records /\ low'[d] = low[d] /\ high'[d] = high[d]
      \/ \E n : Records(n)
  BY EffectType DEF IInv, TypeOK, Step, Arrive, Hit, Evict, Pass, Refuse, Write, Read,
     OdooFails, NoEffect, Panic, Report, ReportError, Count, CountFails
<1> QED
  BY <1>1, <1>2, Untouched DEF IInv

(* The call itself. *)
LEMMA OwnStep ==
    ASSUME HandlersAssumption, IInv, NEW c \in Call, Step(c)
    PROVE  CallInv(c)'
<1> USE DEF Goto, Log
<1>0. TypeOK /\ CallInv(c) /\ UNCHANGED readOnly
  BY DEF IInv, Step, Arrive, Hit, Evict, Pass, Refuse, Write, Read, OdooFails, NoEffect,
     Panic, Report, ReportError, Count, CountFails
<1>1. CASE Arrive(c)
  <2>1. PICK r \in Request : req'[c] = r /\ checks'[c] = Plan(r)
    BY <1>0, <1>1 DEF Arrive, TypeOK
  <2>2. /\ pc[c] = "idle" /\ pc'[c] = "check"
        /\ UNCHANGED <<records, committed, logged, page, notice, uncounted, stored, low, high>>
    BY <1>0, <1>1 DEF Arrive, TypeOK
  <2>3. ~committed[c] /\ logged[c] = "none" /\ ~stored[c] /\ ~notice[c]
    BY <1>0, <2>2 DEF CallInv, EffectInv, LogInv, PageInv
  <2>4. CheckInv(c)'
    <3>1. Plan(r) \in Seq(Checks) /\ Len(Plan(r)) \in 1 .. 4
      BY PlanType
    <3>2. Len(checks'[c]) \in 1 .. Len(Plan(r)) /\ Len(Plan(r)) - Len(checks'[c]) = 0
      BY <2>1, <3>1
    <3>3. \A i \in DOMAIN Plan(r) : i \in Nat /\ i >= 1
      BY <3>1
    <3>4. \A i \in DOMAIN Plan(r) : ~(i <= 0) /\ checks'[c][i - 0] = Plan(r)[i]
      BY <2>1, <3>3
    <3> QED
      BY <2>1, <3>2, <3>4 DEF CheckInv
  <2> QED
    BY <2>1, <2>2, <2>3, <2>4 DEF CallInv, EffectInv, LogInv, PageInv, Reading
<1>2. CASE Hit(c)
  <2>1. PICK d \in Call :
          /\ stored[d] /\ req[d] = req[c]
          /\ page'[c] = page[d] /\ notice'[c] = notice[d] /\ uncounted'[c] = uncounted[d]
          /\ low'[c] = low[d] /\ high'[c] = high[d]
    BY <1>0, <1>2 DEF Hit, TypeOK
  <2>2. /\ pc[c] = "check" /\ pc'[c] = "ok" /\ logged'[c] = "success"
        /\ UNCHANGED <<records, req, checks, committed, stored>>
    BY <1>0, <1>2 DEF Hit, TypeOK
  <2>3. CallInv(d)
    BY DEF IInv
  <2>4. pc[d] = "ok" /\ req[c] \in Request /\ Allowed(req[c]) /\ Cached(req[c])
    BY <2>1, <2>3 DEF CallInv, EffectInv
  <2>5. ~Mutates(req[c]) /\ ~stored[c] /\ ~committed[c]
    BY <1>0, <2>2, <2>4, RequestType DEF CallInv, EffectInv
  <2>6. EffectInv(c)'
    BY <1>0, <2>2, <2>4, <2>5, AllowedStays DEF EffectInv
  <2>7. PageInv(c)'
    BY <2>1, <2>2, <2>3, <2>4 DEF CallInv, PageInv, Reading
  <2> QED
    BY <2>2, <2>5, <2>6, <2>7 DEF CallInv, CheckInv, LogInv
<1>3. CASE Evict(c)
  BY <1>0, <1>3, AllowedStays DEF Evict, TypeOK, CallInv, CheckInv, EffectInv, LogInv, PageInv, Reading
<1>4. CASE Pass(c)
  <2>1. /\ pc[c] = "check" /\ Passes(req[c], Head(checks[c]))
        /\ checks'[c] = Tail(checks[c])
        /\ pc'[c] = IF Len(checks[c]) = 1 THEN "odoo" ELSE "check"
        /\ UNCHANGED <<records, req, committed, logged, page, notice, uncounted, stored, low, high>>
    BY <1>0, <1>4 DEF Pass, TypeOK
  <2>2. /\ req[c] \in Request /\ ~committed[c] /\ logged[c] = "none" /\ ~stored[c]
        /\ ~notice[c]
    BY <1>0, <2>1 DEF CallInv, EffectInv, LogInv, PageInv
  <2> DEFINE plan == Plan(req[c])
             n == Len(plan)
             m == Len(checks[c])
  <2>3. /\ plan \in Seq(Checks) /\ checks[c] \in Seq(Checks) /\ m \in 1 .. n
        /\ \A i \in DOMAIN plan : IF i <= n - m THEN Passes(req[c], plan[i])
                                   ELSE checks[c][i - (n - m)] = plan[i]
    BY <1>0, <2>1, <2>2, PlanType DEF CallInv, CheckInv, TypeOK
  <2>4. n \in Nat /\ m \in Nat /\ DOMAIN plan = 1 .. n /\ 1 <= m /\ m <= n
    BY <2>3
  <2>5. /\ Len(checks'[c]) = m - 1
        /\ \A i \in 1 .. m - 1 : checks'[c][i] = checks[c][i + 1]
        /\ Passes(req[c], checks[c][1])
    BY <2>1, <2>3, <2>4
  <2> HIDE DEF plan, n, m
  <2>6. ASSUME NEW i \in 1 .. n
        PROVE  IF i <= n - (m - 1) THEN Passes(req[c], plan[i])
               ELSE checks'[c][i - (n - (m - 1))] = plan[i]
    <3>1. CASE i <= n - m
      BY <2>3, <2>4, <3>1
    <3>2. CASE i = n - m + 1
      <4>1. checks[c][i - (n - m)] = plan[i] /\ i - (n - m) = 1
        BY <2>3, <2>4, <3>2
      <4> QED
        BY <2>4, <2>5, <3>2, <4>1
    <3>3. CASE i > n - m + 1
      <4>1. checks[c][i - (n - m)] = plan[i]
        BY <2>3, <2>4, <3>3
      <4>2. /\ i - (n - (m - 1)) \in 1 .. m - 1
            /\ (i - (n - (m - 1))) + 1 = i - (n - m)
        BY <2>4, <3>3
      <4> QED
        BY <2>4, <2>5, <3>3, <4>1, <4>2
    <3> QED
      BY <2>4, <3>1, <3>2, <3>3
  <2>7. CASE m = 1
    <3>1. \A i \in DOMAIN plan : Passes(req[c], plan[i])
      BY <2>4, <2>6, <2>7
    <3>2. Allowed(req[c])
      BY <3>1 DEF Allowed, plan
    <3> QED
      BY <1>0, <2>1, <2>2, <2>7, <3>2, AllowedStays
         DEF CallInv, CheckInv, EffectInv, LogInv, PageInv, Reading, m
  <2>8. CASE m # 1
    <3>1. Len(checks'[c]) \in 1 .. n
      BY <2>4, <2>5, <2>8
    <3>2. CheckInv(c)'
      BY <1>0, <2>1, <2>4, <2>5, <2>6, <3>1, AllowedStays DEF CheckInv, plan, n
    <3> QED
      BY <2>1, <2>2, <2>8, <3>2 DEF CallInv, EffectInv, LogInv, PageInv, Reading, m
  <2> QED
    BY <2>7, <2>8
<1>5. CASE Refuse(c)
  <2>1. /\ pc[c] = "check" /\ pc'[c] = "refused"
        /\ logged'[c] = RefusalLog(req[c], Head(checks[c]))
        /\ UNCHANGED <<records, req, checks, committed, page, notice, uncounted, stored, low, high>>
    BY <1>0, <1>5 DEF Refuse, TypeOK
  <2>2. req[c] \in Request /\ ~committed[c] /\ ~stored[c] /\ ~notice[c]
    BY <1>0, <2>1 DEF CallInv, EffectInv, PageInv
  <2>3. logged'[c] = "success" => MayChangeNothing(req[c])
    BY <2>1 DEF RefusalLog, MayChangeNothing
  <2> QED
    BY <2>1, <2>2, <2>3 DEF CallInv, CheckInv, EffectInv, LogInv, PageInv, Reading
<1>6. CASE Write(c)
  <2>1. /\ pc[c] = "odoo" /\ pc'[c] = "answered" /\ Mutates(req[c])
        /\ \/ MayChange(req[c]) /\ committed'[c]
           \/ MayChangeNothing(req[c]) /\ committed'[c] = committed[c]
        /\ UNCHANGED <<req, checks, logged, page, notice, uncounted, stored>>
    BY <1>0, <1>6 DEF Write, Effect, NoEffect, TypeOK
  <2>2. /\ req[c] \in Request /\ Allowed(req[c]) /\ logged[c] = "none" /\ ~stored[c]
        /\ ~notice[c]
    BY <1>0, <2>1 DEF CallInv, EffectInv, LogInv, PageInv
  <2>3. req[c].tool # "search_read"
    BY <2>1, <2>2, RequestType
  <2> QED
    BY <1>0, <2>1, <2>2, <2>3, AllowedStays DEF CallInv, CheckInv, EffectInv, LogInv, PageInv
<1>7. CASE Read(c)
  <2>1. /\ pc[c] = "odoo" /\ pc'[c] = "answered" /\ ~Mutates(req[c])
        /\ page'[c] = IF req[c].tool = "search_read" THEN Page(req[c]) ELSE 0
        /\ low'[c] = records /\ high'[c] = records
        /\ UNCHANGED <<records, req, checks, committed, logged, notice, uncounted, stored>>
    BY <1>0, <1>7 DEF Read, TypeOK
  <2>2. /\ req[c] \in Request /\ Allowed(req[c]) /\ logged[c] = "none" /\ ~stored[c]
        /\ ~committed[c] /\ ~notice[c]
    BY <1>0, <2>1 DEF CallInv, EffectInv, LogInv, PageInv
  <2>3. PageInv(c)'
    <3>1. records \in Int
      BY <1>0 DEF TypeOK
    <3> QED
      BY <1>0, <2>1, <2>2, <3>1, PageType DEF PageInv
  <2> QED
    BY <1>0, <2>1, <2>2, <2>3, AllowedStays DEF CallInv, CheckInv, EffectInv, LogInv
<1>8. CASE OdooFails(c)
  <2>1. /\ pc[c] = "odoo" /\ pc'[c] = "errored"
        /\ committed'[c] = committed[c] \/ (MayChange(req[c]) /\ committed'[c])
        /\ UNCHANGED <<req, checks, logged, page, notice, uncounted, stored>>
    BY <1>0, <1>8 DEF OdooFails, NoEffect, Effect, TypeOK
  <2>2. /\ req[c] \in Request /\ Allowed(req[c]) /\ logged[c] = "none" /\ ~stored[c]
        /\ ~committed[c] /\ ~notice[c]
    BY <1>0, <2>1 DEF CallInv, EffectInv, LogInv, PageInv
  <2> QED
    BY <1>0, <2>1, <2>2, AllowedStays DEF CallInv, CheckInv, EffectInv, LogInv, PageInv, Reading
<1>9. CASE Panic(c)
  <2>1. /\ pc[c] = "answered" /\ pc'[c] = "failed" /\ req[c].tool = "list_models"
        /\ UNCHANGED <<records, req, checks, committed, logged, page, notice, uncounted, stored,
                       low, high>>
    BY <1>0, <1>9 DEF Panic, TypeOK
  <2>2. req[c] \in Request /\ ~stored[c] /\ ~notice[c] /\ logged[c] = "none"
    BY <1>0, <2>1 DEF CallInv, EffectInv, LogInv, PageInv
  <2>3. ~committed[c]
    BY <1>0, <2>1, <2>2, RequestType DEF CallInv, EffectInv, MayChange
  <2> QED
    BY <2>1, <2>2, <2>3 DEF CallInv, CheckInv, EffectInv, LogInv, PageInv, Reading
<1>10. CASE Report(c)
  <2>1. /\ pc[c] = "answered" /\ logged'[c] = "success"
        /\ \/ Full(c) /\ pc'[c] = "count" /\ UNCHANGED stored
           \/ ~Full(c) /\ pc'[c] = "ok" /\ (stored'[c] => Cached(req[c]))
        /\ UNCHANGED <<records, req, checks, committed, page, notice, uncounted, low, high>>
    BY <1>0, <1>10 DEF Report, Succeed, TypeOK
  <2>2. req[c] \in Request /\ Allowed(req[c]) /\ ~stored[c] /\ ~notice[c]
    BY <1>0, <2>1 DEF CallInv, EffectInv, PageInv
  <2>3. EffectInv(c)'
    BY <1>0, <2>1, <2>2, AllowedStays DEF CallInv, EffectInv
  <2>4. LogInv(c)'
    BY <1>0, <2>1 DEF CallInv, EffectInv, LogInv
  <2>5. PageInv(c)'
    <3>1. /\ req[c].limit \in Nat /\ req[c].offset \in Nat
          /\ req[c].limit # 0 => req[c].tool = "search_read"
      BY <2>2, RequestType
    <3>2. low[c] \in Int /\ high[c] \in Int /\ page[c] \in Int /\ records \in Int
      BY <1>0 DEF TypeOK
    <3> QED
      BY <1>0, <2>1, <2>2, <3>1, <3>2 DEF CallInv, PageInv, Reading, Full
  <2> QED
    BY <2>1, <2>3, <2>4, <2>5 DEF CallInv, CheckInv
<1>11. CASE ReportError(c)
  <2>1. /\ pc[c] = "errored" /\ pc'[c] = "failed" /\ logged'[c] = "failure"
        /\ UNCHANGED <<records, req, checks, committed, page, notice, uncounted, stored, low, high>>
    BY <1>0, <1>11 DEF ReportError, TypeOK
  <2>2. req[c] \in Request /\ Allowed(req[c]) /\ ~stored[c] /\ ~notice[c]
    BY <1>0, <2>1 DEF CallInv, EffectInv, PageInv
  <2> QED
    BY <1>0, <2>1, <2>2, AllowedStays DEF CallInv, CheckInv, EffectInv, LogInv, PageInv, Reading
<1>12. CASE Count(c) \/ CountFails(c)
  <2>1. /\ pc[c] = "count" /\ pc'[c] = "ok" /\ (stored'[c] => Cached(req[c]))
        /\ UNCHANGED <<records, req, checks, committed, logged, page, low, high>>
        /\ \/ notice'[c] = (records > page[c])
           \/ notice'[c] = FALSE /\ uncounted'[c] = TRUE
    <3>1. CASE Count(c)
      BY <1>0, <1>12, <3>1 DEF Count, Succeed, TypeOK
    <3>2. CASE CountFails(c)
      BY <1>0, <1>12, <3>2 DEF CountFails, Succeed, TypeOK, CallInv, PageInv
    <3> QED
      BY <1>12, <3>1, <3>2
  <2>2. /\ req[c] \in Request /\ Allowed(req[c]) /\ logged[c] = "success" /\ ~notice[c]
        /\ req[c].tool = "search_read"
    BY <1>0, <2>1 DEF CallInv, EffectInv, LogInv, PageInv
  <2>3. EffectInv(c)'
    BY <1>0, <2>1, <2>2, AllowedStays DEF CallInv, EffectInv
  <2>4. LogInv(c)'
    BY <1>0, <2>1, <2>2 DEF CallInv, LogInv
  <2>5. PageInv(c)'
    <3>1. req[c].offset \in Nat
      BY <2>2, RequestType
    <3>2. low[c] \in Int /\ high[c] \in Int /\ page[c] \in Int /\ records \in Int
      BY <1>0 DEF TypeOK
    <3>3. low[c] <= records /\ records <= high[c] /\ ~Reading(c)'
      BY <1>0, <2>1, <2>2 DEF CallInv, PageInv, Reading
    <3>4. CASE notice'[c] = FALSE /\ uncounted'[c] = TRUE
      BY <2>1, <3>3, <3>4 DEF PageInv
    <3>5. CASE notice'[c] = (records > page[c])
      <4>1. low[c] > req[c].offset + page[c] => records > page[c]
        BY <3>1, <3>2, <3>3
      <4>2. records > page[c] => high[c] > page[c]
        BY <3>2, <3>3
      <4> QED
        BY <2>1, <3>3, <3>5, <4>1, <4>2 DEF PageInv
    <3> QED
      BY <2>1, <3>4, <3>5
  <2> QED
    BY <2>1, <2>3, <2>4, <2>5 DEF CallInv, CheckInv
<1> QED
  BY <1>1, <1>2, <1>3, <1>4, <1>5, <1>6, <1>7, <1>8, <1>9, <1>10, <1>11, <1>12 DEF Step

(* The death of the process. *)
LEMMA CrashStep ==
    ASSUME IInv, Crash, NEW c \in Call
    PROVE  CallInv(c)'
<1>1. /\ UNCHANGED <<readOnly, records, req, checks, committed, logged, page, notice, uncounted,
                     stored, low, high>>
      /\ pc'[c] = IF pc[c] \in Ended \cup {"idle"} THEN pc[c] ELSE "lost"
  BY DEF Crash
<1>2. CallInv(c)
  BY DEF IInv
<1>3. CASE pc[c] \in Ended \cup {"idle"}
  BY <1>1, <1>2, <1>3, AllowedStays
     DEF CallInv, CheckInv, EffectInv, LogInv, PageInv, Reading, Ended
<1>4. CASE pc[c] \notin Ended \cup {"idle"}
  BY <1>1, <1>2, <1>4, AllowedStays
     DEF CallInv, CheckInv, EffectInv, LogInv, PageInv, Reading, Ended
<1> QED
  BY <1>3, <1>4

-----------------------------------------------------------------------------
LEMMA InvariantInit ==
    ASSUME HandlersAssumption, Init
    PROVE  IInv
<1>1. 0 \in 0 .. MaxRecords
  BY DEF HandlersAssumption
<1>2. TypeOK
  BY <1>1 DEF Init, TypeOK
<1>3. ASSUME NEW c \in Call
      PROVE  CallInv(c)
  BY DEF Init, CallInv, CheckInv, EffectInv, LogInv, PageInv, Reading
<1> QED
  BY <1>2, <1>3 DEF IInv

LEMMA InvariantStep ==
    ASSUME HandlersAssumption, IInv, [Next]_vars
    PROVE  IInv'
<1>1. ASSUME NEW c \in Call, Step(c)
      PROVE  IInv'
  BY <1>1, TypeStep, OwnStep, OthersStep DEF IInv
<1>2. CASE OutsideChange
  <2>1. (\E n : Records(n)) /\ TypeOK'
    BY <1>2, RecordsType DEF OutsideChange, IInv, TypeOK
  <2>2. ASSUME NEW c \in Call
        PROVE  CallInv(c)'
    <3>1. Same(c) /\ UNCHANGED readOnly
      BY <1>2 DEF OutsideChange, Same
    <3> QED
      BY <2>1, <3>1, Untouched DEF IInv
  <2> QED
    BY <2>1, <2>2 DEF IInv
<1>3. CASE Crash
  <2>1. TypeOK'
    BY <1>3 DEF Crash, IInv, TypeOK, Ended
  <2> QED
    BY <1>3, <2>1, CrashStep DEF IInv
<1>4. CASE UNCHANGED vars
  <2>1. TypeOK'
    BY <1>4 DEF vars, IInv, TypeOK
  <2>2. ASSUME NEW c \in Call
        PROVE  CallInv(c)'
    <3>1. Same(c) /\ UNCHANGED <<readOnly, records, low, high>>
      BY <1>4 DEF vars, Same
    <3> QED
      BY <3>1, Untouched DEF IInv
  <2> QED
    BY <2>1, <2>2 DEF IInv
<1> QED
  BY <1>1, <1>2, <1>3, <1>4 DEF Next

(* The inductive invariant, for any calls, numbers of records, limits and      *)
(* offsets.                                                                  *)
THEOREM Invariant == Spec => []IInv
<1>1. Init => IInv
  BY HandlersAssumption, InvariantInit
<1>2. IInv /\ [Next]_vars => IInv'
  BY HandlersAssumption, InvariantStep
<1> QED
  BY <1>1, <1>2, PTL DEF Spec

(* Type correctness of the handlers: a page past the end of the records is     *)
(* empty, and what is left of a plan is a sequence of checks.                 *)
THEOREM TypeCorrect == Spec => []TypeOK
BY Invariant, PTL DEF IInv

(* Odoo is changed only by calls that passed every guardrail. *)
THEOREM GuardrailsBeforeChanges == Spec => []GuardrailsHold
<1>1. IInv => GuardrailsHold
  BY AllowedChange DEF IInv, CallInv, EffectInv, MayChange, GuardrailsHold
<1> QED
  BY <1>1, Invariant, PTL

(* Whoever answers, handler or cache, answers what the guardrails let through. *)
THEOREM OnlyAllowedAreServed == Spec => []OnlyAllowedServed
<1>1. IInv => OnlyAllowedServed
  BY DEF IInv, CallInv, EffectInv, OnlyAllowedServed, Allowed
<1> QED
  BY <1>1, Invariant, PTL

(* A call that changed Odoo and is over is in the audit log, as a success if    *)
(* its caller was told so.                                                    *)
THEOREM ChangesAreLogged == Spec => []ChangesAreAudited
<1>1. IInv => ChangesAreAudited
  BY DEF IInv, CallInv, LogInv, ChangesAreAudited
<1> QED
  BY <1>1, Invariant, PTL

(* Every answer is in the audit log, one from the cache too. *)
THEOREM AnswersAreLogged == Spec => []AnswersAreAudited
<1>1. IInv => AnswersAreAudited
  BY DEF IInv, CallInv, LogInv, AnswersAreAudited
<1> QED
  BY <1>1, Invariant, PTL

(* A create, a write, an unlink or a posted message in the log as a success    *)
(* changed Odoo, or had no ids or no fields to do anything with.              *)
THEOREM LoggedSuccessIsReal == Spec => []SuccessIsReal
<1>1. IInv => SuccessIsReal
  BY DEF IInv, CallInv, LogInv, SuccessIsReal
<1> QED
  BY <1>1, Invariant, PTL

(* A page cut off by its limit is told to be, if there were more records all    *)
(* the time until the reply and they could be counted.                        *)
THEOREM TruncationIsTold == Spec => []TruncationTold
<1>1. IInv => TruncationTold
  BY DEF IInv, CallInv, PageInv, TruncationTold
<1> QED
  BY <1>1, Invariant, PTL

(* The truncation notice is given only if there were more records at some time. *)
THEOREM NoticesAreTrue == Spec => []NoticeIsTrue
<1>1. IInv => NoticeIsTrue
  BY DEF IInv, CallInv, PageInv, NoticeIsTrue
<1> QED
  BY <1>1, Invariant, PTL

-----------------------------------------------------------------------------
(* A step of a call: nothing has been done in Odoo before its request, and the  *)
(* steps after the entry neither write one again nor change anything in Odoo.  *)
LEMMA StepWorksOnce ==
    ASSUME IInv, NEW c \in Call, Step(c)
    PROVE  /\ Write(c) \/ OdooFails(c) => ~committed[c]
           /\ logged[c] # "none" => logged'[c] = logged[c] /\ committed'[c] = committed[c]
<1>1. TypeOK /\ EffectInv(c) /\ LogInv(c)
  BY DEF IInv, CallInv
<1>2. Write(c) \/ OdooFails(c) => ~committed[c]
  BY <1>1 DEF EffectInv, Write, OdooFails
<1>3. ASSUME logged[c] # "none"
      PROVE  logged'[c] = logged[c] /\ committed'[c] = committed[c]
  <2>1. pc[c] \notin {"idle", "check", "odoo", "answered", "errored"}
    BY <1>1, <1>3 DEF LogInv
  <2>2. Evict(c) \/ Count(c) \/ CountFails(c)
    BY <2>1 DEF Step, Arrive, Hit, Pass, Refuse, Write, Read, OdooFails, Panic, Report,
       ReportError
  <2> QED
    BY <2>2 DEF Evict, Count, CountFails
<1> QED
  BY <1>2, <1>3

(* A call works on Odoo at most once, and its audit entry is final. *)
THEOREM CallsWorkOnce == Spec => WorksOnce
<1>1. ASSUME IInv, [Next]_vars, NEW c \in Call
      PROVE  /\ Write(c) \/ OdooFails(c) => ~committed[c]
             /\ logged[c] # "none" => logged'[c] = logged[c] /\ committed'[c] = committed[c]
  <2>1. ASSUME NEW d \in Call, Step(d), d # c
        PROVE  logged'[c] = logged[c] /\ committed'[c] = committed[c]
    BY <1>1, <2>1, OthersSame DEF Same
  <2>2. ASSUME OutsideChange \/ Crash \/ UNCHANGED vars
        PROVE  logged'[c] = logged[c] /\ committed'[c] = committed[c]
    BY <2>2 DEF OutsideChange, Crash, vars
  <2>3. Write(c) \/ OdooFails(c) => Step(c)
    BY DEF Step
  <2>4. CASE Step(c)
    BY <1>1, <2>4, StepWorksOnce
  <2> QED
    BY <1>1, <2>1, <2>2, <2>3, <2>4, StepWorksOnce DEF Next
<1>2. IInv /\ [Next]_vars =>
        \A c \in Call :
            /\ Write(c) \/ OdooFails(c) => ~committed[c]
            /\ logged[c] # "none" => logged'[c] = logged[c] /\ committed'[c] = committed[c]
  BY <1>1
<1>3. IInv /\ [Next]_vars => [\A c \in Call :
            /\ Write(c) \/ OdooFails(c) => ~committed[c]
            /\ logged[c] # "none" =>
                  logged'[c] = logged[c] /\ committed'[c] = committed[c]]_vars
  BY <1>2
<1> QED
  BY <1>3, Invariant, PTL DEF Spec, WorksOnce
=============================================================================
