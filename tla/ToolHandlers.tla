---------------------------- MODULE ToolHandlers ----------------------------
(***************************************************************************)
(* The handlers of the ten MCP tools (internal/tools) with the guardrails  *)
(* they consult, the Odoo request they make (internal/odoo) and the audit  *)
(* entry they leave.  Every tools/call runs its handler in a goroutine of  *)
(* its own; calls meet in Odoo.  Records are counted, not described, and   *)
(* the verdict of the rate limiter is free: TokenBucket and WindowLimiter  *)
(* are its models.  In front of the handlers is the result cache, whose    *)
(* contents over time CacheMiddleware models: here it is what it answers   *)
(* in place of a handler.  The audit log is configured, as in the          *)
(* deployment.                                                             *)
(***************************************************************************)
EXTENDS Integers, Sequences

CONSTANTS
    Call,        \* tool-call requests that reach a handler
    MaxRecords,  \* bound on the records of the model all calls work on
    Limit,       \* page sizes asked of search_read, 0 is "no limit"
    Offset       \* offsets asked of search_read

ASSUME HandlersAssumption ==
    /\ MaxRecords \in Nat
    /\ Limit \subseteq Nat
    /\ Offset \subseteq Nat

Writers == {"create", "write", "unlink"}
Readers == {"search_read", "read", "fields_get"}
Viewers == {"list_models", "server_info"}
Tool    == Writers \cup Readers \cup Viewers \cup {"call", "message_post"}

(* input: whether the arguments parse.  "empty" ones do: ids '' or '[]' to   *)
(* no ids at all, the values of a write also to no fields.                  *)
(* pure: odoo_call of one of readOnlyMethods.                              *)
Request ==
    {r \in [tool : Tool, input : {"valid", "invalid", "empty"},
            blocked : BOOLEAN, pure : BOOLEAN, limit : Limit \cup {0},
            offset : Offset \cup {0}] :
        /\ r.input = "empty" => r.tool \in {"write", "unlink"}
        /\ r.pure => r.tool = "call"
        /\ r.limit # 0 \/ r.offset # 0 => r.tool = "search_read"
        /\ r.tool \in Viewers => r.input = "valid" /\ ~r.blocked}

NoRequest == [tool |-> "none"]

VARIABLES
    readOnly,   \* cfg.ReadOnlyMode
    records,    \* how many records Odoo has
    pc,         \* where each call is
    req,        \* its request
    checks,     \* the checks the handler still has to make
    committed,  \* the call has changed something in Odoo
    logged,     \* Success of the audit entry of the call
    page,       \* the number of records search_read returned
    notice,     \* the reply has the truncation notice
    uncounted,  \* the search_count of the call failed
    stored,     \* the reply of the call is in the cache
    low,        \* history: the fewest records since search_read was answered
    high        \* history: the most records since search_read was answered

vars == <<readOnly, records, pc, req, checks, committed, logged,
          page, notice, uncounted, stored, low, high>>

Checks == {"rate", "model", "readonly", "parse"}
Ended  == {"ok", "failed", "refused", "lost"}

(* Type invariant: the log, the checks left and the page sizes stay in their domains. *)
TypeOK ==
    /\ readOnly \in BOOLEAN
    /\ records \in 0 .. MaxRecords
    /\ pc \in [Call -> {"idle", "check", "odoo", "answered", "errored", "count"}
                       \cup Ended]
    /\ req \in [Call -> Request \cup {NoRequest}]
    /\ checks \in [Call -> Seq(Checks)]
    /\ committed \in [Call -> BOOLEAN]
    /\ logged \in [Call -> {"none", "success", "failure"}]
    /\ page \in [Call -> 0 .. MaxRecords]
    /\ notice \in [Call -> BOOLEAN]
    /\ uncounted \in [Call -> BOOLEAN]
    /\ stored \in [Call -> BOOLEAN]
    /\ low \in [Call -> 0 .. MaxRecords]
    /\ high \in [Call -> 0 .. MaxRecords]

Init ==
    /\ readOnly \in BOOLEAN
    /\ records \in 0 .. MaxRecords
    /\ pc = [c \in Call |-> "idle"]
    /\ req = [c \in Call |-> NoRequest]
    /\ checks = [c \in Call |-> <<>>]
    /\ committed = [c \in Call |-> FALSE]
    /\ logged = [c \in Call |-> "none"]
    /\ page = [c \in Call |-> 0]
    /\ notice = [c \in Call |-> FALSE]
    /\ uncounted = [c \in Call |-> FALSE]
    /\ stored = [c \in Call |-> FALSE]
    /\ low = [c \in Call |-> 0]
    /\ high = [c \in Call |-> 0]

-----------------------------------------------------------------------------
Goto(c, label) == pc' = [pc EXCEPT ![c] = label]

(* The cache is in front of the tools that read. *)
Cached(r) == r.tool \in Readers \cup Viewers

(* The handler has ended well: the middleware stores the reply of a tool that *)
(* reads, unless that fails, and passes it on.                               *)
Succeed(c) ==
    /\ Goto(c, "ok")
    /\ \E kept \in BOOLEAN :
          /\ kept => Cached(req[c])
          /\ stored' = [stored EXCEPT ![c] = kept]

(* The audit entry of the call, when the handler leaves one. *)
Log(c, success) == logged' = [logged EXCEPT ![c] = success]

(* The number of records becomes n, which a call between its search_read   *)
(* and its reply may or may not notice.                                     *)
Reading(c) == pc[c] \in {"answered", "count"}
Records(n) ==
    /\ n \in 0 .. MaxRecords
    /\ records' = n
    /\ low'  = [c \in Call |-> IF Reading(c) /\ n < low[c]  THEN n ELSE low[c]]
    /\ high' = [c \in Call |-> IF Reading(c) /\ n > high[c] THEN n ELSE high[c]]

(* The request may change something in Odoo. *)
Mutates(r) == r.tool \in Writers \cup {"message_post"} \/ (r.tool = "call" /\ ~r.pure)

(* What Odoo does with the request may be a change: not a write of nothing.   *)
MayChange(r) == Mutates(r) /\ r.input # "empty"

(* What Odoo does with the request may be none: a write of nothing, and any   *)
(* method of odoo_call that happens not to change anything.                  *)
MayChangeNothing(r) == r.tool = "call" \/ r.input = "empty"

(* Faulty: odoo_call takes every method for a read-only one. *)
PlanTrusting(r) ==
    IF r.tool \in Writers THEN <<"rate", "model", "readonly", "parse">>
    ELSE IF r.tool \in Viewers THEN <<"rate">>
    ELSE IF r.tool = "message_post" THEN <<"parse", "rate", "model", "readonly">>
    ELSE <<"parse", "rate", "model">>

(* The checks of a handler, in its order: the tools that write check first  *)
(* and parse afterwards, the others the other way round; list_models and    *)
(* server_info have nothing to parse and no model.                         *)
Plan(r) ==
    IF r.tool \in Writers THEN <<"rate", "model", "readonly", "parse">>
    ELSE IF r.tool \in Viewers THEN <<"rate">>
    ELSE IF Mutates(r) THEN <<"parse", "rate", "model", "readonly">>
    ELSE <<"parse", "rate", "model">>

(* CheckRate, CheckModel, CheckWrite, and parsing with the empty-ids check  *)
(* that unlink has and write has not.                                      *)
Passes(r, check) ==
    \/ check = "rate"
    \/ check = "model"    /\ ~r.blocked
    \/ check = "readonly" /\ ~readOnly
    \/ check = "parse"    /\ (r.input = "valid" \/ (r.input = "empty" /\ r.tool = "write"))

Fails(r, check) == check = "rate" \/ ~Passes(r, check)

(* The entry a refusal leaves.  unlink says Success: false for empty ids,   *)
(* and auditResult, called without an error, makes it true.                *)
RefusalLog(r, check) ==
    IF r.tool = "unlink" /\ check = "parse" /\ r.input = "empty" THEN "success"
    ELSE IF r.tool \in Writers \/ (r.tool = "call" /\ check # "parse") THEN "failure"
    ELSE "none"

-----------------------------------------------------------------------------
Arrive(c) ==
    /\ pc[c] = "idle"
    /\ \E r \in Request :
          /\ req' = [req EXCEPT ![c] = r]
          /\ checks' = [checks EXCEPT ![c] = Plan(r)]
    /\ Goto(c, "check")
    /\ UNCHANGED <<readOnly, records, committed, logged, page, notice, uncounted, stored,
                   low, high>>

(* Faulty: no audit entry for a reply from the cache. *)
HitUnlogged(c) ==
    /\ pc[c] = "check"
    /\ checks[c] = Plan(req[c])
    /\ \E d \in Call :
          /\ stored[d] /\ req[d] = req[c]
          /\ page' = [page EXCEPT ![c] = page[d]]
          /\ notice' = [notice EXCEPT ![c] = notice[d]]
          /\ uncounted' = [uncounted EXCEPT ![c] = uncounted[d]]
          /\ low' = [low EXCEPT ![c] = low[d]]
          /\ high' = [high EXCEPT ![c] = high[d]]
    /\ Goto(c, "ok")
    /\ UNCHANGED <<readOnly, records, req, checks, committed, logged, stored>>

(* The cache has the reply of an equal call: c gets it without a handler, and  *)
(* low and high are about that reply.                                         *)
Hit(c) ==
    /\ pc[c] = "check"
    /\ checks[c] = Plan(req[c])
    /\ \E d \in Call :
          /\ stored[d] /\ req[d] = req[c]
          /\ page' = [page EXCEPT ![c] = page[d]]
          /\ notice' = [notice EXCEPT ![c] = notice[d]]
          /\ uncounted' = [uncounted EXCEPT ![c] = uncounted[d]]
          /\ low' = [low EXCEPT ![c] = low[d]]
          /\ high' = [high EXCEPT ![c] = high[d]]
    /\ Log(c, "success")
    /\ Goto(c, "ok")
    /\ UNCHANGED <<readOnly, records, req, checks, committed, stored>>

(* The entry expires, or a write invalidates it. *)
Evict(c) ==
    /\ stored[c]
    /\ stored' = [stored EXCEPT ![c] = FALSE]
    /\ UNCHANGED <<readOnly, records, pc, req, checks, committed, logged, page, notice,
                   uncounted, low, high>>

Pass(c) ==
    /\ pc[c] = "check"
    /\ Passes(req[c], Head(checks[c]))
    /\ checks' = [checks EXCEPT ![c] = Tail(@)]
    /\ Goto(c, IF Len(checks[c]) = 1 THEN "odoo" ELSE "check")
    /\ UNCHANGED <<readOnly, records, req, committed, logged, page, notice,
                   uncounted, stored, low, high>>

(* Faulty: an error is stored like a result. *)
RefuseStored(c) ==
    /\ pc[c] = "check"
    /\ Fails(req[c], Head(checks[c]))
    /\ Log(c, RefusalLog(req[c], Head(checks[c])))
    /\ Goto(c, "refused")
    /\ stored' = [stored EXCEPT ![c] = Cached(req[c])]
    /\ UNCHANGED <<readOnly, records, req, checks, committed, page, notice,
                   uncounted, low, high>>

(* An error result, which the cache does not store. *)
Refuse(c) ==
    /\ pc[c] = "check"
    /\ Fails(req[c], Head(checks[c]))
    /\ Log(c, RefusalLog(req[c], Head(checks[c])))
    /\ Goto(c, "refused")
    /\ UNCHANGED <<readOnly, records, req, checks, committed, page, notice,
                   uncounted, stored, low, high>>

(* What the request does in Odoo. *)
Effect(c) ==
    /\ committed' = [committed EXCEPT ![c] = TRUE]
    /\ Records(IF req[c].tool = "create" THEN records + 1
               ELSE IF req[c].tool = "unlink" THEN records - 1 ELSE records)

NoEffect == UNCHANGED <<records, committed, low, high>>

(* The response arrives, with a status below 400: Odoo has committed, or had  *)
(* nothing to change.  Ids of records that do not exist are an error to Odoo. *)
Write(c) ==
    /\ pc[c] = "odoo"
    /\ Mutates(req[c])
    /\ \/ MayChange(req[c]) /\ Effect(c)
       \/ MayChangeNothing(req[c]) /\ NoEffect
    /\ Goto(c, "answered")
    /\ UNCHANGED <<readOnly, req, checks, logged, page, notice, uncounted, stored>>

(* Faulty: an offset past the end. *)
PagePastEnd(r) == IF r.limit > 0 /\ r.limit < records - r.offset THEN r.limit
                  ELSE records - r.offset

(* The page search_read is answered with. *)
Page(r) == LET rest == IF records > r.offset THEN records - r.offset ELSE 0
           IN  IF r.limit > 0 /\ r.limit < rest THEN r.limit ELSE rest

Read(c) ==
    /\ pc[c] = "odoo"
    /\ ~Mutates(req[c])
    /\ page' = [page EXCEPT ![c] = IF req[c].tool = "search_read"
                                   THEN Page(req[c]) ELSE 0]
    /\ low' = [low EXCEPT ![c] = records]
    /\ high' = [high EXCEPT ![c] = records]
    /\ Goto(c, "answered")
    /\ UNCHANGED <<readOnly, records, req, checks, committed, logged, notice,
                   uncounted, stored>>

(* Faulty: the client sends a request without an answer again. *)
OdooRetried(c) ==
    /\ pc[c] = "odoo"
    /\ NoEffect \/ (MayChange(req[c]) /\ Effect(c))
    /\ Goto(c, "errored") \/ Goto(c, "odoo")
    /\ UNCHANGED <<readOnly, req, checks, logged, page, notice, uncounted, stored>>

(* An error: Odoo refused, or it did the work and the response was lost,    *)
(* timed out or could not be decoded.                                      *)
OdooFails(c) ==
    /\ pc[c] = "odoo"
    /\ NoEffect \/ (MayChange(req[c]) /\ Effect(c))
    /\ Goto(c, "errored")
    /\ UNCHANGED <<readOnly, req, checks, logged, page, notice, uncounted, stored>>

(* The answer of ir.model has a shape ListModels does not expect: it panics *)
(* and the recovery middleware turns that into an error.                    *)
Panic(c) ==
    /\ pc[c] = "answered"
    /\ req[c].tool = "list_models"
    /\ Goto(c, "failed")
    /\ UNCHANGED <<readOnly, records, req, checks, committed, logged, page, notice,
                   uncounted, stored, low, high>>

(* Faulty: no page is longer than its limit. *)
FullNever(c) == req[c].limit > 0 /\ page[c] > req[c].limit

(* A full page is ambiguous, and counted. *)
Full(c) == req[c].limit > 0 /\ page[c] = req[c].limit

(* The audit entry, then the reply or the count. *)
Report(c) ==
    /\ pc[c] = "answered"
    /\ Log(c, "success")
    /\ IF Full(c) THEN Goto(c, "count") /\ UNCHANGED stored ELSE Succeed(c)
    /\ UNCHANGED <<readOnly, records, req, checks, committed, page, notice,
                   uncounted, low, high>>

(* Faulty: a failed request leaves no entry. *)
ReportErrorUnlogged(c) ==
    /\ pc[c] = "errored"
    /\ Goto(c, "failed")
    /\ UNCHANGED <<readOnly, records, req, checks, committed, logged, page, notice,
                   uncounted, stored, low, high>>

(* Faulty: auditResult is not given the error. *)
ReportErrorAsSuccess(c) ==
    /\ pc[c] = "errored"
    /\ Log(c, "success")
    /\ Goto(c, "failed")
    /\ UNCHANGED <<readOnly, records, req, checks, committed, page, notice,
                   uncounted, stored, low, high>>

(* The audit entry of the error, then the error. *)
ReportError(c) ==
    /\ pc[c] = "errored"
    /\ Log(c, "failure")
    /\ Goto(c, "failed")
    /\ UNCHANGED <<readOnly, records, req, checks, committed, page, notice,
                   uncounted, stored, low, high>>

(* Faulty: a full page is taken for a truncated one. *)
CountInclusive(c) ==
    /\ pc[c] = "count"
    /\ notice' = [notice EXCEPT ![c] = records >= page[c]]
    /\ Succeed(c)
    /\ UNCHANGED <<readOnly, records, req, checks, committed, logged, page,
                   uncounted, low, high>>

(* searchCount, a request of its own: offset and limit play no part in it. *)
Count(c) ==
    /\ pc[c] = "count"
    /\ notice' = [notice EXCEPT ![c] = records > page[c]]
    /\ Succeed(c)
    /\ UNCHANGED <<readOnly, records, req, checks, committed, logged, page,
                   uncounted, low, high>>

CountFails(c) ==
    /\ pc[c] = "count"
    /\ uncounted' = [uncounted EXCEPT ![c] = TRUE]
    /\ Succeed(c)
    /\ UNCHANGED <<readOnly, records, req, checks, committed, logged, page, notice,
                   low, high>>

(* Odoo's own users create and delete records. *)
OutsideChange ==
    /\ \E n \in {records - 1, records + 1} : Records(n)
    /\ UNCHANGED <<readOnly, pc, req, checks, committed, logged, page, notice,
                   uncounted, stored>>

(* The process dies, and the replies of its calls with it. *)
Crash ==
    /\ \E c \in Call : pc[c] \notin Ended \cup {"idle"}
    /\ pc' = [c \in Call |-> IF pc[c] \in Ended \cup {"idle"} THEN pc[c] ELSE "lost"]
    /\ UNCHANGED <<readOnly, records, req, checks, committed, logged, page, notice,
                   uncounted, stored, low, high>>

Step(c) ==
    \/ Arrive(c) \/ Hit(c) \/ Evict(c) \/ Pass(c) \/ Refuse(c)
    \/ Write(c) \/ Read(c) \/ OdooFails(c) \/ Panic(c)
    \/ Report(c) \/ ReportError(c) \/ Count(c) \/ CountFails(c)

Next == OutsideChange \/ Crash \/ \E c \in Call : Step(c)

Spec == Init /\ [][Next]_vars

-----------------------------------------------------------------------------
(* Odoo is changed only by calls that passed every guardrail, whatever the  *)
(* order in which their handler checks and parses, and a refused call has   *)
(* changed nothing.  About: CheckModel, CheckWrite and the exemption of     *)
(* odoo_call's read-only methods.                                          *)
GuardrailsHold ==
    \A c \in Call : committed[c] =>
        ~readOnly /\ ~req[c].blocked /\ pc[c] \notin {"check", "refused"}

(* The audit log knows of every change: when a call that changed Odoo is    *)
(* over, there is an entry for it, and an entry of success if the caller    *)
(* was told so.  Only the death of the process comes between.  About: the   *)
(* return paths of the handlers after their Odoo request.                   *)
ChangesAreAudited ==
    \A c \in Call : committed[c] =>
        /\ pc[c] \in {"ok", "failed"} => logged[c] # "none"
        /\ pc[c] = "ok" => logged[c] = "success"

(* The audit log does not boast: a create, a write, an unlink or a posted     *)
(* message logged as a success has changed Odoo.  Three entries of success    *)
(* have nothing behind them: a write without ids or fields, which Odoo does   *)
(* and the handler reports as updated, an unlink without ids, which is        *)
(* refused, and a method of odoo_call that turns out to change nothing.       *)
(* About: which outcome auditResult is told of, and the empty ids of parseIDs. *)
SuccessIsReal ==
    \A c \in Call : logged[c] = "success" /\ Mutates(req[c]) =>
        committed[c] \/ MayChangeNothing(req[c])

(* A page cut off by the limit is told to be, if there were more records    *)
(* all the time between the search_read and the reply and the count worked. *)
(* About: search_read and search_count being two requests.                  *)
TruncationTold ==
    \A c \in Call :
        /\ pc[c] = "ok" /\ req[c].tool = "search_read" /\ req[c].limit > 0
        /\ low[c] > req[c].offset + page[c]
        => notice[c] \/ uncounted[c]

(* The notice is never made up: at some moment of the call there were more  *)
(* records than the page has.                                               *)
NoticeIsTrue == \A c \in Call : notice[c] => high[c] > page[c]

(* Whoever answers, a handler or the cache in its place, an answer is only    *)
(* for a call that would pass the guardrails itself.  About: the cache being  *)
(* in front of the guardrails, and refusals being results too.                *)
OnlyAllowedServed ==
    \A c \in Call : pc[c] = "ok" =>
        \A i \in DOMAIN Plan(req[c]) : Passes(req[c], Plan(req[c])[i])

(* Every answer has an entry of success in the audit log, a reply from the     *)
(* cache too.  About: the entries of ten handlers and of the cache middleware. *)
AnswersAreAudited == \A c \in Call : pc[c] = "ok" => logged[c] = "success"

(* A call works on Odoo at most once: no error is answered with a second      *)
(* attempt, which could repeat a change whose response was lost, and once a   *)
(* call has its entry in the audit log neither the entry nor what the call    *)
(* did changes.  About: HTTPClient.call, and the order of the request and of  *)
(* auditResult in the handlers.                                               *)
WorksOnce ==
    [][\A c \in Call :
          /\ Write(c) \/ OdooFails(c) => ~committed[c]
          /\ logged[c] # "none" =>
                logged'[c] = logged[c] /\ committed'[c] = committed[c]]_vars
-----------------------------------------------------------------------------
(* The inductive invariant of the proofs: what is known of a call, in parts.  *)

Allowed(r) == \A i \in DOMAIN Plan(r) : Passes(r, Plan(r)[i])

(* The checks left are the end of the plan, and those before them were passed. *)
CheckInv(c) ==
    pc[c] = "check" =>
        /\ Len(checks[c]) \in 1 .. Len(Plan(req[c]))
        /\ \A i \in DOMAIN Plan(req[c]) :
              LET done == Len(Plan(req[c])) - Len(checks[c])
              IN  IF i <= done THEN Passes(req[c], Plan(req[c])[i])
                  ELSE checks[c][i - done] = Plan(req[c])[i]

(* Nothing happens in Odoo or in the cache without the guardrails. *)
EffectInv(c) ==
    /\ pc[c] # "idle" => req[c] \in Request
    /\ pc[c] \in {"odoo", "answered", "errored", "count", "ok"} => Allowed(req[c])
    /\ committed[c] => /\ MayChange(req[c]) /\ Allowed(req[c])
                       /\ pc[c] \notin {"idle", "check", "odoo", "refused"}
    /\ pc[c] = "answered" /\ Mutates(req[c]) => committed[c] \/ MayChangeNothing(req[c])
    /\ stored[c] => pc[c] = "ok" /\ Cached(req[c])

(* The entry is written once the outcome is known, and agrees with it. *)
LogInv(c) ==
    /\ pc[c] \in {"idle", "check", "odoo", "answered", "errored"} => logged[c] = "none"
    /\ pc[c] \in {"count", "ok"} => logged[c] = "success"
    /\ pc[c] = "failed" /\ committed[c] => logged[c] # "none"
    /\ logged[c] = "success" /\ Mutates(req[c]) => committed[c] \/ MayChangeNothing(req[c])

(* A page that is not full had all the records there were at some moment. *)
PageInv(c) ==
    /\ notice[c] => pc[c] = "ok" /\ high[c] > page[c]
    /\ pc[c] = "count" => req[c].tool = "search_read"
    /\ Reading(c) /\ req[c].tool = "search_read" =>
          /\ low[c] <= records /\ records <= high[c]
          /\ req[c].limit > 0 /\ page[c] # req[c].limit => low[c] <= req[c].offset + page[c]
    /\ pc[c] = "ok" /\ req[c].tool = "search_read" /\ req[c].limit > 0
          /\ low[c] > req[c].offset + page[c] => notice[c] \/ uncounted[c]

CallInv(c) == CheckInv(c) /\ EffectInv(c) /\ LogInv(c) /\ PageInv(c)

IInv == TypeOK /\ \A c \in Call : CallInv(c)
=============================================================================
