---------------------------- MODULE CallPipeline ----------------------------
(***************************************************************************)
(* The tools/call and tools/list handlers of the gateway                   *)
(* (gateway/bridge.py), composed with the components they share: the rate  *)
(* limiter, the tool cache, the concurrency limiter and the audit log.     *)
(*                                                                         *)
(* The gateway is one event loop.  A handler runs without interruption     *)
(* between two awaits that really suspend it - in the tool cache, in the   *)
(* upstream call, in the audit log - so each action below is everything a  *)
(* handler does from one suspension to the next.  A cancellation may be    *)
(* delivered at each suspension, and again at a later one.                 *)
(***************************************************************************)
EXTENDS Naturals, FiniteSets, Sequences

CONSTANTS
  Calls, Listers,           \* the tools/call and tools/list requests made
  Principals, Tools,
  PrincipalOf,              \* current_principal() in each request
  Allowed,                  \* the tools the policy allows each principal
  Requests,                 \* what a call may ask for
  UpstreamLists,            \* the tool lists the upstream may answer
  NoTools,
  Burst,                    \* whole tokens of a full bucket
  MaxConcurrent,
  HasTimeout,               \* upstream_call_timeout_seconds is not None
  MaxFaults                 \* bound on cancellations and failed writes of a call

ASSUME PipelineAssumption ==
  /\ PrincipalOf \in [Calls \cup Listers -> Principals]
  /\ Allowed \in [Principals -> SUBSET Tools]
  /\ Requests \subseteq [tool : Tools, conforms : BOOLEAN, permitted : BOOLEAN]
  /\ UpstreamLists \subseteq SUBSET Tools
  /\ NoTools \notin UpstreamLists
  /\ Burst \in Nat /\ MaxConcurrent \in Nat \ {0} /\ MaxFaults \in Nat
  /\ HasTimeout \in BOOLEAN
  /\ IsFiniteSet(Calls) /\ Calls \cap Listers = {}

VARIABLES
  pc,                       \* where each call's handler stands
  request,                  \* what the call asks for
  verdict,                  \* the handler's *_result variables
  slot,                     \* `acquired` of the concurrency context manager
  record,                   \* the AuditRecord handed to each emission
  reply,                    \* the CallToolResult the handler is about to return
  listing,                  \* what each tools/list request was told
  remote,                   \* the call as the upstream server sees it
  cancels, failures         \* history: the faults that hit each call

VARIABLES tokens, active, peak, cacheLock, tools, getter,
          auditLock, writer, job, file, asked

-----------------------------------------------------------------------------
\* emit() is called at most twice for a call: by the stage that ends it, and by
\* the outer except clauses (bridge.py:341-348).
Emissions == Calls \X {"first", "backstop"}
First(c) == <<c, "first">>
Backstop(c) == <<c, "backstop">>

Rate == INSTANCE AdmissionTokens
Limiter == INSTANCE ConcurrencyLimiter
Cache == INSTANCE ToolCache
  WITH Getters <- Calls \cup Listers, Invalidators <- {}, ToolLists <- UpstreamLists
Audit == INSTANCE AuditLog

handlerVars == <<pc, request, verdict, slot, record, reply, listing>>
limitVars == <<active, peak>>
cacheVars == <<cacheLock, tools, getter>>
auditVars == <<auditLock, writer, job, file, asked>>
faultVars == <<cancels, failures>>
vars == <<handlerVars, remote, faultVars, tokens, limitVars, cacheVars, auditVars>>

Outcomes == {"RATE_LIMITED", "POLICY_DENIED", "SCHEMA_REJECTED", "CONCURRENCY_REJECTED",
             "UPSTREAM_SUCCESS", "UPSTREAM_ERROR", "UPSTREAM_TIMEOUT", "CANCELLED",
             "INTERNAL_ERROR"}

Replies == {"none", "rate_limited", "unknown_tool", "schema_invalid", "argument_denied",
            "concurrency_rejected", "result", "upstream_failed", "timed_out"}

Stage == {"passed", "failed", "not_evaluated"}
Verdicts == [rate : Stage, policy : Stage, schema : Stage, concurrency : Stage]

FreshVerdict == [rate |-> "failed", policy |-> "not_evaluated",
                 schema |-> "not_evaluated", concurrency |-> "not_evaluated"]
RatePassed == [FreshVerdict EXCEPT !.rate = "passed"]
SchemaPassed == [RatePassed EXCEPT !.schema = "passed"]
PolicyPassed == [SchemaPassed EXCEPT !.policy = "passed"]
AllPassed == [PolicyPassed EXCEPT !.concurrency = "passed"]

Records == [outcome : Outcomes, attempted : BOOLEAN, verdict : Verdicts]
NoRecord == [outcome |-> "none"]
NoRequest == [tool |-> "none"]

PipelineTypeOK ==
  /\ pc \in [Calls -> {"idle", "discovering", "executing", "recording", "closing",
                       "returned", "raised"}]
  /\ request \in [Calls -> Requests \cup {NoRequest}]
  /\ verdict \in [Calls -> Verdicts]
  /\ slot \in [Calls -> BOOLEAN]
  /\ record \in [Emissions -> Records \cup {NoRecord}]
  /\ reply \in [Calls -> Replies]
  /\ listing \in [Listers -> SUBSET Tools]
  /\ remote \in [Calls -> {"none", "executing", "finished"}]
  /\ cancels \in [Calls -> Nat] /\ failures \in [Calls -> Nat]
  /\ Rate!TokensTypeOK /\ Limiter!LimitTypeOK /\ Cache!CacheTypeOK /\ Audit!AuditTypeOK

Init ==
  /\ pc = [c \in Calls |-> "idle"]
  /\ request = [c \in Calls |-> NoRequest]
  /\ verdict = [c \in Calls |-> FreshVerdict]
  /\ slot = [c \in Calls |-> FALSE]
  /\ record = [e \in Emissions |-> NoRecord]
  /\ reply = [c \in Calls |-> "none"]
  /\ listing = [l \in Listers |-> {}]
  /\ remote = [c \in Calls |-> "none"]
  /\ cancels = [c \in Calls |-> 0] /\ failures = [c \in Calls |-> 0]
  /\ Rate!TokensInit /\ Limiter!LimitInit /\ Cache!CacheInit /\ Audit!AuditInit

-----------------------------------------------------------------------------
\* The handler ends call c at verdict v with this record, and will answer ans
\* once the record is written.
Report(c, v, outcome, attempted, ans) ==
  /\ pc' = [pc EXCEPT ![c] = "recording"]
  /\ verdict' = [verdict EXCEPT ![c] = v]
  /\ record' = [record EXCEPT ![First(c)] =
                  [outcome |-> outcome, attempted |-> attempted, verdict |-> v]]
  /\ reply' = [reply EXCEPT ![c] = ans]
  /\ Audit!Emit(First(c))
  /\ UNCHANGED <<slot, listing>>

\* A stage refuses the call before the upstream hears of it.
Refuse(c, v, outcome, ans) ==
  /\ Report(c, v, outcome, FALSE, ans)
  /\ UNCHANGED remote

\* The outer except clauses: the record of a call whose first record was not
\* written.  The emission itself is in the actions that use this.
Guard(c, outcome) ==
  /\ pc' = [pc EXCEPT ![c] = "closing"]
  /\ record' = [record EXCEPT ![Backstop(c)] =
                  [outcome |-> outcome, attempted |-> FALSE, verdict |-> verdict[c]]]
  /\ UNCHANGED <<request, verdict, reply, listing, remote>>

\* A mutant of Forward: concurrency_result is never set.
ForwardSilently(c) ==
  /\ pc' = [pc EXCEPT ![c] = "executing"]
  /\ verdict' = [verdict EXCEPT ![c] = PolicyPassed]
  /\ slot' = [slot EXCEPT ![c] = TRUE]
  /\ remote' = [remote EXCEPT ![c] = "executing"]
  /\ UNCHANGED <<record, reply, listing, auditVars>>

\* The call's execution slot is taken and the request goes out.
Forward(c) ==
  /\ pc' = [pc EXCEPT ![c] = "executing"]
  /\ verdict' = [verdict EXCEPT ![c] = AllPassed]
  /\ slot' = [slot EXCEPT ![c] = TRUE]
  /\ remote' = [remote EXCEPT ![c] = "executing"]
  /\ UNCHANGED <<record, reply, listing, auditVars>>

\* The rest of the pipeline, from the upstream's tool list to the upstream call.
Judge(c, r, list) ==
  \/ /\ r.tool \notin list
     /\ Refuse(c, [RatePassed EXCEPT !.policy = "failed"], "POLICY_DENIED", "unknown_tool")
     /\ UNCHANGED limitVars
  \/ /\ r.tool \in list /\ ~r.conforms
     /\ Refuse(c, [RatePassed EXCEPT !.schema = "failed"], "SCHEMA_REJECTED", "schema_invalid")
     /\ UNCHANGED limitVars
  \/ /\ r.tool \in list /\ r.conforms /\ ~r.permitted
     /\ Refuse(c, [SchemaPassed EXCEPT !.policy = "failed"], "POLICY_DENIED", "argument_denied")
     /\ UNCHANGED limitVars
  \/ /\ r.tool \in list /\ r.conforms /\ r.permitted
     /\ \E acquired \in BOOLEAN :
          /\ Limiter!TryAcquire(PrincipalOf[c], acquired)
          /\ \/ acquired /\ Forward(c)
             \/ /\ ~acquired
                /\ Refuse(c, [PolicyPassed EXCEPT !.concurrency = "failed"],
                          "CONCURRENCY_REJECTED", "concurrency_rejected")

\* After a step of cache.get(): judge the call by the list it returned, or stay
\* suspended in it.
AfterGet(c, r) ==
  \/ getter'[c] = "got" /\ Judge(c, r, tools')
  \/ /\ getter'[c] # "got"
     /\ pc' = [pc EXCEPT ![c] = "discovering"]
     /\ verdict' = [verdict EXCEPT ![c] = RatePassed]
     /\ UNCHANGED <<slot, record, reply, listing, remote, limitVars, auditVars>>

-----------------------------------------------------------------------------
\* handle_call_tool from its start to its first suspension.
Begin(c) ==
  /\ pc[c] = "idle"
  /\ \E r \in Requests, granted \in BOOLEAN :
       /\ request' = [request EXCEPT ![c] = r]
       /\ Rate!TryAcquire(PrincipalOf[c], granted)
       /\ \/ /\ ~granted
             /\ Refuse(c, FreshVerdict, "RATE_LIMITED", "rate_limited")
             /\ UNCHANGED <<limitVars, cacheVars>>
          \/ /\ granted /\ r.tool \notin Allowed[PrincipalOf[c]]
             /\ Refuse(c, [RatePassed EXCEPT !.policy = "failed"],
                       "POLICY_DENIED", "unknown_tool")
             /\ UNCHANGED <<limitVars, cacheVars>>
          \/ /\ granted /\ r.tool \in Allowed[PrincipalOf[c]]
             /\ Cache!Get(c)
             /\ AfterGet(c, r)
  /\ UNCHANGED faultVars

\* The handler suspended in cache.get() resumes, with the lock or with the list.
Discover(c) ==
  /\ pc[c] = "discovering"
  /\ \/ Cache!ResumeGet(c)
     \/ \E list \in UpstreamLists : Cache!FetchReturns(c, list)
  /\ AfterGet(c, request[c])
  /\ UNCHANGED <<request, tokens, faultVars>>

DiscoveryFails(c) ==
  /\ pc[c] = "discovering"
  /\ Cache!FetchRaises(c)
  /\ Guard(c, "INTERNAL_ERROR")
  /\ Audit!Emit(Backstop(c))
  /\ UNCHANGED <<slot, tokens, limitVars, faultVars>>

\* The upstream call ends with its result, an exception, or the timeout of
\* wait_for.  A result on its way may lose against the timeout.
EndOfCall(c, outcome, ans) ==
  /\ pc[c] = "executing"
  /\ Report(c, verdict[c], outcome, TRUE, ans)
  /\ UNCHANGED <<request, remote, faultVars, tokens, limitVars, cacheVars>>

UpstreamAnswers(c) ==
  /\ remote[c] = "finished"
  /\ EndOfCall(c, "UPSTREAM_SUCCESS", "result")

\* The client's own exceptions, a TimeoutError of its own among them.
UpstreamRaises(c) ==
  \/ EndOfCall(c, "UPSTREAM_ERROR", "upstream_failed")
  \/ EndOfCall(c, "UPSTREAM_TIMEOUT", "timed_out")

TimesOut(c) == HasTimeout /\ EndOfCall(c, "UPSTREAM_TIMEOUT", "timed_out")

\* A mutant of ReleaseSlot: the block is left without release().
ReleaseSlotLeaking(c) ==
  /\ slot' = [slot EXCEPT ![c] = FALSE]
  /\ UNCHANGED limitVars

\* Leaving `async with concurrency_limiter.acquire(...)`.
ReleaseSlot(c) ==
  \/ /\ slot[c]
     /\ slot' = [slot EXCEPT ![c] = FALSE]
     /\ Limiter!Release(PrincipalOf[c])
  \/ ~slot[c] /\ UNCHANGED <<slot, limitVars>>

\* The record is written: the handler returns its reply, or raises the
\* cancellation it recorded.
Recorded(c) ==
  /\ pc[c] = "recording"
  /\ Audit!Complete(First(c))
  /\ ReleaseSlot(c)
  /\ pc' = [pc EXCEPT ![c] =
              IF record[First(c)].outcome = "CANCELLED" THEN "raised" ELSE "returned"]
  /\ UNCHANGED <<request, verdict, record, reply, listing, remote, faultVars, tokens, cacheVars>>

RecordFails(c) ==
  /\ pc[c] = "recording"
  /\ Audit!FailThenEmit(First(c), Backstop(c))
  /\ ReleaseSlot(c)
  /\ Guard(c, "INTERNAL_ERROR")
  /\ UNCHANGED <<faultVars, tokens, cacheVars>>

\* The backstop record is written, or is not: the exception goes on.
Closed(c) ==
  /\ pc[c] = "closing"
  /\ Audit!Complete(Backstop(c)) \/ Audit!Fail(Backstop(c))
  /\ pc' = [pc EXCEPT ![c] = "raised"]
  /\ UNCHANGED <<request, verdict, slot, record, reply, listing, remote, faultVars, tokens,
                 limitVars, cacheVars>>

-----------------------------------------------------------------------------
\* CancelledError at each suspension of the handler.
CancelCount(c) ==
  /\ cancels[c] + failures[c] < MaxFaults
  /\ cancels' = [cancels EXCEPT ![c] = @ + 1]
  /\ UNCHANGED failures

CancelDiscovery(c) ==
  /\ pc[c] = "discovering" /\ CancelCount(c)
  /\ Cache!CancelGet(c)
  /\ Guard(c, "CANCELLED")
  /\ Audit!Emit(Backstop(c))
  /\ UNCHANGED <<slot, tokens, limitVars>>

\* A mutant of CancelUpstream: no inner except clause, so the record does not say
\* that the upstream was contacted.
CancelUpstreamUnattributed(c) ==
  /\ pc[c] = "executing" /\ CancelCount(c)
  /\ Report(c, verdict[c], "CANCELLED", FALSE, "none")
  /\ UNCHANGED <<request, remote, tokens, limitVars, cacheVars>>

CancelUpstream(c) ==
  /\ pc[c] = "executing" /\ CancelCount(c)
  /\ Report(c, verdict[c], "CANCELLED", TRUE, "none")
  /\ UNCHANGED <<request, remote, tokens, limitVars, cacheVars>>

\* A mutant of CancelRecording: audit_emitted is set before the write is awaited.
CancelRecordingFlagged(c) ==
  /\ pc[c] = "recording" /\ CancelCount(c)
  /\ Audit!Cancel(First(c))
  /\ ReleaseSlot(c)
  /\ pc' = [pc EXCEPT ![c] = "raised"]
  /\ UNCHANGED <<request, verdict, record, reply, listing, remote, tokens, cacheVars>>

CancelRecording(c) ==
  /\ pc[c] = "recording" /\ CancelCount(c)
  /\ Audit!CancelThenEmit(First(c), Backstop(c))
  /\ ReleaseSlot(c)
  /\ Guard(c, "CANCELLED")
  /\ UNCHANGED <<tokens, cacheVars>>

CancelClosing(c) ==
  /\ pc[c] = "closing" /\ CancelCount(c)
  /\ Audit!Cancel(Backstop(c))
  /\ pc' = [pc EXCEPT ![c] = "raised"]
  /\ UNCHANGED <<request, verdict, slot, record, reply, listing, remote, tokens, limitVars,
                 cacheVars>>

-----------------------------------------------------------------------------
\* A mutant of AfterListGet: the policy's tools are listed, not the upstream's.
AfterListGetUnchecked(l) ==
  /\ listing' = IF getter'[l] = "got"
                THEN [listing EXCEPT ![l] = Allowed[PrincipalOf[l]]]
                ELSE listing
  /\ UNCHANGED <<pc, request, verdict, slot, record, reply, remote, faultVars, tokens,
                 limitVars, auditVars>>

\* handle_list_tools: a suspended cache.get() and a filter.
AfterListGet(l) ==
  /\ listing' = IF getter'[l] = "got"
                THEN [listing EXCEPT ![l] = tools' \cap Allowed[PrincipalOf[l]]]
                ELSE listing
  /\ UNCHANGED <<pc, request, verdict, slot, record, reply, remote, faultVars, tokens,
                 limitVars, auditVars>>

BeginList(l) == Cache!Get(l) /\ AfterListGet(l)

ContinueList(l) ==
  /\ \/ Cache!ResumeGet(l)
     \/ \E list \in UpstreamLists : Cache!FetchReturns(l, list)
  /\ AfterListGet(l)

ListFails(l) == (Cache!FetchRaises(l) \/ Cache!CancelGet(l)) /\ AfterListGet(l)

-----------------------------------------------------------------------------
\* Around the handlers: the upstream ends what it was asked to do, and the audit
\* log's lock and threads move on.
UpstreamFinishes(c) ==
  /\ remote[c] = "executing"
  /\ remote' = [remote EXCEPT ![c] = "finished"]
  /\ UNCHANGED <<handlerVars, faultVars, tokens, limitVars, cacheVars, auditVars>>

AuditMoves(e) ==
  /\ Audit!TakeTurn(e) \/ Audit!ThreadStarts(e) \/ Audit!ThreadAppends(e)
  /\ UNCHANGED <<handlerVars, remote, faultVars, tokens, limitVars, cacheVars>>

WriteFails(e) ==
  /\ cancels[e[1]] + failures[e[1]] < MaxFaults
  /\ Audit!ThreadFails(e)
  /\ failures' = [failures EXCEPT ![e[1]] = @ + 1]
  /\ UNCHANGED <<handlerVars, remote, cancels, tokens, limitVars, cacheVars>>

Ended(c) == pc[c] \in {"returned", "raised"}

ThreadAtWork(c) == \E e \in {First(c), Backstop(c)} : job[e] \in {"queued", "running"}

\* Every request has been made and has ended.
Settled ==
  /\ \A c \in Calls : Ended(c) /\ ~ThreadAtWork(c)
  /\ \A l \in Listers : getter[l] \in {"got", "raised", "cancelled"}
  /\ UNCHANGED vars

CallStep(c) ==
  \/ Begin(c) \/ Discover(c) \/ DiscoveryFails(c)
  \/ UpstreamAnswers(c) \/ UpstreamRaises(c) \/ TimesOut(c)
  \/ Recorded(c) \/ RecordFails(c) \/ Closed(c)
  \/ CancelDiscovery(c) \/ CancelUpstream(c) \/ CancelRecording(c) \/ CancelClosing(c)
  \/ UpstreamFinishes(c)

Next ==
  \/ \E c \in Calls : CallStep(c)
  \/ \E l \in Listers : BeginList(l) \/ ContinueList(l) \/ ListFails(l)
  \/ \E e \in Emissions : AuditMoves(e) \/ WriteFails(e)
  \/ Settled

Spec == Init /\ [][Next]_vars

\* The event loop resumes what can be resumed and the pool runs its jobs; the
\* upstream answers list_tools(), which has no timeout; a call in flight ends
\* because wait_for ends it, whatever the upstream does.
Fairness ==
  /\ \A c \in Calls :
       /\ WF_vars(Discover(c) \/ DiscoveryFails(c))
       /\ WF_vars(TimesOut(c))
       /\ WF_vars(Recorded(c) \/ RecordFails(c))
       /\ WF_vars(Closed(c))
  /\ \A l \in Listers : WF_vars(ContinueList(l) \/ ListFails(l))
  /\ \A e \in Emissions : WF_vars(AuditMoves(e) \/ WriteFails(e))

FairSpec == Spec /\ Fairness
-----------------------------------------------------------------------------
\* The lines of call c in the audit file.
LinesOf(c) == {i \in DOMAIN file : file[i][1] = c}

\* Everything that went wrong for call c.
Faults(c) == cancels[c] + failures[c] + (IF getter[c] = "raised" THEN 1 ELSE 0)

Told(c) ==
  CASE pc[c] = "returned" -> reply[c]
    [] pc[c] = "raised" -> "raised"
    [] OTHER -> "nothing"

\* What a reader of the audit file and the callers see of the gateway.
Ledger == INSTANCE CallLedger WITH
  ledger <- [i \in DOMAIN file |-> [call |-> file[i][1], outcome |-> record[file[i]].outcome]],
  told <- [c \in Calls |-> Told(c)],
  faults <- [c \in Calls |-> Faults(c)],
  cancelled <- {c \in Calls : cancels[c] > 0}

\* The audit file and the replies together: a line stays as it was written, a reply
\* comes after the one line of its call and no line follows it, one fault alone costs
\* no call its line, and a second line takes a cancellation and one of the two is the
\* backstop's (bridge.py:205-264, 341-348; audit.py:178-185).
ImplementsLedger == Ledger!LedgerSpec

\* A caller who gets a reply can find it in the audit file: exactly one line,
\* written before the reply, whose outcome is the reply's - through any
\* cancellations, failed writes and orphaned threads of other calls
\* (bridge.py:205-208, audit.py:1-3).
ReplyHasOneRecord ==
  \A c \in Calls : pc[c] = "returned" =>
    /\ \E i \in LinesOf(c) : LinesOf(c) = {i} /\ file[i] = First(c)
    /\ Ledger!AnswerFits(record[First(c)].outcome, reply[c])

\* No single fault - a cancellation at any suspension, a failed write, a failed
\* list_tools() - makes a call that ended vanish from the audit file
\* (bridge.py:341-348).
OneFaultLosesNoRecord ==
  \A c \in Calls :
    Ended(c) /\ Faults(c) <= 1 => LinesOf(c) # {}

\* Without a cancellation no call is recorded twice, failed writes or not: the
\* audit_emitted flag and the backstop never both act on a written record
\* (bridge.py:261, 345-348).
UncancelledRecordedOnce ==
  \A c \in Calls : cancels[c] = 0 => \A i, j \in LinesOf(c) : i = j

\* The principal's counter is the number of its handlers inside the slot, never
\* above the ceiling, and a handler leaves the slot on every way out
\* (bridge.py:308-340, limits.py:113-150).
SlotsAccounted ==
  /\ \A p \in Principals :
       /\ active[p] = Cardinality({c \in Calls : slot[c] /\ PrincipalOf[c] = p})
       /\ active[p] <= peak[p] /\ peak[p] <= MaxConcurrent
  /\ \A c \in Calls :
       /\ pc[c] = "executing" => slot[c]
       /\ slot[c] => pc[c] \in {"executing", "recording"} /\ remote[c] # "none"

\* A call reaches the upstream only with a token, an allowed tool the upstream
\* offers, conforming and permitted arguments, and its records say so; a record
\* that blames a stage belongs to a call the upstream never saw (bridge.py:266-340).
RecordsTellTheStage ==
  \A i \in DOMAIN file :
    LET c == file[i][1]
        r == record[file[i]]
        refused == \E stage \in DOMAIN r.verdict : r.verdict[stage] = "failed"
    IN  /\ r.attempted => remote[c] # "none"
        /\ remote[c] # "none" <=> r.verdict = AllPassed
        /\ remote[c] # "none" => /\ request[c].tool \in Allowed[PrincipalOf[c]] \cap tools
                                /\ request[c].conforms /\ request[c].permitted
        /\ refused => ~r.attempted /\ remote[c] = "none"
        /\ r.outcome = "RATE_LIMITED" => r.verdict.rate = "failed"
        /\ r.outcome = "SCHEMA_REJECTED" => r.verdict.schema = "failed"
        /\ r.outcome = "POLICY_DENIED" => r.verdict.policy = "failed"
        /\ r.outcome = "CONCURRENCY_REJECTED" => r.verdict.concurrency = "failed"

\* A call that reached the upstream leaves a line saying so, unless its first
\* emission itself was cancelled or failed: the backstop's line never says it
\* (bridge.py:325-347).
ContactIsRecorded ==
  \A c \in Calls :
    Ended(c) /\ remote[c] # "none" /\ writer[First(c)] \notin {"cancelled", "raised"} =>
      \E i \in LinesOf(c) : record[file[i]].attempted

\* tools/list and tools/call judge by the same list: no principal is told
\* "Unknown tool" about a tool it was shown (bridge.py:174-176, 282-289).
ListedToolsAreKnown ==
  \A l \in Listers, c \in Calls :
    PrincipalOf[l] = PrincipalOf[c] /\ request[c].tool \in listing[l] => reply[c] # "unknown_tool"

\* When every handler has ended no lock is held, nobody queues and no slot is
\* taken, whatever was cancelled and whatever failed (bridge.py:79, 308;
\* audit.py:184).
NothingLeftHeld ==
  (\A c \in Calls : pc[c] = "idle" \/ Ended(c)) =>
    /\ auditLock = Audit!FreshLock
    /\ active = [p \in Principals |-> 0]
    /\ (\A l \in Listers : getter[l] \notin {"waiting", "fetching"}) => cacheLock = Cache!FreshLock

\* Every call that begins ends, with a reply or an exception. The upstream may stay
\* silent for ever in call_tool(), which the configured timeout ends; list_tools()
\* has none and is taken to answer (bridge.py:282, 317-328).
EveryCallEnds == \A c \in Calls : pc[c] # "idle" ~> Ended(c)

\* What the documents say of every call: exactly one terminal record.
ExactlyOneRecord ==
  \A c \in Calls :
    Ended(c) /\ ~ThreadAtWork(c) => \E i \in LinesOf(c) : LinesOf(c) = {i}

\* What docs/adversarial-tests.md says of an upstream failure: never re-raised.
UpstreamFailureIsGraceful ==
  \A c \in Calls : cancels[c] + failures[c] = 0 => pc[c] # "raised"

\* What docs/adversarial-tests.md says of the ceiling: it bounds the executions
\* upstream.
CeilingHoldsUpstream ==
  \A p \in Principals :
    Cardinality({c \in Calls : remote[c] = "executing" /\ PrincipalOf[c] = p}) <= MaxConcurrent
=============================================================================
