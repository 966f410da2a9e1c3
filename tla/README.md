# A TLA+ model of SentinelMCP

SentinelMCP is a gateway between MCP clients and one upstream MCP server. It
authenticates each request, judges it by a policy, limits its rate and its
concurrency, forwards it, and writes an audit record of how it ended. These
modules model the part of it that is hard to test: one event loop, many
handlers suspended at different places, a thread pool under the audit log, an
upstream that answers late or never, and cancellations that may arrive at any
`await`. TLC checks small instances; TLAPS proves the main safety results for
every instance.

Source paths are relative to `src/sentinelmcp/`.

## The system

| part | state | operations | used by |
|---|---|---|---|
| `UpstreamToolCache` (gateway/bridge.py) | a lock, the cached tool list | `get`, `invalidate` | both handlers |
| `handle_list_tools` (gateway/bridge.py) | none of its own | one cached fetch, a filter by policy | the MCP server |
| `handle_call_tool` (gateway/bridge.py) | its local variables: four `*_result` verdicts, `audit_emitted` | a pipeline of six stages, each of which may end the call; two outer `except` clauses | the MCP server |
| `TokenBucket`, `RateLimiter` (gateway/limits.py) | tokens and time of last refill, per principal | `try_acquire` | the call handler |
| `ConcurrencyLimiter` (gateway/limits.py) | active and peak count per principal | `try_acquire`, `release`, the context manager `acquire` | the call handler |
| `AuditLogger` (telemetry/audit.py) | a lock, a file, one thread-pool job per write | `emit` | the call handler |
| policy engine (policy/engine.py) | none: pure functions of a policy and a call | tool rule, schema validation, argument constraints | both handlers |
| redaction (telemetry/audit.py) | none: a pure function of the arguments and a mode | `represent_arguments` | `emit` |
| policy models (policy/models.py) | none | `load_policy` at startup | server assembly |
| `IdentityResolver`, `BearerAuthMiddleware` (gateway/identity.py) | digests of the keys, a context variable per request | `resolve`, the middleware, `current_principal` | every request, both handlers |
| server assembly (gateway/server.py) | the one upstream connection | `build_gateway_app`, `build_gateway_server`, `main` | the process |

The process comes up in one line: policy file, limiters, keys, app, upstream
connection; a problem at any of them ends it. Then each HTTP request is resolved to a
principal or answered 401, and its handler runs in a task of its own, with a copy of
the request's context.

A call goes through: rate limit, tool rule, the upstream's tool list from the
cache, schema, argument constraints, concurrency slot, upstream call. Whatever
stage ends it emits one audit record and only then returns. Handlers share the
cache's lock, the audit log's lock, the buckets and the counters; the audit log
shares the file with its own threads.

### What is hard in it

* The handler suspends in three places only: in the cache, in the upstream
  call, in the audit log. The locks of the limiters are never held across a
  suspension, so they never suspend anyone. Everything between two suspensions
  is atomic; everything else interleaves.
* A cancellation may be delivered at each suspension, and again at the next
  one: the handler awaits an audit write inside `except CancelledError`.
* `audit_emitted` becomes true after the awaited write, not before it.
* Cancelling `await asyncio.to_thread(...)` releases the audit lock, but a
  thread that has started goes on writing. A job that has not started is dropped.
* `list_tools()` is awaited with the cache's lock held, and it has no timeout.
* The timeout of the upstream call races its answer, and the slot is given back
  when the gateway stops waiting, not when the upstream stops executing.
* The slot is held while the record of the call is written.
* Buckets are refilled lazily, by refused attempts too, and each refill is a float sum
  whose rounding stays in the bucket.
* The principal is a context variable: the request's task may have inherited another
  request's context, and the handler's task may outlive its request.
* The keys are bound one after the other, so a shared variable would make the order of
  the policy file decide whose name a key means.
* Python's `==` and `isinstance` know fewer types than JSON: the policy engine
  guards against it at the outermost value only.

`PROJECT.json` lists these and the other hazards at their lines, each with the
properties that would catch it going wrong.

### What makes each part correct

* audit log: one line per successful write, none otherwise; turns in the order
  of the calls; no hang after a cancellation; two writers only around an orphan;
* tool cache: one fetch for a cold cache, `get` never answers `None`, nothing
  older than the last `invalidate` or than an earlier answer, no lock left held;
* rate limiter: the bound on every window, and lazy refill equal to continuous
  refill, up to what floats round; whoever ignores fractions sees a counter of whole
  tokens; whoever waits as long as a token takes, roundings included, gets one, however
  often it asked in between;
* concurrency limiter: the counter is the number of handlers inside the slot;
* policy engine: a tighter rule never lets through more; a constraint applies only to
  what is present; no field goes upstream uncovered; types are not crossed, and an
  operator refuses the types it does not speak of;
* redaction: everything that may be shown is, where it was, and nothing else;
* startup: whoever is served is served under a configuration understood to the last
  field, and nothing else is refused;
* authentication: a key means one principal, whatever the order of the file, and a
  handler acts for the caller of its own request;
* call handler: a reply has exactly one record and it says what happened; one
  fault never loses the record; every call ends.

## Modules

| module | models | state and actions |
|---|---|---|
| `AsyncLock` | `asyncio.Lock` as `async with` uses it (external) | operators on a lock value: whether it is taken, and the FIFO of suspended tasks. A released lock with a woken waiter is not free to newcomers |
| `AuditLog` | `AuditLogger.emit` and the worker thread | `writer` is where each `emit()` stands, `job` its thread-pool job, `file` the lines, `asked` a history of the order of calls. `Emit`/`TakeTurn` reach the pool; `ThreadStarts`, `ThreadAppends`, `ThreadFails` are the thread; `Complete`, `Fail`, `Cancel` resume the coroutine; `CancelThenEmit`, `FailThenEmit` are a caller that emits again in its exception handler, without a suspension between |
| `ToolCache` | `UpstreamToolCache` | `getter` is where each `get()`/`invalidate()` stands. `LookUp` is the body under the lock; `FetchReturns` and `FetchRaises` end the fetch, and `CancelGet` is a cancellation in it or in the queue |
| `ToolDiscovery` | the cache and a changing upstream | `offered` is the upstream's version; `answer` the version on its way back, taken at some moment of the fetch; `floor` and `need` are histories of what an `invalidate()` demands, `before` of the `get()`s that had returned when each was called. An `invalidate()` may be cancelled in the queue as a `get()` may |
| `AdmissionTokens` | what `RateLimiter` promises (abstract) | whole tokens per principal: `TryAcquire` credits what came back since the last attempt, however much that is, and takes a token if there is one |
| `RateLimiter` | `TokenBucket` and `RateLimiter` | `bucket`, `now`, and the history `granted`; `Attempt` is the whole of `try_acquire`, `LevelsOf` what a bucket may hold once the elapsed time is credited and rounded |
| `ConcurrencyLimiter` | its counters | `TryAcquire`, `Release` |
| `CallLedger` | what the gateway promises whoever reads the audit file beside the replies (abstract) | `ledger` is the call and outcome of each line, `told` what each caller was told, `faults` and `cancelled` what has hit each call. `Enter` a line, `Answer` or `Raise` a call, `Hit` it with a fault |
| `CallPipeline` | both handlers, composed with `AdmissionTokens`, `ConcurrencyLimiter`, `ToolCache` and `AuditLog` by `INSTANCE` | `pc` is the suspension a call is in: `discovering`, `executing`, `recording` (the record of the stage that ended it), `closing` (the record of the outer `except`). `verdict` holds the four `*_result` variables, `record` the records handed to the log, `remote` the call as the upstream sees it. `Ledger` is its refinement mapping to `CallLedger`: `file` with the outcomes of its records, `pc` and `reply`, `cancels` and `failures` |
| `JsonValues` | JSON values as Python holds them (external) | records `[type, num, parts]` tagged with the Python type; `Values` is the set a behaviour deals in, closed under parts, and `Depth` bounds how deep each is. `PyEqual` is Python's `==`, which crosses the numeric types at any depth; `Leaves` and `NodesAt` read a value path by path |
| `PolicyEngine` | policy/engine.py, over the rules of policy/models.py | one operator per function: `ResolveToolPolicy`, `ConformsToSchema`, `StrictEqual`, `CheckConstraint`, `ResolvePath`, `KnownTopLevelFields`, `EvaluateArgumentPolicy`; `IsToolRule` is what a loaded rule looks like |
| `Redaction` | `represent_arguments` | `Redact`, `KeysOnly`, one operator per mode |
| `RequestData` | the data path of the call handler | `Handle` judges a call by the policy and records it; the four answers are the verdicts `CallPipeline` takes as inputs |
| `Startup` | `load_policy`, the limiters' constructors, `IdentityResolver.__init__`, `build_gateway_app`, the server's lifespan, `main` | `stage` is how far `main()` has come, `error` the exception that ended it. `LoadPolicy`, `BuildLimiters`, `BindKey` (one turn of the loop over principals), `BuildApp`, `OpenUpstream`; `digest_to_principal` is the resolver's table |
| `Authentication` | `resolve`, `BearerAuthMiddleware.__call__`, `current_principal`, on top of `Startup` | `task` is where a request's task stands in the middleware, `context` the context variable in it, `saved` the token of `set()`; `handler` and `carried` are the handler's task and its copy of the variable. `PassBy`, `Reject`, `Admit`, `Leave`, `StartHandler` (external), `CurrentPrincipal` |
| `MCCallPipeline`, `MCRequestData`, `MCAuthentication` | instances for TLC | |
| `AsyncLockProofs`, `AuditLogProofs`, `ToolCacheProofs`, `ToolDiscoveryProofs`, `RateLimiterProofs`, `AuthenticationProofs`, `CallPipelineProofs`, `RequestDataProofs` | proofs | see below |

`CallPipeline` uses `AdmissionTokens` and not `RateLimiter`: a call cares
whether it is granted a token, not about the clock. The run `rate_limiter` shows
that `RateLimiter` implements `AdmissionTokens`, the run `pipeline_faults` that
`CallPipeline` implements `CallLedger`. `CallPipeline` and `RequestData` begin
where `Authentication` ends, with the principal of the request.

Abstractions: a tool list is a set of names; in `CallPipeline` a request is a tool and two
verdicts, `conforms` (schema) and `permitted` (constraints); an audit line is the
name of its emission; tokens are integers in parts of a token and time is counted in
ticks; `wait_for` ends the call in one step; a failed write leaves nothing in the file. In `RequestData` a string is one
letter repeated, a pattern the set of strings it matches, an optional operand of a
constraint a set of at most one element, a schema absent, broken, or usable with an
input that says whether the arguments conform; names are atoms, and which of them are
sensitive is a constant; reasons and texts are left out. What recurses over a value (equality, redaction, leaves) is
a recursive function of a depth up to `MaxDepth` and of the `Values`, which must be
closed under the parts of a value. In `Startup` a policy file is
what can be wrong with it (its content, the field names of each section, effects,
patterns, types) with its principals in order; a key is a text, and a digest is an
injective function of it. Where the server and the SDK choose the context a task begins
in, `Inherited` and `StartHandler` allow every context they may pick. The definitions marked
"A mutant of" are deliberate bugs, none of them reachable from a specification:
each shows that the property named beside it in `PROJECT.json` can fail.

## Runs

| run | question | bounds |
|---|---|---|
| `audit_order` | do turns, jobs and lines agree, do lines stand in call order, does every emission end | 4 emissions: one writing, one orphaned, two queued. Cancellation and failure of each |
| `tool_discovery` | single flight, no `None`, freshness after `invalidate`, answers that never go back, every operation ends | 3 gets (one fetching, two queued), 2 invalidations, 2 changes upstream, a cancellation of any of them |
| `rate_limiter` | does lazy refill follow the closed form, is each window bounded, does it implement `AdmissionTokens`, is a principal that waits long enough admitted | capacity 2⅓ tokens, two thirds of a token per tick, each credit rounded up or down by up to a third of a token, 5 ticks, 2 principals: the bucket is emptied, refilled in part and in full, and clamped, and several refused or granted attempts add up their roundings |
| `pipeline_stages` | does a record tell the stage; do list and call agree; are slots per principal | 3 calls of each kind by 2 principals with 1 token and 1 slot each, 1 listing, upstream lists with and without the tool, `list_tools()` may fail; no other faults |
| `pipeline_faults` | are records, slots and locks right after faults; do the audit file and the replies behave as `CallLedger` allows; does every call end | 2 calls for 1 slot, 2 faults per call at any suspension: enough for a fault inside the handling of a fault |
| `authentication` | what is served, whom a key means, for whom a handler acts | 15 policy files, one for each reason to refuse and two orders of two principals; every environment of 2 variables over 3 keys, empty, unset and undecodable; ceilings 0 and 1; 2 requests with 8 lists of `Authorization` values: two can interleave, inherit each other's context and outlive it |
| `request_data` | what is let through, and what the record shows of it | 249 rules (each operator, on an argument, nested, or both; required, forbidden, unknown fields) against 33 argument objects: every JSON type, lists and objects with equal numbers of different types, sensitive names in objects, in lists and around lists. `Values` is what the arguments and the rules' operands are made of, four levels deep |

In the code the tokens of a bucket are a float, and every attempt stores the sum
`tokens + elapsed * refill_rate`, rounded. In `RateLimiter` one credit may be off by up
to `Slip` parts either way, as it comes (`Credits`), nothing is credited when no time has
passed, and taking a token off is exact, which it is for floats of at least 1. The
properties say what that leaves true: the closed form and the windows hold give or take
one `Slip` per tick, for a bucket is credited once a tick at most. With `Slip = 0` they are
the textbook's. A wait is long enough when `Rate - Slip` a tick make a token; were `Slip` as
large as `Rate`, no wait would be, and `PatienceIsRewarded` would say nothing. The run
has `Slip` at half of `Rate`, far more than a float rounds, so that it shows: with the exact
`Rate` in `Rested` TLC finds `PatienceIsRewarded` violated there.

Two of anything that queues are enough to queue, and the fourth emission is the
one that can be overtaken while an orphan writes. Cancellations and failed
writes of a call are counted in `cancels` and `failures` and bounded by
`MaxFaults`. The rate limiter's clock stops at `MaxTime`, the upstream's list at
`MaxVersion`. No run needs deadlock checking switched off: `AuditSettled`,
both `Settled` and `ClockStops` say where the system may rest.

Five runs end in a violation, each of a statement the documents make; the
counterexamples are behaviours of the code (`PROJECT.json`, findings):

* `audit_serialized`: writes are not serialized once an emission is cancelled
  while its thread writes;
* `pipeline_one_record`: a failed `list_tools()` whose backstop emission is then
  cancelled leaves no record. The same statement fails the other way: a cancellation
  during the write of the record makes the outer handler write a second one, which is
  why `CallLedger` lets a cancelled call have a second line, and no other;
* `pipeline_graceful`: a failed `list_tools()` is raised into the caller's
  transport;
* `strict_equality`: `equals: [1]` lets `[true]` through, because the types of the
  items are not compared;
* `pipeline_ceiling`: after a timeout the upstream may execute more calls of a
  principal than the ceiling.

Three more statements of the documents are at odds with the code, and passing runs show
what holds in their place:

* fractional refill does not "match the documented math exactly"
  (docs/adversarial-tests.md:22): with capacity 1 and a rate of 0.1 a second, a principal
  that asks every second after a grant holds 0.9999999999999999 after ten and is refused;
  one that asks after ten only is granted. `PatienceIsRewarded` counts the rounding of each
  credit in;
* the tool list is not fetched again on every call (docs/threat-model.md:128,
  docs/verification-report.md:170): `SingleFlight` says that nobody fetches once the cache
  is filled, and in the gateway it is never emptied;
* `load_policy` does not raise `PolicyLoadError` on any problem (policy/models.py:78): a
  file that is not UTF-8 raises `UnicodeDecodeError`. Startup ends all the same
  (`StartupEnds`).

### Fairness

`main()` runs through and the attempt to connect ends: weak fairness of `StartupStep`,
for `StartupEnds` only; no request has to come or to end. Elsewhere weak fairness stands for the event loop, which resumes every task that can run,
and for the thread pool, which runs every job and finishes each write. Nobody has
to call `emit`, `get` or a tool, to cancel, or to change the upstream's list.
`list_tools()` is assumed to end, because the code waits for it without a timeout:
without that assumption `EveryGetEnds` and `EveryCallEnds` fail, and the gateway
hangs in the same way. The upstream call is not assumed to end: `TimesOut` is what
is fair, which is `wait_for` with a timeout configured. Without one
(`HasTimeout = FALSE`, the default of the command line) a silent upstream holds
its call for ever.

## Proofs

All theorems hold for every set of calls, requests, policy files, emissions, getters, invalidators and principals, every
number of upstream versions, and every capacity, rate and length of time; the
assumptions are the `ASSUME`s of the modules.

* `AsyncLockProofs`: what each operation does to the queue of a lock: `Queue` adds
  the waiter, `Take` and `Withdraw` remove it, none lists a waiter twice, and none
  changes who stands ahead of whom among those it leaves (`WithdrawKeepsOrder`).
* `AuditLogProofs`: `AuditTypeOK`, `TurnsAreExclusive`, `LinesMatchJobs`,
  `OnlyOrphansOverlap` and `CallOrder`. None is inductive alone: that a completed
  emission's line is in the file needs to know that its job ran while it held the lock,
  and that a dropped job was never started. The inductive `AuditInv` joins them with the
  correspondence of `writer` and `job`: `writing` means queued, running, ok or
  failed; `returned` means ok; `cancelled` excludes queued. For the order of the lines
  `OrderOK` says that whoever stands ahead of another in the queue, or has had its turn
  before it (`TurnBefore`: it writes, returned or raised while the other waits, or returned or
  raised while the other writes), asked before it. A line is appended by the one that
  writes or by an orphan's thread; whoever of the others asked later is still waiting and
  has no line yet, so the lines of emissions that were not cancelled follow `asked`.
* `ToolCacheProofs`: the same for the cache: the lock is held exactly by the one
  getter that fetches, nobody fetches a filled cache, and the queue lists each
  waiting getter once.

* `ToolDiscoveryProofs`: `DiscoveryTypeOK`, `SingleFlight`, `CacheTurns`,
  `FreshAfterInvalidate` and `ReadsNeverGoBack`. The freshness of an answer is inductive only
  with the turns of the lock: `DiscoveryInv` says that the cache and every answer on
  its way are no older than the last `invalidate()` (`floor`), and the step of
  `invalidate()` that raises `floor` keeps that because the lock keeps it out of a
  fetch, so no answer is on its way. That a `get()` never returns `None` follows
  because `got` is reached only with a list in the cache. For answers that never go
  back `ReadInv` adds that no answer given so far is newer than the cache, nor than an
  answer on its way to it: a fetch is alone under the lock, so the list that it stores
  was taken after every list that was stored before.
* `RateLimiterProofs`: `RateTypeOK`, `LevelMatchesHistory`, `WindowBound`, and that
  `RateLimiter` implements `AdmissionTokens` (`RateImplements`, `RateAnswers`). The
  bound on a window is not inductive: a grant needs to know that the level is below
  the slack of every window that ends now. `RateInv` says of each bucket what it held
  when it was last credited: as much as the windows that ended then allow, give or take
  the roundings (`Within`), and no less than what has come back since the last grant
  even if every credit was rounded down (`Patient`). The clock alone changes none of it;
  a credit moves level and windows by the same amount, but for one rounding
  (`CreditBounds`), and a grant takes `Unit` from both and opens a window of its own
  (`GrantCosts`).

  `RatePatience` shows `PatienceIsRewarded` from `Patient`: a refused attempt leaves the
  bucket with what it was credited.
* `AuthenticationProofs`: `AuthTypeOK`, `ServesSoundConfiguration`, `ResolvesExactly`,
  and `HandlersActForTheirCaller`. `BindingInv` says that the
  table is exactly the keys of the principals bound so far; two of them with one key
  would have one digest bound to two names. `RequestInv` says that a request inside the
  app has its own principal in its context whatever it inherited, and that what a
  handler carries is what its own headers resolve to, because the table no longer
  changes once the gateway serves.
* `CallPipelineProofs`: all nine invariants of the passing runs about `CallPipeline`. The
  components keep their invariants there: `AuditInv` and `CacheInv` are instantiated, and
  each operation of a component is told by what it moves. None of the nine is
  inductive. `PipelineInv` adds to the components' invariants, for one call at a time:
  where its handler stands fixes where its two emissions stand (`PhaseOK`), what its
  verdicts, its records and its reply say of each other (`StageOK`), and that every
  interruption it shows is counted in `cancels` or `failures` (`FaultsOK`), so that with
  one fault one of the two lines is written. Each action moves one call and leaves the
  others still; the counters of the limiter are shown by adding and removing one element
  of a finite set. The listings need that the cache, once filled, is never emptied:
  the handlers do not call `invalidate()`.

  `LedgerImplemented` is the refinement of `CallLedger`. Every step of `CallPipeline` is
  one step of the ledger or none, shown with `PipelineInv` in the states before and after
  it: a line is entered where a thread appends it and nowhere else (`AppendLedger`), and a
  second one only after a cancellation because `FaultsOK` and `PhaseOK` leave no other
  way to it; a handler's step enters none and touches no record that is written, because
  an emission that has not begun has no line (`NewRecord`); it answers where `pc` becomes
  `returned` and raises where it becomes `raised` (`HandlerStep`). `UncancelledRecordedOnce`
  (`NoDoubleRecords`) is a part of it, stated for the state alone.

  `AuditLogIsUsedAsSpecified` and `TokensAreUsedAsSpecified` say that the handlers take
  the steps of `AuditLog` and of `AdmissionTokens` and no others, so that whatever is
  proved of these alone, and of `RateLimiter` as an implementation, holds inside the
  gateway; `GatewayKeepsCallOrder` is one such consequence.
* `RequestDataProofs`: all seven invariants of `RequestData`, for values of any finite
  depth. `DataInv` says that an answered call has the answer and the record that the
  engine and the redaction compute; each property then is one of the operators. These
  recurse over values, and what is proved of them goes by induction on the depth: a set of
  counterexamples would have a least depth (`LeastNumber`, `NumbersInduct`, from the
  well-foundedness of `<`). That each recursive function exists and unfolds as it is
  written (`RedactUnfolds`, `KeysOnlyUnfolds`, `PyEqualUnfolds`, `NodesAtSteps`,
  `ResolvePathSteps`) is shown the same way, one level at a time. On top of that:
  `CheckConstraint` is a conjunction that a tighter constraint extends, and a rule one that
  a new path extends (`Tightening`); a
  path resolves to nothing once its first segment is gone (`Omitting`); `==` between
  scalars of one type is identity, and every operator asks for its type (`Strictness`); the leaves of a redacted object or list
  are those of its parts, sensitive names replaced (`ExactRedaction`). The proof of
  `Omitting` refuted an earlier form of `OmittingNeverDenies`: leaving out a field of an
  object that is itself constrained changes that object, which `equals` may then refuse.
  The property now says so.

The theorems about `CallPipeline` assume that there are finitely many calls and that no
request is both a call and a listing (`PipelineAssumption`); those about `Startup` that
no two texts have one digest (`StartupAssumption`).

The theorems about `RequestData` assume that `Values` are JSON values, closed under parts, and that
`Depth` decreases towards a value's parts (`ValuesAssumption`), that sensitive names are
field names (`SensitiveAssumption`), and that arguments are objects among the `Values`
and rules have the shape a loaded rule has (`DataAssumption`). Every set of JSON values of
bounded depth can be extended to one that satisfies them; the run `request_data` is an
instance.

Only model-checked: liveness, `EveryEmitEnds`, `EveryGetEnds`, `EveryCallEnds` and
`StartupEnds`. Their proofs would need `ENABLED` of the fair actions, which the provers
do not handle. Every other property of the passing runs is a theorem.

## Not modelled

* YAML itself: duplicate keys in a mapping, and a constraint that gives both `in` and its
  alias `in_`; jsonschema's own validation, regular expressions, the text of names and
  lines.
* How a header's bytes become text (latin-1), so that a key outside ASCII never matches.
* A capacity or a refill rate at or below zero passes the command line and raises
  `ValueError` in the first call of each principal (`limits.py:32`, `server.py:147`);
  `RateLimiter` is about the ones its constructor accepts.
* The end of the process, and the loss of the upstream connection (an upstream call then
  raises, which `UpstreamRaises` covers; the degradation of the SDK's session is the
  SDK's).
* The MCP SDK, HTTP, JSON-RPC, uvicorn: external.
* Benchmarks, examples, container files.
* Paging of `list_tools()` (the code reads the first page only), torn lines after a
  full disk, clocks that run backwards (`max(0.0, ...)`, `time.monotonic` never does).

## Plan

Modelled, checked and proved: the audit log with the order of its lines, the tool cache,
discovery, the rate limiter with its refinement, both handlers with the refinement of the
call ledger, startup, authentication, policy engine, redaction and the data path. Left:

1. The loss of the upstream connection and the end of the process, in `CallPipeline` and
   `Startup`.
2. A write that tears a line, in `AuditLog`.
3. The stages in the ledger: a line that says how far the call came, so that
   `RecordsTellTheStage` and `ContactIsRecorded` become steps of `CallLedger` as well.
