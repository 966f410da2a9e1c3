------------------------- MODULE CallPipelineProofs -------------------------
(***************************************************************************)
(* Proofs of the invariants of CallPipeline, for any number of calls and   *)
(* tools/list requests, any policy, any requests, and any cancellations    *)
(* and failed writes.                                                      *)
(*                                                                         *)
(* The inductive invariant speaks of one call at a time: where its handler *)
(* stands and how far its two emissions are (PhaseOK), what its records    *)
(* say (StageOK), and which faults account for what was lost (FaultsOK).   *)
(* A step of one call leaves every other call still (Still); the shared    *)
(* components keep the invariants they have alone.  From the invariant in  *)
(* two successive states follows that each step is one of CallLedger.      *)
(***************************************************************************)
EXTENDS CallPipeline, FiniteSetTheorems, TLAPS

-----------------------------------------------------------------------------
\* The components inside CallPipeline: the audit log and the tool cache keep their
\* own inductive invariants there, and what one of their operations changes is told
\* in the form in which the proofs about the handlers cite it.
AP == INSTANCE AuditLogProofs

CP == INSTANCE ToolCacheProofs
  WITH Getters <- Calls \cup Listers, Invalidators <- {}, ToolLists <- UpstreamLists

LogOK == AP!AuditInv
StoreOK == CP!CacheInv

\* Emissions outside E stand where they stood.
OnlyMoved(E) == \A d \in Emissions \ E : writer'[d] = writer[d] /\ job'[d] = job[d]

\* Among the users of the cache only c moves, to s.
GetterMoves(c, s) == getter' = [getter EXCEPT ![c] = s]

LEMMA LogTypes ==
  ASSUME LogOK
  PROVE  /\ writer \in [Emissions -> AP!WriterStates] /\ job \in [Emissions -> AP!JobStates]
         /\ file \in Seq(Emissions)
         /\ \A e \in Emissions :
              /\ writer[e] \in {"idle", "waiting"} => job[e] = "none"
              /\ writer[e] = "writing" => job[e] \in {"queued", "running", "ok", "failed"}
              /\ writer[e] = "returned" => job[e] = "ok"
              /\ writer[e] = "raised" => job[e] = "failed"
BY DEF LogOK, AP!AuditInv, AP!AuditOK, AP!TurnsOK, AP!JobsOK, AP!LinesOK

LEMMA StoreTypes ==
  ASSUME StoreOK
  PROVE  /\ getter \in [CP!CacheUsers -> {"idle", "waiting", "fetching", "got", "raised", "cancelled"}]
         /\ tools \in UpstreamLists \cup {NoTools}
         /\ CP!CacheUsers = Calls \cup Listers
BY DEF StoreOK, CP!CacheInv, CP!CacheOK, CP!CacheUsers

LEMMA PartsInit == Init => LogOK /\ StoreOK
<1> SUFFICES ASSUME Init PROVE LogOK /\ StoreOK
  OBVIOUS
<1>1. AP!AuditInit
  BY DEF Init, Audit!AuditInit, AP!AuditInit, Audit!FreshLock, AP!FreshLock
<1>2. CP!CacheInit
  BY DEF Init, Cache!CacheInit, CP!CacheInit, Cache!FreshLock, CP!FreshLock, Cache!CacheUsers, CP!CacheUsers
<1> QED BY <1>1, <1>2, AP!AuditInvInit, CP!CacheInvInit DEF LogOK, StoreOK

-----------------------------------------------------------------------------
\* The audit log: emit() by the handler, and each of its ends.
LEMMA LogNext == AP!AuditInvNext <=> LogOK'
BY DEF AP!AuditInvNext, AP!AuditInv, LogOK

LEMMA EmitMoves ==
  ASSUME LogOK, NEW e \in Emissions, Audit!Emit(e)
  PROVE  /\ LogOK' /\ OnlyMoved({e}) /\ file' = file
         /\ writer[e] = "idle" /\ writer'[e] \in {"waiting", "writing"}
         /\ job'[e] \in {"none", "queued"}
<1>1. AP!Emit(e)
  BY DEF Audit!Emit, AP!Emit, Audit!Reach, AP!Reach, Audit!CanEnter, AP!CanEnter,
         Audit!Enter, AP!Enter, Audit!Queue, AP!Queue
<1>2. LogOK'
  BY <1>1, LogNext, AP!EmitKeeps DEF LogOK
<1>3. writer[e] = "idle" /\ job[e] = "none"
  BY LogTypes DEF Audit!Emit
<1> QED BY <1>2, <1>3, LogTypes DEF Audit!Emit, Audit!Reach, OnlyMoved

LEMMA EndMoves ==
  ASSUME LogOK, NEW e \in Emissions, Audit!Complete(e) \/ Audit!Fail(e)
  PROVE  /\ LogOK' /\ OnlyMoved({e}) /\ file' = file
         /\ writer[e] = "writing" /\ job'[e] = job[e]
         /\ writer'[e] \in {"returned", "raised"}
         /\ Audit!Complete(e) => writer'[e] = "returned"
<1>1. AP!Complete(e) \/ AP!Fail(e)
  BY DEF Audit!Complete, AP!Complete, Audit!Fail, AP!Fail, Audit!Leave, AP!Leave
<1>2. LogOK'
  BY <1>1, LogNext, AP!EndKeeps DEF LogOK
<1> QED BY <1>2, LogTypes DEF Audit!Complete, Audit!Fail, OnlyMoved

LEMMA CancelMoves ==
  ASSUME LogOK, NEW e \in Emissions, Audit!Cancel(e)
  PROVE  /\ LogOK' /\ OnlyMoved({e}) /\ file' = file
         /\ writer[e] \in {"waiting", "writing"} /\ writer'[e] = "cancelled"
         /\ job'[e] \in {job[e], "dropped"}
<1>1. AP!Cancel(e)
  BY DEF Audit!Cancel, AP!Cancel, Audit!LockWithout, AP!LockWithout, Audit!JobsWithout,
         AP!JobsWithout, Audit!Withdraw, AP!Withdraw, Audit!Leave, AP!Leave
<1>2. LogOK'
  BY <1>1, LogNext, AP!CancelEndKeeps DEF LogOK
<1> QED BY <1>2, LogTypes DEF Audit!Cancel, Audit!JobsWithout, OnlyMoved

\* An emission that is cancelled or fails, followed by the backstop's.
LEMMA EmitAgainMoves ==
  ASSUME LogOK, NEW e \in Emissions, NEW f \in Emissions, e # f,
         Audit!CancelThenEmit(e, f) \/ Audit!FailThenEmit(e, f)
  PROVE  /\ LogOK' /\ OnlyMoved({e, f}) /\ file' = file
         /\ writer[e] \in {"waiting", "writing"} /\ writer[f] = "idle"
         /\ writer'[e] \in {"cancelled", "raised"}
         /\ Audit!FailThenEmit(e, f) => writer'[e] = "raised"
         /\ writer'[f] \in {"waiting", "writing"}
         /\ job'[e] \in {job[e], "dropped"} /\ job'[f] \in {"none", "queued"}
<1>1. AP!CancelThenEmit(e, f) \/ AP!FailThenEmit(e, f)
  BY DEF Audit!CancelThenEmit, AP!CancelThenEmit, Audit!FailThenEmit, AP!FailThenEmit,
         Audit!Reach, AP!Reach, Audit!CanEnter, AP!CanEnter, Audit!Enter, AP!Enter,
         Audit!Queue, AP!Queue, Audit!LockWithout, AP!LockWithout, Audit!JobsWithout,
         AP!JobsWithout, Audit!Withdraw, AP!Withdraw, Audit!Leave, AP!Leave
<1>2. LogOK'
  BY <1>1, LogNext, AP!CancelThenEmitKeeps, AP!FailThenEmitKeeps DEF LogOK
<1>3. writer[f] = "idle" /\ job[f] = "none"
  BY LogTypes DEF Audit!CancelThenEmit, Audit!FailThenEmit
<1>4. CASE Audit!CancelThenEmit(e, f)
  <2> DEFINE w == [writer EXCEPT ![e] = "cancelled"]
             j == Audit!JobsWithout(e)
  <2>1. /\ writer[e] \in {"waiting", "writing"} /\ Audit!Reach(f, Audit!LockWithout(e), w, j)
    BY <1>4 DEF Audit!CancelThenEmit
  <2>2. /\ writer' \in {[w EXCEPT ![f] = "writing"], [w EXCEPT ![f] = "waiting"]}
        /\ job' \in {[j EXCEPT ![f] = "queued"], j} /\ file' = file
    <3> HIDE DEF w, j
    <3>1. CASE Audit!CanEnter(Audit!LockWithout(e))
      BY <2>1, <3>1 DEF Audit!Reach
    <3>2. CASE ~Audit!CanEnter(Audit!LockWithout(e))
      BY <2>1, <3>2 DEF Audit!Reach
    <3> QED BY <3>1, <3>2
  <2>3. /\ j \in [Emissions -> AP!JobStates] /\ j[e] \in {job[e], "dropped"}
        /\ \A d \in Emissions \ {e} : j[d] = job[d]
    BY LogTypes DEF Audit!JobsWithout, AP!JobStates
  <2>4. w \in [Emissions -> AP!WriterStates] /\ w[e] = "cancelled"
        /\ \A d \in Emissions \ {e} : w[d] = writer[d]
    BY LogTypes DEF AP!WriterStates
  <2> HIDE DEF w, j
  <2>5. /\ OnlyMoved({e, f}) /\ writer'[e] = "cancelled" /\ writer'[f] \in {"waiting", "writing"}
        /\ job'[e] \in {job[e], "dropped"} /\ job'[f] \in {"none", "queued"}
    BY <1>3, <2>2, <2>3, <2>4 DEF OnlyMoved
  <2>6. ASSUME Audit!FailThenEmit(e, f) PROVE FALSE
    <3>1. [writer EXCEPT ![e] = "raised"][e] = "raised"
      BY LogTypes
    <3>2. writer'[e] = "raised"
      BY <2>6, <3>1, LogTypes DEF Audit!FailThenEmit, Audit!Reach
    <3> QED BY <2>5, <3>2
  <2> QED BY <1>2, <1>3, <2>1, <2>2, <2>5, <2>6
<1>5. CASE Audit!FailThenEmit(e, f)
  BY <1>2, <1>3, <1>5, LogTypes DEF Audit!FailThenEmit, Audit!Reach, OnlyMoved
<1> QED BY <1>1, <1>4, <1>5

\* The lock's hand-over and the pool's threads.
LEMMA TurnMoves ==
  ASSUME LogOK, NEW e \in Emissions, Audit!TakeTurn(e)
  PROVE  /\ LogOK' /\ OnlyMoved({e}) /\ file' = file
         /\ writer[e] = "waiting" /\ writer'[e] = "writing" /\ job'[e] = "queued"
<1>1. AP!TakeTurn(e)
  BY DEF Audit!TakeTurn, AP!TakeTurn, Audit!Woken, AP!Woken, Audit!Take, AP!Take
<1>2. LogOK'
  BY <1>1, LogNext, AP!TurnKeeps DEF LogOK
<1> QED BY <1>2, LogTypes DEF Audit!TakeTurn, OnlyMoved

LEMMA ThreadMoves ==
  ASSUME LogOK, NEW e \in Emissions,
         Audit!ThreadStarts(e) \/ Audit!ThreadAppends(e) \/ Audit!ThreadFails(e)
  PROVE  /\ LogOK' /\ OnlyMoved({e}) /\ writer' = writer
         /\ job[e] \in {"queued", "running"} /\ job'[e] \in {"running", "ok", "failed"}
         /\ ~Audit!ThreadFails(e) => job'[e] # "failed"
         /\ file' \in {file, Append(file, e)} /\ (file' # file => job'[e] = "ok")
<1>1. AP!ThreadStarts(e) \/ AP!ThreadAppends(e) \/ AP!ThreadFails(e)
  BY DEF Audit!ThreadStarts, AP!ThreadStarts, Audit!ThreadAppends, AP!ThreadAppends,
         Audit!ThreadFails, AP!ThreadFails
<1>2. LogOK'
  BY <1>1, LogNext, AP!ThreadKeeps DEF LogOK
<1> QED BY <1>2, LogTypes DEF Audit!ThreadStarts, Audit!ThreadAppends, Audit!ThreadFails, OnlyMoved

LEMMA LogStays == ASSUME LogOK, UNCHANGED auditVars PROVE LogOK'
BY DEF LogOK, AP!AuditInv, auditVars

-----------------------------------------------------------------------------
\* The tool cache: a step of get(), which finds a list or none, and its ends.
LEMMA StoreNext == CP!CacheInvNext <=> StoreOK'
BY DEF CP!CacheInvNext, CP!CacheInv, StoreOK

LEMMA GetMoves ==
  ASSUME StoreOK, NEW c \in Calls \cup Listers, Cache!Get(c) \/ Cache!ResumeGet(c)
  PROVE  /\ StoreOK' /\ tools' = tools /\ getter[c] \in {"idle", "waiting"}
         /\ Cache!ResumeGet(c) => getter[c] = "waiting"
         /\ \E s \in {"waiting", "fetching", "got"} :
              GetterMoves(c, s) /\ (s = "got" => tools # NoTools)
<1>1. CP!Get(c) \/ CP!ResumeGet(c)
  BY DEF Cache!Get, CP!Get, Cache!ResumeGet, CP!ResumeGet, Cache!Wait, CP!Wait, Cache!LookUp,
         CP!LookUp, Cache!CanEnter, CP!CanEnter, Cache!Enter, CP!Enter, Cache!Queue, CP!Queue,
         Cache!Leave, CP!Leave, Cache!Woken, CP!Woken, Cache!Take, CP!Take
<1>2. c \in CP!CacheUsers
  BY DEF CP!CacheUsers
<1>3. StoreOK'
  BY <1>1, <1>2, StoreNext, CP!GetKeeps DEF StoreOK
<1> QED BY <1>3 DEF Cache!Get, Cache!ResumeGet, Cache!Wait, Cache!LookUp, GetterMoves

LEMMA FetchMoves ==
  ASSUME StoreOK, NEW c \in Calls \cup Listers, NEW list \in UpstreamLists,
         Cache!FetchReturns(c, list)
  PROVE  /\ StoreOK' /\ tools = NoTools /\ tools' = list /\ tools' # NoTools
         /\ getter[c] = "fetching" /\ GetterMoves(c, "got")
<1>1. CP!FetchReturns(c, list)
  BY DEF Cache!FetchReturns, CP!FetchReturns, Cache!Leave, CP!Leave
<1>2. c \in CP!CacheUsers
  BY DEF CP!CacheUsers
<1>3. StoreOK'
  BY <1>1, <1>2, StoreNext, CP!FetchKeeps DEF StoreOK
<1>4. tools = NoTools
  BY <1>2 DEF Cache!FetchReturns, StoreOK, CP!CacheInv, CP!CacheOK
<1> QED BY <1>3, <1>4, PipelineAssumption DEF Cache!FetchReturns, GetterMoves

LEMMA GetEndMoves ==
  ASSUME StoreOK, NEW c \in Calls \cup Listers, Cache!FetchRaises(c) \/ Cache!CancelGet(c)
  PROVE  /\ StoreOK' /\ tools' = tools /\ getter[c] \in {"waiting", "fetching"}
         /\ \E s \in {"raised", "cancelled"} : GetterMoves(c, s)
         /\ Cache!FetchRaises(c) => GetterMoves(c, "raised")
<1>1. CP!FetchRaises(c) \/ CP!CancelGet(c)
  BY DEF Cache!FetchRaises, CP!FetchRaises, Cache!CancelGet, CP!CancelGet, Cache!Leave,
         CP!Leave, Cache!Withdraw, CP!Withdraw
<1>2. c \in CP!CacheUsers
  BY DEF CP!CacheUsers
<1>3. StoreOK'
  BY <1>1, <1>2, StoreNext, CP!FetchRaisesKeeps, CP!CancelGetKeeps DEF StoreOK
<1> QED BY <1>3 DEF Cache!FetchRaises, Cache!CancelGet, GetterMoves

LEMMA StoreStays == ASSUME StoreOK, UNCHANGED cacheVars PROVE StoreOK'
BY DEF StoreOK, CP!CacheInv, cacheVars

-----------------------------------------------------------------------------

\* The handlers' own variables have their types.
HandlersTyped ==
  /\ pc \in [Calls -> {"idle", "discovering", "executing", "recording", "closing",
                       "returned", "raised"}]
  /\ request \in [Calls -> Requests \cup {NoRequest}]
  /\ verdict \in [Calls -> Verdicts]
  /\ slot \in [Calls -> BOOLEAN]
  /\ record \in [Emissions -> Records \cup {NoRecord}]
  /\ reply \in [Calls -> Replies]
  /\ listing \in [Listers -> SUBSET Tools]
  /\ remote \in [Calls -> {"none", "executing", "finished"}]
  /\ cancels \in [Calls -> Nat] /\ failures \in [Calls -> Nat]

\* Where the handler of c stands fixes where its emissions stand; a call without
\* a first emission was interrupted in the tool cache.
PhaseOK(c) ==
  LET first == writer[First(c)]
      backstop == writer[Backstop(c)]
  IN  /\ pc[c] = "idle" => getter[c] = "idle"
      /\ pc[c] = "discovering" <=> getter[c] \in {"waiting", "fetching"}
      /\ pc[c] \in {"idle", "discovering", "executing"} => first = "idle" /\ backstop = "idle"
      /\ pc[c] = "recording" => first \in {"waiting", "writing"} /\ backstop = "idle"
      /\ pc[c] = "closing" => /\ first \in {"idle", "raised", "cancelled"}
                              /\ backstop \in {"waiting", "writing"}
      /\ pc[c] = "returned" => first = "returned" /\ backstop = "idle"
      /\ pc[c] = "raised" =>
           \/ first = "returned" /\ backstop = "idle"
           \/ /\ first \in {"idle", "raised", "cancelled"}
              /\ backstop \in {"returned", "raised", "cancelled"}
      /\ pc[c] \in {"closing", "raised"} /\ first = "idle" => getter[c] \in {"raised", "cancelled"}

\* The outcome is blamed on the stage that failed, and only a call that passed
\* them all says that it contacted the upstream.
Blames(v, outcome) ==
  /\ outcome = "RATE_LIMITED" => v.rate = "failed"
  /\ outcome = "SCHEMA_REJECTED" => v.schema = "failed"
  /\ outcome = "POLICY_DENIED" => v.policy = "failed"
  /\ outcome = "CONCURRENCY_REJECTED" => v.concurrency = "failed"

\* What the handler of c has found out, and what its records say of it.
StageOK(c) ==
  /\ remote[c] # "none" <=> verdict[c] = AllPassed
  /\ remote[c] # "none" =>
       /\ tools # NoTools /\ request[c].tool \in Allowed[PrincipalOf[c]] \cap tools
       /\ request[c].conforms /\ request[c].permitted
       /\ pc[c] = "executing" \/ writer[First(c)] # "idle"
  /\ pc[c] \in {"idle", "discovering"} => remote[c] = "none" /\ reply[c] = "none"
  /\ pc[c] = "executing" => remote[c] # "none" /\ slot[c]
  /\ pc[c] = "discovering" => /\ request[c] \in Requests
                              /\ request[c].tool \in Allowed[PrincipalOf[c]]
  /\ slot[c] => pc[c] \in {"executing", "recording"} /\ remote[c] # "none"
  /\ reply[c] = "unknown_tool" /\ request[c].tool \in Allowed[PrincipalOf[c]] =>
       tools # NoTools /\ request[c].tool \notin tools
  /\ writer[First(c)] # "idle" =>
       LET r == record[First(c)]
       IN  /\ r \in Records /\ r.verdict = verdict[c] /\ Blames(r.verdict, r.outcome)
           /\ r.attempted <=> remote[c] # "none"
           /\ r.outcome # "CANCELLED" => Ledger!AnswerFits(r.outcome, reply[c])
  /\ writer[Backstop(c)] # "idle" =>
       LET r == record[Backstop(c)]
       IN  /\ r \in Records /\ r.verdict = verdict[c] /\ ~r.attempted
           /\ r.outcome \in {"INTERNAL_ERROR", "CANCELLED"}
  /\ pc[c] = "returned" => record[First(c)].outcome # "CANCELLED"

One(b) == IF b THEN 1 ELSE 0

\* Each interrupted suspension of c was cancelled once, each failed job counted.
FaultsOK(c) ==
  /\ cancels[c] >= One(writer[First(c)] = "cancelled") + One(writer[Backstop(c)] = "cancelled")
                   + One(getter[c] = "cancelled")
  /\ failures[c] >= One(job[First(c)] = "failed") + One(job[Backstop(c)] = "failed")

CallOK(c) == PhaseOK(c) /\ StageOK(c) /\ FaultsOK(c)

\* What a tools/list request was told is in the cache, and allowed.
ListingOK ==
  \A l \in Listers :
    listing[l] # {} => tools # NoTools /\ listing[l] \subseteq tools \cap Allowed[PrincipalOf[l]]

\* The counters of the concurrency limiter.
CountsOK ==
  /\ Limiter!LimitTypeOK
  /\ \A p \in Principals :
       /\ active[p] = Cardinality({c \in Calls : slot[c] /\ PrincipalOf[c] = p})
       /\ active[p] <= peak[p] /\ peak[p] <= MaxConcurrent

PipelineInv ==
  /\ HandlersTyped /\ LogOK /\ StoreOK
  /\ \A c \in Calls : CallOK(c)
  /\ ListingOK /\ CountsOK /\ Rate!TokensTypeOK

-----------------------------------------------------------------------------
LEMMA Names ==
  /\ \A c, d \in Calls :
       /\ First(c) \in Emissions /\ Backstop(c) \in Emissions /\ First(c) # Backstop(d)
       /\ First(c)[1] = c /\ Backstop(c)[1] = c
       /\ c # d => First(c) # First(d) /\ Backstop(c) # Backstop(d)
  /\ \A e \in Emissions : e[1] \in Calls /\ (e = First(e[1]) \/ e = Backstop(e[1]))
BY DEF Emissions, First, Backstop

LEMMA VerdictFacts ==
  /\ FreshVerdict \in Verdicts /\ FreshVerdict.rate = "failed" /\ FreshVerdict # AllPassed
  /\ RatePassed \in Verdicts /\ RatePassed # AllPassed
  /\ SchemaPassed \in Verdicts /\ SchemaPassed # AllPassed
  /\ PolicyPassed \in Verdicts /\ PolicyPassed # AllPassed
  /\ AllPassed \in Verdicts
  /\ \A stage \in DOMAIN AllPassed : AllPassed[stage] = "passed"
BY DEF FreshVerdict, RatePassed, SchemaPassed, PolicyPassed, AllPassed, Verdicts, Stage

\* The verdicts of the five stages that refuse a call.
LEMMA RefusalFacts ==
  /\ \A v \in {[RatePassed EXCEPT !.policy = "failed"], [SchemaPassed EXCEPT !.policy = "failed"]} :
       v \in Verdicts /\ v # AllPassed /\ v.policy = "failed"
  /\ LET v == [RatePassed EXCEPT !.schema = "failed"]
     IN  v \in Verdicts /\ v # AllPassed /\ v.schema = "failed"
  /\ LET v == [PolicyPassed EXCEPT !.concurrency = "failed"]
     IN  v \in Verdicts /\ v # AllPassed /\ v.concurrency = "failed"
BY DEF FreshVerdict, RatePassed, SchemaPassed, PolicyPassed, AllPassed, Verdicts, Stage

-----------------------------------------------------------------------------
\* The listing is written once, and the cache only filled: whoever is not named in
\* a step stands where it stood.
Still(d) ==
  /\ pc'[d] = pc[d] /\ request'[d] = request[d] /\ verdict'[d] = verdict[d]
  /\ slot'[d] = slot[d] /\ reply'[d] = reply[d] /\ remote'[d] = remote[d]
  /\ cancels'[d] = cancels[d] /\ failures'[d] = failures[d] /\ getter'[d] = getter[d]
  /\ record'[First(d)] = record[First(d)] /\ record'[Backstop(d)] = record[Backstop(d)]
  /\ writer'[First(d)] = writer[First(d)] /\ writer'[Backstop(d)] = writer[Backstop(d)]
  /\ job'[First(d)] = job[First(d)] /\ job'[Backstop(d)] = job[Backstop(d)]

\* The cache keeps its list, or gets its first one.
ToolsStay == tools' = tools \/ tools = NoTools

LEMMA StillKeeps ==
  ASSUME NEW d \in Calls, CallOK(d), Still(d), ToolsStay
  PROVE  CallOK(d)'
<1>1. PhaseOK(d)'
  BY DEF CallOK, PhaseOK, Still
<1>2. StageOK(d)'
  BY DEF CallOK, StageOK, Still, ToolsStay
<1>3. FaultsOK(d)'
  BY DEF CallOK, FaultsOK, Still, One
<1> QED BY <1>1, <1>2, <1>3 DEF CallOK

\* When only call c moved, its own part of the invariant is all there is to show.
LEMMA OthersKeep ==
  ASSUME PipelineInv, NEW c \in Calls, CallOK(c)', ToolsStay,
         \A d \in Calls \ {c} : Still(d)
  PROVE  \A d \in Calls : CallOK(d)'
BY StillKeeps DEF PipelineInv

LEMMA PipelineInit == Init => PipelineInv
<1> SUFFICES ASSUME Init PROVE PipelineInv
  OBVIOUS
<1>1. LogOK /\ StoreOK
  BY PartsInit
<1>2. HandlersTyped
  BY VerdictFacts DEF Init, HandlersTyped, Replies
<1>3. ASSUME NEW c \in Calls PROVE CallOK(c)
  <2>1. /\ getter[c] = "idle" /\ \A e \in {First(c), Backstop(c)} : writer[e] = "idle" /\ job[e] = "none"
    BY Names DEF Init, Cache!CacheInit, Cache!CacheUsers, Audit!AuditInit
  <2>2. /\ pc[c] = "idle" /\ verdict[c] = FreshVerdict /\ slot[c] = FALSE /\ reply[c] = "none"
        /\ remote[c] = "none" /\ cancels[c] = 0 /\ failures[c] = 0
    BY DEF Init
  <2> QED BY <2>1, <2>2, VerdictFacts DEF CallOK, PhaseOK, StageOK, FaultsOK, One
<1>4. ListingOK
  BY DEF Init, ListingOK
<1>5. CountsOK
  <2>1. \A p \in Principals : {c \in Calls : slot[c] /\ PrincipalOf[c] = p} = {}
    BY DEF Init
  <2>2. \A p \in Principals :
          Cardinality({c \in Calls : slot[c] /\ PrincipalOf[c] = p}) = 0
    BY <2>1, FS_EmptySet
  <2>3. Limiter!LimitTypeOK /\ \A p \in Principals : active[p] = 0 /\ peak[p] = 0
    BY DEF Init, Limiter!LimitInit, Limiter!LimitTypeOK
  <2>4. 0 <= MaxConcurrent
    BY PipelineAssumption
  <2> QED BY <2>2, <2>3, <2>4 DEF CountsOK
<1>6. Rate!TokensTypeOK
  BY PipelineAssumption DEF Init, Rate!TokensInit, Rate!TokensTypeOK
<1> QED BY <1>1, <1>2, <1>3, <1>4, <1>5, <1>6 DEF PipelineInv

-----------------------------------------------------------------------------
\* What the invariant says of the lines in the file.
LEMMA FileFacts ==
  ASSUME PipelineInv, NEW c \in Calls
  PROVE  /\ file \in Seq(Emissions)
         /\ \A i, j \in DOMAIN file : file[i] = file[j] => i = j
         /\ \A i \in LinesOf(c) : /\ i \in DOMAIN file /\ file[i] \in {First(c), Backstop(c)}
                                  /\ job[file[i]] = "ok"
         /\ \A e \in {First(c), Backstop(c)} :
              /\ job[e] = "ok" => \E i \in LinesOf(c) : file[i] = e
              /\ writer[e] = "returned" => job[e] = "ok"
              /\ writer[e] = "raised" => job[e] = "failed"
              /\ writer[e] = "idle" => job[e] = "none"
<1>1. /\ file \in Seq(Emissions)
      /\ \A i, j \in DOMAIN file : file[i] = file[j] => i = j
      /\ \A e \in Emissions : job[e] = "ok" <=> \E i \in DOMAIN file : file[i] = e
  BY DEF PipelineInv, LogOK, AP!AuditInv, AP!AuditOK, AP!LinesOK
<1>2. \A i \in DOMAIN file : file[i] \in Emissions
  BY <1>1
<1>3. \A i \in LinesOf(c) : i \in DOMAIN file /\ file[i] \in {First(c), Backstop(c)}
  BY <1>2, Names DEF LinesOf
<1>4. \A e \in {First(c), Backstop(c)}, i \in DOMAIN file : file[i] = e => i \in LinesOf(c)
  BY Names DEF LinesOf
<1> QED BY <1>1, <1>2, <1>3, <1>4, Names, LogTypes DEF PipelineInv

LEMMA TypesFollow == PipelineInv => PipelineTypeOK
<1> SUFFICES ASSUME PipelineInv PROVE PipelineTypeOK
  OBVIOUS
<1>1. Cache!CacheTypeOK
  BY DEF PipelineInv, StoreOK, CP!CacheInv, CP!CacheOK, CP!Locks, Cache!Locks, Cache!CacheTypeOK,
         CP!CacheUsers, Cache!CacheUsers
<1>2. Audit!AuditTypeOK
  BY DEF PipelineInv, LogOK, AP!AuditInv, AP!AuditOK, AP!TurnsOK, AP!JobsOK, AP!LinesOK, AP!OrderOK, AP!Locks,
         Audit!Locks, Audit!AuditTypeOK, AP!WriterStates, AP!JobStates, Audit!WriterStates, Audit!JobStates
<1> QED BY <1>1, <1>2 DEF PipelineInv, HandlersTyped, CountsOK, PipelineTypeOK

LEMMA RecordFollows ==
  PipelineInv => ReplyHasOneRecord /\ OneFaultLosesNoRecord /\ UncancelledRecordedOnce
<1> SUFFICES ASSUME PipelineInv, NEW c \in Calls
             PROVE  /\ pc[c] = "returned" =>
                         /\ \E i \in LinesOf(c) : LinesOf(c) = {i} /\ file[i] = First(c)
                         /\ Ledger!AnswerFits(record[First(c)].outcome, reply[c])
                    /\ Ended(c) /\ Faults(c) <= 1 => LinesOf(c) # {}
                    /\ cancels[c] = 0 => \A i, j \in LinesOf(c) : i = j
  BY DEF ReplyHasOneRecord, OneFaultLosesNoRecord, UncancelledRecordedOnce
<1>1. PhaseOK(c) /\ StageOK(c) /\ FaultsOK(c)
  BY DEF PipelineInv, CallOK
<1>2. cancels[c] \in Nat /\ failures[c] \in Nat
  BY DEF PipelineInv, HandlersTyped
<1>3. ASSUME pc[c] = "returned"
      PROVE  /\ \E i \in LinesOf(c) : LinesOf(c) = {i} /\ file[i] = First(c)
             /\ Ledger!AnswerFits(record[First(c)].outcome, reply[c])
  <2>1. writer[First(c)] = "returned" /\ writer[Backstop(c)] = "idle"
    BY <1>1, <1>3 DEF PhaseOK
  <2>2. PICK i \in LinesOf(c) : file[i] = First(c)
    BY <2>1, FileFacts
  <2>3. \A k \in LinesOf(c) : k = i
    BY <2>1, <2>2, FileFacts
  <2>4. Ledger!AnswerFits(record[First(c)].outcome, reply[c])
    BY <1>1, <1>3, <2>1 DEF StageOK
  <2> QED BY <2>2, <2>3, <2>4
<1>4. ASSUME Ended(c), Faults(c) <= 1 PROVE LinesOf(c) # {}
  <2>1. job[First(c)] = "ok" \/ job[Backstop(c)] = "ok"
    BY <1>1, <1>2, <1>4, FileFacts DEF PhaseOK, FaultsOK, Faults, Ended, One
  <2> QED BY <2>1, FileFacts
<1>5. ASSUME cancels[c] = 0 PROVE \A i, j \in LinesOf(c) : i = j
  <2>1. writer[First(c)] # "cancelled" /\ writer[Backstop(c)] # "cancelled"
    BY <1>1, <1>2, <1>5 DEF FaultsOK, One
  <2>2. pc[c] \in {"idle", "discovering", "executing", "recording", "closing", "returned", "raised"}
    BY DEF PipelineInv, HandlersTyped
  <2>3. ~(job[First(c)] = "ok" /\ job[Backstop(c)] = "ok")
    BY <1>1, <2>1, <2>2, FileFacts DEF PhaseOK
  <2> QED BY <2>3, FileFacts
<1> QED BY <1>3, <1>4, <1>5

LEMMA StagesFollow == PipelineInv => RecordsTellTheStage /\ ContactIsRecorded /\ SlotsAccounted
<1> SUFFICES ASSUME PipelineInv PROVE RecordsTellTheStage /\ ContactIsRecorded /\ SlotsAccounted
  OBVIOUS
<1>1. ASSUME NEW c \in Calls
      PROVE  PhaseOK(c) /\ StageOK(c) /\ pc[c] \in {"idle", "discovering", "executing", "recording",
                                                    "closing", "returned", "raised"}
  BY DEF PipelineInv, CallOK, HandlersTyped
<1>2. RecordsTellTheStage
  <2> SUFFICES ASSUME NEW i \in DOMAIN file
               PROVE  LET c == file[i][1]
                          r == record[file[i]]
                          refused == \E stage \in DOMAIN r.verdict : r.verdict[stage] = "failed"
                      IN  /\ r.attempted => remote[c] # "none"
                          /\ remote[c] # "none" <=> r.verdict = AllPassed
                          /\ remote[c] # "none" =>
                               /\ request[c].tool \in Allowed[PrincipalOf[c]] \cap tools
                               /\ request[c].conforms /\ request[c].permitted
                          /\ refused => ~r.attempted /\ remote[c] = "none"
                          /\ r.outcome = "RATE_LIMITED" => r.verdict.rate = "failed"
                          /\ r.outcome = "SCHEMA_REJECTED" => r.verdict.schema = "failed"
                          /\ r.outcome = "POLICY_DENIED" => r.verdict.policy = "failed"
                          /\ r.outcome = "CONCURRENCY_REJECTED" => r.verdict.concurrency = "failed"
    BY DEF RecordsTellTheStage
  <2> DEFINE c == file[i][1]
             r == record[file[i]]
  <2>1. c \in Calls /\ file[i] \in {First(c), Backstop(c)} /\ job[file[i]] = "ok"
    <3>1. file[i] \in Emissions
      BY LogTypes DEF PipelineInv
    <3> QED BY <3>1, Names, FileFacts DEF LinesOf
  <2>2. writer[file[i]] # "idle"
    BY <2>1, FileFacts
  <2>3. /\ r.verdict = verdict[c] /\ (r.attempted => remote[c] # "none")
        /\ Blames(r.verdict, r.outcome)
    BY <1>1, <2>1, <2>2 DEF StageOK, Blames
  <2> HIDE DEF c, r
  <2>4. /\ remote[c] # "none" <=> verdict[c] = AllPassed
        /\ remote[c] # "none" => /\ request[c].tool \in Allowed[PrincipalOf[c]] \cap tools
                                /\ request[c].conforms /\ request[c].permitted
    BY <1>1, <2>1 DEF StageOK
  <2>5. (\E stage \in DOMAIN r.verdict : r.verdict[stage] = "failed") => r.verdict # AllPassed
    BY VerdictFacts
  <2> QED BY <2>3, <2>4, <2>5 DEF Blames, c, r
<1>3. ContactIsRecorded
  <2> SUFFICES ASSUME NEW c \in Calls, Ended(c), remote[c] # "none",
                      writer[First(c)] \notin {"cancelled", "raised"}
               PROVE  \E i \in LinesOf(c) : record[file[i]].attempted
    BY DEF ContactIsRecorded
  <2>1. writer[First(c)] = "returned" /\ record[First(c)].attempted
    BY <1>1 DEF PhaseOK, StageOK, Ended
  <2> QED BY <2>1, FileFacts
<1>4. SlotsAccounted
  BY <1>1 DEF StageOK, PipelineInv, CountsOK, SlotsAccounted
<1> QED BY <1>2, <1>3, <1>4

LEMMA ListingsFollow == PipelineInv => ListedToolsAreKnown
BY DEF PipelineInv, CallOK, StageOK, ListingOK, ListedToolsAreKnown

\* A lock nobody holds or waits for is as good as new.
LEMMA QuietLock ==
  ASSUME NEW P, NEW lock \in AP!Locks(P), lock.locked = FALSE, \A p \in P : ~AP!Waits(lock, p)
  PROVE  lock = [locked |-> FALSE, waiters |-> <<>>]
<1>1. lock.waiters \in Seq(P) /\ lock = [locked |-> lock.locked, waiters |-> lock.waiters]
  BY DEF AP!Locks
<1>2. lock.waiters = <<>>
  <2>1. SUFFICES ASSUME lock.waiters # <<>> PROVE FALSE
    OBVIOUS
  <2>2. 1 \in DOMAIN lock.waiters /\ lock.waiters[1] \in P
    BY <1>1, <2>1
  <2> QED BY <2>2 DEF AP!Waits
<1> QED BY <1>1, <1>2

LEMMA QuietFollows == PipelineInv => NothingLeftHeld
<1> SUFFICES ASSUME PipelineInv, \A c \in Calls : pc[c] = "idle" \/ Ended(c)
             PROVE  /\ auditLock = Audit!FreshLock
                    /\ active = [p \in Principals |-> 0]
                    /\ (\A l \in Listers : getter[l] \notin {"waiting", "fetching"}) =>
                         cacheLock = Cache!FreshLock
  BY DEF NothingLeftHeld
<1>1. ASSUME NEW c \in Calls
      PROVE  /\ writer[First(c)] \notin {"waiting", "writing"}
             /\ writer[Backstop(c)] \notin {"waiting", "writing"}
             /\ getter[c] \notin {"waiting", "fetching"} /\ ~slot[c]
  <2>1. pc[c] \in {"idle", "returned", "raised"} /\ PhaseOK(c) /\ StageOK(c)
    BY DEF PipelineInv, CallOK, Ended
  <2> QED BY <2>1 DEF PhaseOK, StageOK
<1>2. auditLock = Audit!FreshLock
  <2>1. \A e \in Emissions : writer[e] \notin {"waiting", "writing"}
    BY <1>1, Names
  <2>2. /\ auditLock \in AP!Locks(Emissions) /\ auditLock.locked = FALSE
        /\ \A e \in Emissions : ~AP!Waits(auditLock, e)
    BY <2>1 DEF PipelineInv, LogOK, AP!AuditInv, AP!AuditOK, AP!TurnsOK, AP!Locks
  <2> QED BY <2>2, QuietLock DEF Audit!FreshLock
<1>3. active = [p \in Principals |-> 0]
  <2>1. \A p \in Principals : {c \in Calls : slot[c] /\ PrincipalOf[c] = p} = {}
    BY <1>1
  <2>2. \A p \in Principals : active[p] = 0
    BY <2>1, FS_EmptySet DEF PipelineInv, CountsOK
  <2> QED BY <2>2 DEF PipelineInv, CountsOK, Limiter!LimitTypeOK
<1>4. ASSUME \A l \in Listers : getter[l] \notin {"waiting", "fetching"}
      PROVE  cacheLock = Cache!FreshLock
  <2>1. \A c \in CP!CacheUsers : getter[c] \notin {"waiting", "fetching"}
    BY <1>1, <1>4 DEF CP!CacheUsers
  <2>2. /\ cacheLock \in AP!Locks(CP!CacheUsers) /\ cacheLock.locked = FALSE
        /\ \A c \in CP!CacheUsers : ~AP!Waits(cacheLock, c)
    BY <2>1 DEF PipelineInv, StoreOK, CP!CacheInv, CP!CacheOK, CP!Locks, AP!Locks, CP!Waits, AP!Waits
  <2> QED BY <2>2, QuietLock DEF Cache!FreshLock
<1> QED BY <1>2, <1>3, <1>4

-----------------------------------------------------------------------------
\* The counters, at the three things a step can do to a slot.
LEMMA CountsStay == ASSUME CountsOK, slot' = slot, UNCHANGED limitVars PROVE CountsOK'
BY DEF CountsOK, limitVars, Limiter!LimitTypeOK

SlotsOf(p) == {c \in Calls : slot[c] /\ PrincipalOf[c] = p}

LEMMA SlotsFinite == \A p : IsFiniteSet(SlotsOf(p)) /\ IsFiniteSet(SlotsOf(p)')
<1> TAKE p
<1>1. SlotsOf(p) \in SUBSET Calls /\ SlotsOf(p)' \in SUBSET Calls /\ IsFiniteSet(Calls)
  BY PipelineAssumption DEF SlotsOf
<1> QED BY <1>1, FS_Subset

LEMMA CountsRise ==
  ASSUME CountsOK, NEW c \in Calls, slot \in [Calls -> BOOLEAN], ~slot[c],
         slot' = [slot EXCEPT ![c] = TRUE], Limiter!TryAcquire(PrincipalOf[c], TRUE)
  PROVE  CountsOK'
<1> DEFINE q == PrincipalOf[c]
<1>0. q \in Principals /\ MaxConcurrent \in Nat
  BY PipelineAssumption
<1>1. SlotsOf(q)' = SlotsOf(q) \cup {c} /\ c \notin SlotsOf(q)
  BY DEF SlotsOf
<1>2. \A p \in Principals \ {q} : SlotsOf(p)' = SlotsOf(p)
  BY DEF SlotsOf
<1>3. /\ active \in [Principals -> Nat] /\ peak \in [Principals -> Nat]
      /\ \A p \in Principals : /\ active[p] = Cardinality(SlotsOf(p))
                              /\ active[p] <= peak[p] /\ peak[p] <= MaxConcurrent
  BY DEF CountsOK, Limiter!LimitTypeOK, SlotsOf
<1>4. Cardinality(SlotsOf(q)') = Cardinality(SlotsOf(q)) + 1
  BY <1>1, FS_AddElement, SlotsFinite
<1> HIDE DEF q
<1>5. /\ active[q] < MaxConcurrent /\ active' = [active EXCEPT ![q] = active[q] + 1]
      /\ peak' = [peak EXCEPT ![q] = IF active'[q] > peak[q] THEN active'[q] ELSE peak[q]]
  BY DEF Limiter!TryAcquire, q
<1>6. active'[q] = active[q] + 1 /\ active' \in [Principals -> Nat]
  BY <1>0, <1>3, <1>5
<1>7. /\ peak' \in [Principals -> Nat]
      /\ active'[q] <= peak'[q] /\ peak'[q] <= MaxConcurrent
  BY <1>0, <1>3, <1>5, <1>6
<1>8. \A p \in Principals \ {q} : active'[p] = active[p] /\ peak'[p] = peak[p]
  BY <1>0, <1>3, <1>5
<1>9. \A p \in Principals : active'[p] = Cardinality(SlotsOf(p)')
  BY <1>2, <1>3, <1>4, <1>6, <1>8
<1>10. \A p \in Principals : active'[p] <= peak'[p] /\ peak'[p] <= MaxConcurrent
  BY <1>3, <1>7, <1>8
<1> QED BY <1>6, <1>7, <1>9, <1>10 DEF CountsOK, Limiter!LimitTypeOK, SlotsOf

LEMMA CountsFall ==
  ASSUME CountsOK, NEW c \in Calls, slot \in [Calls -> BOOLEAN], ReleaseSlot(c)
  PROVE  CountsOK' /\ slot' = [slot EXCEPT ![c] = FALSE]
<1>1. CASE ~slot[c]
  BY <1>1, CountsStay DEF ReleaseSlot
<1>2. CASE slot[c]
  <2> DEFINE q == PrincipalOf[c]
  <2>0. q \in Principals /\ slot' = [slot EXCEPT ![c] = FALSE]
    BY <1>2, PipelineAssumption DEF ReleaseSlot
  <2>1. SlotsOf(q)' = SlotsOf(q) \ {c} /\ c \in SlotsOf(q)
    BY <1>2, <2>0 DEF SlotsOf
  <2>2. \A p \in Principals \ {q} : SlotsOf(p)' = SlotsOf(p)
    BY <2>0 DEF SlotsOf
  <2>3. /\ active \in [Principals -> Nat] /\ peak \in [Principals -> Nat]
        /\ \A p \in Principals : /\ active[p] = Cardinality(SlotsOf(p))
                                /\ active[p] <= peak[p] /\ peak[p] <= MaxConcurrent
    BY DEF CountsOK, Limiter!LimitTypeOK, SlotsOf
  <2>4. /\ Cardinality(SlotsOf(q)') = Cardinality(SlotsOf(q)) - 1
        /\ Cardinality(SlotsOf(q)') \in Nat
    BY <2>1, FS_RemoveElement, FS_CardinalityType, SlotsFinite
  <2> HIDE DEF q
  <2>5. /\ active' = [active EXCEPT ![q] = IF active[q] > 0 THEN active[q] - 1 ELSE 0]
        /\ peak' = peak
    BY <1>2 DEF ReleaseSlot, Limiter!Release, q
  <2>6. active' \in [Principals -> Nat] /\ active'[q] = active[q] - 1
    BY <2>0, <2>3, <2>4, <2>5
  <2>7. \A p \in Principals \ {q} : active'[p] = active[p]
    BY <2>0, <2>3, <2>5
  <2>8. \A p \in Principals : active'[p] = Cardinality(SlotsOf(p)')
    BY <2>2, <2>3, <2>4, <2>6, <2>7
  <2>9. \A p \in Principals : active'[p] <= peak'[p] /\ peak'[p] <= MaxConcurrent
    <3> SUFFICES ASSUME NEW p \in Principals
                 PROVE  active'[p] <= peak'[p] /\ peak'[p] <= MaxConcurrent
      OBVIOUS
    <3>1. active'[p] <= active[p]
      BY <2>0, <2>3, <2>6, <2>7
    <3> QED BY <2>3, <2>5, <2>6, <3>1, PipelineAssumption
  <2> QED BY <2>0, <2>3, <2>5, <2>6, <2>8, <2>9 DEF CountsOK, Limiter!LimitTypeOK, SlotsOf
<1> QED BY <1>1, <1>2

-----------------------------------------------------------------------------
\* What a step of the handlers must show.
HandlersKept == HandlersTyped' /\ ListingOK' /\ \A c \in Calls : CallOK(c)'

LEMMA ListingStays == ASSUME ListingOK, listing' = listing, ToolsStay PROVE ListingOK'
BY DEF ListingOK, ToolsStay

\* The values of call c that Report leaves, and the calls it leaves alone.
Reported(c, v, outcome, attempted, ans) ==
  /\ pc'[c] = "recording" /\ verdict'[c] = v /\ reply'[c] = ans
  /\ record'[First(c)] = [outcome |-> outcome, attempted |-> attempted, verdict |-> v]
  /\ record'[First(c)] \in Records /\ record'[Backstop(c)] = record[Backstop(c)]
  /\ writer'[First(c)] \in {"waiting", "writing"} /\ writer'[Backstop(c)] = writer[Backstop(c)]
  /\ job'[First(c)] \in {"none", "queued"} /\ job'[Backstop(c)] = job[Backstop(c)]
  /\ slot' = slot /\ listing' = listing
  /\ \A d \in Calls \ {c} :
       /\ pc'[d] = pc[d] /\ verdict'[d] = verdict[d] /\ reply'[d] = reply[d]
       /\ record'[First(d)] = record[First(d)] /\ record'[Backstop(d)] = record[Backstop(d)]
       /\ writer'[First(d)] = writer[First(d)] /\ writer'[Backstop(d)] = writer[Backstop(d)]
       /\ job'[First(d)] = job[First(d)] /\ job'[Backstop(d)] = job[Backstop(d)]
  /\ pc' \in [Calls -> {"idle", "discovering", "executing", "recording", "closing",
                        "returned", "raised"}]
  /\ verdict' \in [Calls -> Verdicts] /\ reply' \in [Calls -> Replies]
  /\ record' \in [Emissions -> Records \cup {NoRecord}]

LEMMA ReportMoves ==
  ASSUME PipelineInv, NEW c \in Calls, NEW v \in Verdicts, NEW outcome \in Outcomes,
         NEW attempted \in BOOLEAN, NEW ans \in Replies, Report(c, v, outcome, attempted, ans)
  PROVE  LogOK' /\ Reported(c, v, outcome, attempted, ans)
<1> DEFINE r == [outcome |-> outcome, attempted |-> attempted, verdict |-> v]
<1>0. First(c) \in Emissions /\ Backstop(c) \in Emissions /\ First(c) # Backstop(c) /\ r \in Records
  BY Names DEF Records
<1> HIDE DEF r
<1>1. HandlersTyped /\ LogOK
  BY DEF PipelineInv
<1>2. Audit!Emit(First(c)) /\ record' = [record EXCEPT ![First(c)] = r]
  BY DEF Report, r
<1>3. /\ LogOK' /\ OnlyMoved({First(c)}) /\ writer'[First(c)] \in {"waiting", "writing"}
      /\ job'[First(c)] \in {"none", "queued"}
  BY <1>0, <1>1, <1>2, EmitMoves
<1>4. \A e \in Emissions \ {First(c)} : record'[e] = record[e] /\ writer'[e] = writer[e] /\ job'[e] = job[e]
  BY <1>1, <1>2, <1>3 DEF OnlyMoved, HandlersTyped
<1>5. record'[First(c)] = r /\ record' \in [Emissions -> Records \cup {NoRecord}]
  BY <1>0, <1>1, <1>2 DEF HandlersTyped
<1>6. \A d \in Calls \ {c} : First(d) \in Emissions \ {First(c)} /\ Backstop(d) \in Emissions \ {First(c)}
  BY Names
<1>7. /\ pc'[c] = "recording" /\ verdict'[c] = v /\ reply'[c] = ans /\ slot' = slot /\ listing' = listing
      /\ \A d \in Calls \ {c} : pc'[d] = pc[d] /\ verdict'[d] = verdict[d] /\ reply'[d] = reply[d]
      /\ pc' \in [Calls -> {"idle", "discovering", "executing", "recording", "closing",
                            "returned", "raised"}]
      /\ verdict' \in [Calls -> Verdicts] /\ reply' \in [Calls -> Replies]
  BY <1>1 DEF Report, HandlersTyped
<1> QED BY <1>0, <1>3, <1>4, <1>5, <1>6, <1>7 DEF r, Reported

\* How a call stands before it is judged: the request is read, and cache.get() has
\* left its caller at s.
Entered(c, r, s) ==
  /\ pc[c] \in {"idle", "discovering"} /\ r \in Requests
  /\ request' \in [Calls -> Requests \cup {NoRequest}] /\ request'[c] = r
  /\ \A d \in Calls \ {c} : request'[d] = request[d] /\ getter'[d] = getter[d]
  /\ getter'[c] = s /\ (pc[c] = "discovering" => s # "idle")
  /\ ToolsStay /\ UNCHANGED faultVars

LEMMA RefuseKeeps ==
  ASSUME PipelineInv, NEW c \in Calls, NEW r, NEW s \in {"idle", "got"}, Entered(c, r, s),
         NEW v \in Verdicts, NEW outcome \in Outcomes \ {"CANCELLED"}, NEW ans \in Replies,
         Refuse(c, v, outcome, ans), v # AllPassed, Blames(v, outcome), Ledger!AnswerFits(outcome, ans),
         ans = "unknown_tool" /\ r.tool \in Allowed[PrincipalOf[c]] =>
           tools' # NoTools /\ r.tool \notin tools'
  PROVE  HandlersKept /\ LogOK' /\ slot' = slot
<1>1. HandlersTyped /\ CallOK(c) /\ ListingOK
  BY DEF PipelineInv
<1>2. Reported(c, v, outcome, FALSE, ans) /\ remote' = remote /\ LogOK'
  BY ReportMoves DEF Refuse
<1>3. HandlersTyped' /\ ListingOK'
  BY <1>1, <1>2, ListingStays DEF HandlersTyped, Entered, faultVars, Reported
<1>4. \A d \in Calls \ {c} : Still(d)
  BY <1>2 DEF Still, Entered, faultVars, Reported
<1>5. PhaseOK(c)'
  BY <1>1, <1>2 DEF CallOK, PhaseOK, Entered, Reported
<1>6. StageOK(c)'
  <2>1. /\ writer[Backstop(c)] = "idle" /\ remote[c] = "none" /\ ~slot[c]
    BY <1>1 DEF CallOK, PhaseOK, StageOK, Entered
  <2>2. /\ writer'[Backstop(c)] = "idle" /\ remote'[c] = "none" /\ ~slot'[c]
        /\ pc'[c] = "recording" /\ verdict'[c] = v /\ reply'[c] = ans /\ request'[c] = r
        /\ record'[First(c)] = [outcome |-> outcome, attempted |-> FALSE, verdict |-> v]
        /\ record'[First(c)] \in Records
    BY <1>2, <2>1 DEF Entered, Reported
  <2> QED BY <2>2 DEF StageOK
<1>7. FaultsOK(c)'
  BY <1>1, <1>2 DEF CallOK, PhaseOK, FaultsOK, One, Entered, faultVars, HandlersTyped, Reported
<1>8. \A d \in Calls : CallOK(d)'
  BY <1>4, <1>5, <1>6, <1>7, OthersKeep DEF CallOK, Entered
<1> QED BY <1>2, <1>3, <1>8 DEF HandlersKept, Reported

LEMMA ForwardKeeps ==
  ASSUME PipelineInv, NEW c \in Calls, NEW r, Entered(c, r, "got"), Forward(c),
         tools' # NoTools, r.tool \in Allowed[PrincipalOf[c]] \cap tools', r.conforms, r.permitted
  PROVE  HandlersKept /\ LogOK'
<1>1. HandlersTyped /\ CallOK(c) /\ ListingOK /\ LogOK
  BY DEF PipelineInv
<1>2. /\ pc' = [pc EXCEPT ![c] = "executing"] /\ verdict' = [verdict EXCEPT ![c] = AllPassed]
      /\ slot' = [slot EXCEPT ![c] = TRUE] /\ remote' = [remote EXCEPT ![c] = "executing"]
      /\ UNCHANGED <<record, reply, listing, writer, job>> /\ UNCHANGED auditVars
  BY DEF Forward, auditVars
<1>3. HandlersTyped' /\ ListingOK'
  BY <1>1, <1>2, VerdictFacts, ListingStays DEF HandlersTyped, Entered, faultVars
<1>4. \A d \in Calls \ {c} : Still(d)
  BY <1>1, <1>2 DEF Still, Entered, faultVars, HandlersTyped
<1>5. /\ pc'[c] = "executing" /\ verdict'[c] = AllPassed /\ slot'[c] /\ remote'[c] = "executing"
  BY <1>1, <1>2 DEF HandlersTyped
<1>6. PhaseOK(c)'
  BY <1>1, <1>2, <1>5 DEF CallOK, PhaseOK, Entered
<1>7. StageOK(c)'
  <2>1. /\ writer[First(c)] = "idle" /\ writer[Backstop(c)] = "idle" /\ reply[c] = "none"
    BY <1>1 DEF CallOK, PhaseOK, StageOK, Entered
  <2> QED BY <1>2, <1>5, <2>1 DEF StageOK, Entered
<1>8. FaultsOK(c)'
  BY <1>1, <1>2 DEF CallOK, FaultsOK, One, Entered, faultVars, HandlersTyped
<1>9. \A d \in Calls : CallOK(d)'
  BY <1>4, <1>6, <1>7, <1>8, OthersKeep DEF CallOK, Entered
<1> QED BY <1>1, <1>2, <1>3, <1>9, LogStays DEF HandlersKept

\* The handler stays suspended in cache.get().
Suspend(c) ==
  /\ pc' = [pc EXCEPT ![c] = "discovering"]
  /\ verdict' = [verdict EXCEPT ![c] = RatePassed]
  /\ UNCHANGED <<slot, record, reply, listing, remote, limitVars, auditVars>>

LEMMA SuspendKeeps ==
  ASSUME PipelineInv, NEW c \in Calls, NEW r, NEW s \in {"waiting", "fetching"}, Entered(c, r, s),
         Suspend(c), r.tool \in Allowed[PrincipalOf[c]]
  PROVE  HandlersKept /\ LogOK' /\ slot' = slot
<1>1. HandlersTyped /\ CallOK(c) /\ ListingOK /\ LogOK
  BY DEF PipelineInv
<1>2. /\ pc' = [pc EXCEPT ![c] = "discovering"] /\ verdict' = [verdict EXCEPT ![c] = RatePassed]
      /\ UNCHANGED <<slot, remote, record, reply, listing, writer, job>> /\ UNCHANGED auditVars
  BY DEF Suspend, auditVars
<1>3. HandlersTyped' /\ ListingOK'
  BY <1>1, <1>2, VerdictFacts, ListingStays DEF HandlersTyped, Entered, faultVars
<1>4. \A d \in Calls \ {c} : Still(d)
  BY <1>1, <1>2 DEF Still, Entered, faultVars, HandlersTyped
<1>5. pc'[c] = "discovering" /\ verdict'[c] = RatePassed
  BY <1>1, <1>2 DEF HandlersTyped
<1>6. PhaseOK(c)'
  BY <1>1, <1>2, <1>5 DEF CallOK, PhaseOK, Entered
<1>7. StageOK(c)'
  <2>1. /\ writer[First(c)] = "idle" /\ writer[Backstop(c)] = "idle" /\ reply[c] = "none"
        /\ remote[c] = "none" /\ ~slot[c]
    BY <1>1 DEF CallOK, PhaseOK, StageOK, Entered
  <2> QED BY <1>2, <1>5, <2>1, VerdictFacts DEF StageOK, Entered
<1>8. FaultsOK(c)'
  BY <1>1, <1>2 DEF CallOK, FaultsOK, One, Entered, faultVars, HandlersTyped
<1>9. \A d \in Calls : CallOK(d)'
  BY <1>4, <1>6, <1>7, <1>8, OthersKeep DEF CallOK, Entered
<1> QED BY <1>1, <1>2, <1>3, <1>9, LogStays DEF HandlersKept

LEMMA JudgeKeeps ==
  ASSUME PipelineInv, NEW c \in Calls, NEW r, Entered(c, r, "got"), Judge(c, r, tools'),
         tools' # NoTools, r.tool \in Allowed[PrincipalOf[c]]
  PROVE  HandlersKept /\ LogOK' /\ CountsOK'
<1>0. CountsOK /\ slot \in [Calls -> BOOLEAN] /\ ~slot[c]
  BY DEF PipelineInv, HandlersTyped, CallOK, StageOK, Entered
<1>1. CASE /\ r.tool \notin tools' /\ UNCHANGED limitVars
           /\ Refuse(c, [RatePassed EXCEPT !.policy = "failed"], "POLICY_DENIED", "unknown_tool")
  <2>1. /\ Ledger!AnswerFits("POLICY_DENIED", "unknown_tool")
        /\ "POLICY_DENIED" \in Outcomes \ {"CANCELLED"}
        /\ "unknown_tool" \in Replies
    BY DEF Ledger!AnswerFits, Outcomes, Replies
  <2>2. Blames([RatePassed EXCEPT !.policy = "failed"], "POLICY_DENIED")
    BY RefusalFacts DEF Blames
  <2> QED BY <1>0, <1>1, <2>1, <2>2, RefusalFacts, RefuseKeeps, CountsStay
<1>2. CASE /\ UNCHANGED limitVars
           /\ Refuse(c, [RatePassed EXCEPT !.schema = "failed"], "SCHEMA_REJECTED", "schema_invalid")
  <2>1. /\ Ledger!AnswerFits("SCHEMA_REJECTED", "schema_invalid")
        /\ "SCHEMA_REJECTED" \in Outcomes \ {"CANCELLED"}
        /\ "schema_invalid" \in Replies
    BY DEF Ledger!AnswerFits, Outcomes, Replies
  <2>2. Blames([RatePassed EXCEPT !.schema = "failed"], "SCHEMA_REJECTED")
    BY RefusalFacts DEF Blames
  <2> QED BY <1>0, <1>2, <2>1, <2>2, RefusalFacts, RefuseKeeps, CountsStay
<1>3. CASE /\ UNCHANGED limitVars
           /\ Refuse(c, [SchemaPassed EXCEPT !.policy = "failed"], "POLICY_DENIED", "argument_denied")
  <2>1. /\ Ledger!AnswerFits("POLICY_DENIED", "argument_denied")
        /\ "POLICY_DENIED" \in Outcomes \ {"CANCELLED"}
        /\ "argument_denied" \in Replies
    BY DEF Ledger!AnswerFits, Outcomes, Replies
  <2>2. Blames([SchemaPassed EXCEPT !.policy = "failed"], "POLICY_DENIED")
    BY RefusalFacts DEF Blames
  <2> QED BY <1>0, <1>3, <2>1, <2>2, RefusalFacts, RefuseKeeps, CountsStay
<1>4. CASE /\ r.tool \in tools' /\ r.conforms /\ r.permitted
           /\ Limiter!TryAcquire(PrincipalOf[c], TRUE) /\ Forward(c)
  <2>1. slot' = [slot EXCEPT ![c] = TRUE]
    BY <1>4 DEF Forward
  <2> QED BY <1>0, <1>4, <2>1, ForwardKeeps, CountsRise
<1>5. CASE /\ Limiter!TryAcquire(PrincipalOf[c], FALSE)
           /\ Refuse(c, [PolicyPassed EXCEPT !.concurrency = "failed"],
                     "CONCURRENCY_REJECTED", "concurrency_rejected")
  <2>1. /\ Ledger!AnswerFits("CONCURRENCY_REJECTED", "concurrency_rejected")
        /\ "CONCURRENCY_REJECTED" \in Outcomes \ {"CANCELLED"} /\ "concurrency_rejected" \in Replies
    BY DEF Ledger!AnswerFits, Outcomes, Replies
  <2>2. Blames([PolicyPassed EXCEPT !.concurrency = "failed"], "CONCURRENCY_REJECTED")
    BY RefusalFacts DEF Blames
  <2>3. UNCHANGED limitVars
    <3> DEFINE q == PrincipalOf[c]
    <3>1. /\ q \in Principals /\ active \in [Principals -> Nat] /\ peak \in [Principals -> Nat]
          /\ active[q] <= peak[q]
      BY <1>0, PipelineAssumption DEF CountsOK, Limiter!LimitTypeOK
    <3> HIDE DEF q
    <3>2. /\ active' = active
          /\ peak' = [peak EXCEPT ![q] = IF active'[q] > peak[q] THEN active'[q] ELSE peak[q]]
      BY <1>5 DEF Limiter!TryAcquire, q
    <3>3. ~(active'[q] > peak[q])
      BY <3>1, <3>2
    <3> QED BY <3>1, <3>2, <3>3 DEF limitVars
  <2> QED BY <1>0, <1>5, <2>1, <2>2, <2>3, RefusalFacts, RefuseKeeps, CountsStay
<1> QED BY <1>1, <1>2, <1>3, <1>4, <1>5 DEF Judge

LEMMA AfterGetKeeps ==
  ASSUME PipelineInv, NEW c \in Calls, NEW r, NEW s \in {"waiting", "fetching", "got"},
         Entered(c, r, s), AfterGet(c, r), s = "got" => tools' # NoTools,
         r.tool \in Allowed[PrincipalOf[c]]
  PROVE  HandlersKept /\ LogOK' /\ CountsOK'
<1>1. CASE s = "got"
  BY <1>1, JudgeKeeps DEF AfterGet, Entered
<1>2. CASE s # "got"
  <2>1. Suspend(c) /\ UNCHANGED limitVars
    BY <1>2 DEF AfterGet, Suspend, Entered
  <2> QED BY <1>2, <2>1, SuspendKeeps, CountsStay DEF PipelineInv
<1> QED BY <1>1, <1>2

-----------------------------------------------------------------------------
LEMMA TokensKept ==
  ASSUME Rate!TokensTypeOK, NEW p \in Principals, NEW granted \in BOOLEAN,
         Rate!TryAcquire(p, granted)
  PROVE  Rate!TokensTypeOK'
<1>1. tokens \in [Principals -> 0..Burst] /\ Burst \in Nat
  BY PipelineAssumption DEF Rate!TokensTypeOK
<1>2. PICK credited \in tokens[p]..Burst :
        /\ granted = (credited > 0)
        /\ tokens' = [tokens EXCEPT ![p] = IF granted THEN credited - 1 ELSE credited]
  BY DEF Rate!TryAcquire
<1>3. (IF granted THEN credited - 1 ELSE credited) \in 0..Burst
  <2>1. tokens[p] \in 0..Burst
    BY <1>1
  <2>2. credited \in 0..Burst
    BY <1>1, <1>2, <2>1
  <2>3. CASE credited > 0
    <3>1. credited - 1 \in 0..Burst
      BY <1>1, <2>2, <2>3
    <3>2. granted = TRUE
      BY <1>2, <2>3
    <3> QED BY <3>1, <3>2
  <2>4. CASE ~(credited > 0)
    BY <1>2, <2>2, <2>4
  <2> QED BY <2>3, <2>4
<1> QED BY <1>1, <1>2, <1>3 DEF Rate!TokensTypeOK

LEMMA BeginKeeps == ASSUME PipelineInv, NEW c \in Calls, Begin(c) PROVE PipelineInv'
<1>1. HandlersTyped /\ CallOK(c) /\ StoreOK /\ CountsOK /\ Rate!TokensTypeOK
  BY DEF PipelineInv
<1>2. getter[c] = "idle" /\ pc[c] = "idle" /\ PrincipalOf[c] \in Principals
  BY <1>1, PipelineAssumption DEF Begin, CallOK, PhaseOK
<1>3. PICK r \in Requests, granted \in BOOLEAN :
        /\ request' = [request EXCEPT ![c] = r]
        /\ Rate!TryAcquire(PrincipalOf[c], granted)
        /\ \/ /\ Refuse(c, FreshVerdict, "RATE_LIMITED", "rate_limited")
              /\ UNCHANGED <<limitVars, cacheVars>>
           \/ /\ r.tool \notin Allowed[PrincipalOf[c]]
              /\ Refuse(c, [RatePassed EXCEPT !.policy = "failed"], "POLICY_DENIED", "unknown_tool")
              /\ UNCHANGED <<limitVars, cacheVars>>
           \/ /\ r.tool \in Allowed[PrincipalOf[c]]
              /\ Cache!Get(c) /\ AfterGet(c, r)
  BY DEF Begin
<1>4. Rate!TokensTypeOK'
  BY <1>1, <1>2, <1>3, TokensKept
<1>5. /\ request' \in [Calls -> Requests \cup {NoRequest}] /\ request'[c] = r
      /\ \A d \in Calls \ {c} : request'[d] = request[d]
      /\ UNCHANGED faultVars
  BY <1>1, <1>3 DEF HandlersTyped, Begin
<1>6. ASSUME UNCHANGED <<limitVars, cacheVars>>
      PROVE  Entered(c, r, "idle") /\ StoreOK' /\ tools' = tools
  BY <1>1, <1>2, <1>5, <1>6, StoreStays DEF Entered, ToolsStay, cacheVars
<1>7. CASE /\ Refuse(c, FreshVerdict, "RATE_LIMITED", "rate_limited")
           /\ UNCHANGED <<limitVars, cacheVars>>
  <2>1. /\ Ledger!AnswerFits("RATE_LIMITED", "rate_limited") /\ Blames(FreshVerdict, "RATE_LIMITED")
        /\ "RATE_LIMITED" \in Outcomes \ {"CANCELLED"} /\ "rate_limited" \in Replies
    BY VerdictFacts DEF Ledger!AnswerFits, Blames, Outcomes, Replies
  <2>2. HandlersKept /\ LogOK' /\ slot' = slot
    BY <1>6, <1>7, <2>1, VerdictFacts, RefuseKeeps
  <2> QED BY <1>1, <1>4, <1>6, <1>7, <2>2, CountsStay DEF HandlersKept, PipelineInv
<1>8. CASE /\ r.tool \notin Allowed[PrincipalOf[c]]
           /\ Refuse(c, [RatePassed EXCEPT !.policy = "failed"], "POLICY_DENIED", "unknown_tool")
           /\ UNCHANGED <<limitVars, cacheVars>>
  <2>1. /\ Ledger!AnswerFits("POLICY_DENIED", "unknown_tool")
        /\ "POLICY_DENIED" \in Outcomes \ {"CANCELLED"}
        /\ "unknown_tool" \in Replies
    BY DEF Ledger!AnswerFits, Outcomes, Replies
  <2>2. Blames([RatePassed EXCEPT !.policy = "failed"], "POLICY_DENIED")
    BY RefusalFacts DEF Blames
  <2>3. HandlersKept /\ LogOK' /\ slot' = slot
    BY <1>6, <1>8, <2>1, <2>2, RefusalFacts, RefuseKeeps
  <2> QED BY <1>1, <1>4, <1>6, <1>8, <2>3, CountsStay DEF HandlersKept, PipelineInv
<1>9. CASE r.tool \in Allowed[PrincipalOf[c]] /\ Cache!Get(c) /\ AfterGet(c, r)
  <2>1. /\ StoreOK' /\ tools' = tools
        /\ \E s \in {"waiting", "fetching", "got"} : GetterMoves(c, s) /\ (s = "got" => tools # NoTools)
    BY <1>1, <1>9, GetMoves
  <2>2. PICK s \in {"waiting", "fetching", "got"} : GetterMoves(c, s) /\ (s = "got" => tools # NoTools)
    BY <2>1
  <2>3. getter'[c] = s /\ \A d \in Calls \ {c} : getter'[d] = getter[d]
    BY <1>1, <2>2, StoreTypes DEF GetterMoves
  <2>4. Entered(c, r, s)
    BY <1>2, <1>5, <2>1, <2>3 DEF Entered, ToolsStay
  <2>5. HandlersKept /\ LogOK' /\ CountsOK'
    BY <1>9, <2>1, <2>2, <2>4, AfterGetKeeps
  <2> QED BY <1>4, <2>1, <2>5 DEF HandlersKept, PipelineInv
<1> QED BY <1>3, <1>7, <1>8, <1>9

LEMMA DiscoverKeeps == ASSUME PipelineInv, NEW c \in Calls, Discover(c) PROVE PipelineInv'
<1>1. HandlersTyped /\ CallOK(c) /\ StoreOK /\ Rate!TokensTypeOK
  BY DEF PipelineInv
<1>2. /\ pc[c] = "discovering" /\ AfterGet(c, request[c]) /\ UNCHANGED <<request, tokens, faultVars>>
      /\ Cache!ResumeGet(c) \/ \E list \in UpstreamLists : Cache!FetchReturns(c, list)
  BY DEF Discover
<1>3. request[c] \in Requests /\ request[c].tool \in Allowed[PrincipalOf[c]]
  BY <1>1, <1>2 DEF CallOK, StageOK
<1>4. Rate!TokensTypeOK'
  BY <1>1, <1>2 DEF Rate!TokensTypeOK
<1>5. StoreOK' /\ ToolsStay /\ \E s \in {"waiting", "fetching", "got"} :
        GetterMoves(c, s) /\ (s = "got" => tools' # NoTools)
  <2>1. CASE Cache!ResumeGet(c)
    BY <1>1, <2>1, GetMoves DEF ToolsStay
  <2>2. ASSUME NEW list \in UpstreamLists, Cache!FetchReturns(c, list)
        PROVE  StoreOK' /\ ToolsStay /\ GetterMoves(c, "got") /\ tools' # NoTools
    BY <1>1, <2>2, FetchMoves DEF ToolsStay
  <2> QED BY <1>2, <2>1, <2>2
<1>6. PICK s \in {"waiting", "fetching", "got"} : GetterMoves(c, s) /\ (s = "got" => tools' # NoTools)
  BY <1>5
<1>7. getter'[c] = s /\ \A d \in Calls \ {c} : getter'[d] = getter[d]
  BY <1>1, <1>6, StoreTypes DEF GetterMoves
<1>8. Entered(c, request[c], s)
  BY <1>1, <1>2, <1>3, <1>5, <1>7 DEF Entered, HandlersTyped
<1>9. HandlersKept /\ LogOK' /\ CountsOK'
  BY <1>2, <1>3, <1>6, <1>8, AfterGetKeeps
<1> QED BY <1>4, <1>5, <1>9 DEF HandlersKept, PipelineInv

\* The end of the upstream call, cancelled or not.
LEMMA EndKeeps ==
  ASSUME PipelineInv, NEW c \in Calls, NEW outcome \in Outcomes, NEW ans \in Replies,
         pc[c] = "executing", Report(c, verdict[c], outcome, TRUE, ans),
         UNCHANGED <<request, remote, tokens, limitVars, cacheVars>>,
         UNCHANGED faultVars \/ CancelCount(c),
         outcome \notin {"RATE_LIMITED", "POLICY_DENIED", "SCHEMA_REJECTED", "CONCURRENCY_REJECTED"},
         outcome # "CANCELLED" => Ledger!AnswerFits(outcome, ans), ans # "unknown_tool"
  PROVE  PipelineInv'
<1>1. HandlersTyped /\ CallOK(c) /\ ListingOK /\ StoreOK /\ CountsOK /\ Rate!TokensTypeOK
  BY DEF PipelineInv
<1>2. verdict[c] \in Verdicts
  BY <1>1 DEF HandlersTyped
<1>3. Reported(c, verdict[c], outcome, TRUE, ans) /\ LogOK'
  BY <1>2, ReportMoves
<1>4. /\ cancels' \in [Calls -> Nat] /\ failures' = failures /\ cancels'[c] >= cancels[c]
      /\ \A d \in Calls \ {c} : cancels'[d] = cancels[d]
  BY <1>1 DEF HandlersTyped, CancelCount, faultVars
<1>5. ToolsStay /\ getter' = getter /\ tools' = tools
  BY DEF ToolsStay, cacheVars
<1>6. HandlersTyped' /\ ListingOK'
  BY <1>1, <1>3, <1>4, <1>5, ListingStays DEF HandlersTyped, Reported
<1>7. \A d \in Calls \ {c} : Still(d)
  BY <1>3, <1>4, <1>5 DEF Still, Reported
<1>8. PhaseOK(c)'
  BY <1>1, <1>3, <1>5 DEF CallOK, PhaseOK, Reported
<1>9. StageOK(c)'
  <2>1. /\ writer[Backstop(c)] = "idle" /\ remote[c] # "none" /\ slot[c] /\ verdict[c] = AllPassed
    BY <1>1 DEF CallOK, PhaseOK, StageOK
  <2>2. /\ writer'[Backstop(c)] = "idle" /\ remote'[c] # "none" /\ slot'[c] /\ tools' = tools
        /\ pc'[c] = "recording" /\ verdict'[c] = AllPassed /\ reply'[c] = ans /\ request' = request
        /\ record'[First(c)] = [outcome |-> outcome, attempted |-> TRUE, verdict |-> verdict[c]]
        /\ record'[First(c)] \in Records /\ writer'[First(c)] # "idle"
    BY <1>3, <1>5, <2>1 DEF Reported
  <2>3. Blames(AllPassed, outcome)
    BY DEF Blames
  <2> QED BY <1>1, <2>1, <2>2, <2>3 DEF CallOK, StageOK
<1>10. FaultsOK(c)'
  <2>1. /\ writer[First(c)] = "idle" /\ writer[Backstop(c)] = "idle"
        /\ cancels[c] \in Nat /\ cancels'[c] \in Nat /\ failures[c] \in Nat
    BY <1>1, <1>4 DEF CallOK, PhaseOK, HandlersTyped
  <2>2. /\ writer'[First(c)] # "cancelled" /\ writer'[Backstop(c)] = "idle" /\ getter'[c] = getter[c]
        /\ job'[First(c)] # "failed" /\ job'[Backstop(c)] = job[Backstop(c)]
    BY <1>3, <1>5, <2>1 DEF Reported
  <2> QED BY <1>1, <1>4, <2>1, <2>2 DEF CallOK, FaultsOK, One
<1>11. \A d \in Calls : CallOK(d)'
  BY <1>5, <1>7, <1>8, <1>9, <1>10, OthersKeep DEF CallOK
<1>12. StoreOK' /\ CountsOK' /\ Rate!TokensTypeOK'
  BY <1>1, <1>3, StoreStays, CountsStay DEF Reported, Rate!TokensTypeOK
<1> QED BY <1>3, <1>6, <1>11, <1>12 DEF PipelineInv

-----------------------------------------------------------------------------
\* What Guard leaves, with the backstop's emission begun, and the calls it leaves
\* alone; the first emission of c may have moved as well.
Guarded(c, outcome) ==
  /\ pc'[c] = "closing" /\ record'[First(c)] = record[First(c)]
  /\ record'[Backstop(c)] = [outcome |-> outcome, attempted |-> FALSE, verdict |-> verdict[c]]
  /\ record'[Backstop(c)] \in Records
  /\ \A d \in Calls \ {c} :
       /\ pc'[d] = pc[d]
       /\ record'[First(d)] = record[First(d)] /\ record'[Backstop(d)] = record[Backstop(d)]
       /\ writer'[First(d)] = writer[First(d)] /\ writer'[Backstop(d)] = writer[Backstop(d)]
       /\ job'[First(d)] = job[First(d)] /\ job'[Backstop(d)] = job[Backstop(d)]
  /\ pc' \in [Calls -> {"idle", "discovering", "executing", "recording", "closing",
                        "returned", "raised"}]
  /\ record' \in [Emissions -> Records \cup {NoRecord}]
  /\ UNCHANGED <<request, verdict, reply, listing, remote>>

LEMMA GuardMoves ==
  ASSUME PipelineInv, NEW c \in Calls, NEW outcome \in Outcomes, Guard(c, outcome),
         OnlyMoved({First(c), Backstop(c)})
  PROVE  Guarded(c, outcome)
<1> DEFINE r == [outcome |-> outcome, attempted |-> FALSE, verdict |-> verdict[c]]
<1>0. HandlersTyped
  BY DEF PipelineInv
<1>1. First(c) \in Emissions /\ Backstop(c) \in Emissions /\ First(c) # Backstop(c) /\ r \in Records
  BY <1>0, Names DEF HandlersTyped, Records
<1>2. record' = [record EXCEPT ![Backstop(c)] = r]
  BY DEF Guard
<1> HIDE DEF r
<1>3. \A e \in Emissions \ {First(c), Backstop(c)} :
        record'[e] = record[e] /\ writer'[e] = writer[e] /\ job'[e] = job[e]
  BY <1>0, <1>1, <1>2 DEF OnlyMoved, HandlersTyped
<1>4. /\ record'[Backstop(c)] = r /\ record'[First(c)] = record[First(c)]
      /\ record' \in [Emissions -> Records \cup {NoRecord}]
  BY <1>0, <1>1, <1>2 DEF HandlersTyped
<1>5. \A d \in Calls \ {c} : /\ First(d) \in Emissions \ {First(c), Backstop(c)}
                            /\ Backstop(d) \in Emissions \ {First(c), Backstop(c)}
  BY Names
<1>6. /\ pc'[c] = "closing" /\ \A d \in Calls \ {c} : pc'[d] = pc[d]
      /\ pc' \in [Calls -> {"idle", "discovering", "executing", "recording", "closing",
                            "returned", "raised"}]
      /\ UNCHANGED <<request, verdict, reply, listing, remote>>
  BY <1>0 DEF Guard, HandlersTyped
<1> QED BY <1>1, <1>3, <1>4, <1>5, <1>6 DEF Guarded, r

\* The tool cache fails the call, or the call is cancelled there.
LEMMA DiscoveryEndKeeps ==
  ASSUME PipelineInv, NEW c \in Calls, NEW outcome \in {"INTERNAL_ERROR", "CANCELLED"},
         pc[c] = "discovering", Guard(c, outcome), Audit!Emit(Backstop(c)),
         UNCHANGED <<slot, tokens, limitVars>>,
         \/ Cache!FetchRaises(c) /\ UNCHANGED faultVars
         \/ Cache!CancelGet(c) /\ CancelCount(c)
  PROVE  PipelineInv'
<1>1. HandlersTyped /\ CallOK(c) /\ ListingOK /\ LogOK /\ StoreOK /\ CountsOK /\ Rate!TokensTypeOK
  BY DEF PipelineInv
<1>2. Backstop(c) \in Emissions /\ First(c) \in Emissions /\ First(c) # Backstop(c)
  BY Names
<1>3. /\ LogOK' /\ OnlyMoved({Backstop(c)}) /\ writer'[Backstop(c)] \in {"waiting", "writing"}
      /\ job'[Backstop(c)] \in {"none", "queued"}
  BY <1>1, <1>2, EmitMoves
<1>4. Guarded(c, outcome)
  BY <1>3, GuardMoves DEF OnlyMoved, Outcomes
<1>5. writer'[First(c)] = writer[First(c)] /\ job'[First(c)] = job[First(c)]
  BY <1>2, <1>3 DEF OnlyMoved
<1>6. StoreOK' /\ tools' = tools /\ \E s \in {"raised", "cancelled"} : GetterMoves(c, s)
  BY <1>1, GetEndMoves
<1>7. /\ getter'[c] \in {"raised", "cancelled"} /\ \A d \in Calls \ {c} : getter'[d] = getter[d]
      /\ Cache!FetchRaises(c) => getter'[c] = "raised"
  BY <1>1, <1>6, StoreTypes, GetEndMoves DEF GetterMoves
<1>8. /\ cancels' \in [Calls -> Nat] /\ failures' = failures
      /\ cancels'[c] >= cancels[c] + One(getter'[c] = "cancelled")
      /\ \A d \in Calls \ {c} : cancels'[d] = cancels[d]
  BY <1>1, <1>7 DEF HandlersTyped, CancelCount, faultVars, One
<1>9. ToolsStay
  BY <1>6 DEF ToolsStay
<1>10. HandlersTyped' /\ ListingOK'
  BY <1>1, <1>4, <1>8, <1>9, ListingStays DEF HandlersTyped, Guarded
<1>11. \A d \in Calls \ {c} : Still(d)
  BY <1>4, <1>7, <1>8 DEF Still, Guarded
<1>12. PhaseOK(c)'
  BY <1>1, <1>3, <1>4, <1>5, <1>7 DEF CallOK, PhaseOK, Guarded
<1>13. StageOK(c)'
  <2>1. /\ writer[First(c)] = "idle" /\ remote[c] = "none" /\ ~slot[c]
    BY <1>1 DEF CallOK, PhaseOK, StageOK
  <2>2. /\ writer'[First(c)] = "idle" /\ remote'[c] = "none" /\ ~slot'[c] /\ pc'[c] = "closing"
    BY <1>4, <1>5, <2>1 DEF Guarded
  <2> QED BY <1>1, <1>4, <1>6, <2>1, <2>2 DEF CallOK, StageOK, Guarded
<1>14. FaultsOK(c)'
  <2>1. /\ cancels[c] \in Nat /\ cancels'[c] \in Nat /\ failures[c] \in Nat
        /\ writer[First(c)] = "idle" /\ writer[Backstop(c)] = "idle"
        /\ getter[c] # "cancelled"
    BY <1>1, <1>8 DEF CallOK, PhaseOK, HandlersTyped
  <2> QED BY <1>1, <1>3, <1>5, <1>8, <2>1 DEF CallOK, FaultsOK, One
<1>15. \A d \in Calls : CallOK(d)'
  BY <1>9, <1>11, <1>12, <1>13, <1>14, OthersKeep DEF CallOK
<1>16. CountsOK' /\ Rate!TokensTypeOK'
  BY <1>1, CountsStay DEF Rate!TokensTypeOK
<1> QED BY <1>3, <1>6, <1>10, <1>15, <1>16 DEF PipelineInv

\* The first emission fails or is cancelled, and the backstop's begins.
LEMMA RecordAgainKeeps ==
  ASSUME PipelineInv, NEW c \in Calls, RecordFails(c) \/ CancelRecording(c)
  PROVE  PipelineInv'
<1>1. HandlersTyped /\ CallOK(c) /\ ListingOK /\ LogOK /\ StoreOK /\ CountsOK /\ Rate!TokensTypeOK
  BY DEF PipelineInv
<1>2. Backstop(c) \in Emissions /\ First(c) \in Emissions /\ First(c) # Backstop(c)
  BY Names
<1>3. PICK outcome \in {"INTERNAL_ERROR", "CANCELLED"} : Guard(c, outcome)
  BY DEF RecordFails, CancelRecording
<1>4. /\ pc[c] = "recording" /\ ReleaseSlot(c) /\ UNCHANGED <<tokens, cacheVars>>
      /\ Audit!CancelThenEmit(First(c), Backstop(c)) \/ Audit!FailThenEmit(First(c), Backstop(c))
      /\ \/ CancelCount(c)
         \/ UNCHANGED faultVars /\ Audit!FailThenEmit(First(c), Backstop(c))
  BY DEF RecordFails, CancelRecording
<1>5. /\ LogOK' /\ OnlyMoved({First(c), Backstop(c)})
      /\ writer[First(c)] \in {"waiting", "writing"} /\ writer[Backstop(c)] = "idle"
      /\ writer'[First(c)] \in {"cancelled", "raised"}
      /\ Audit!FailThenEmit(First(c), Backstop(c)) => writer'[First(c)] = "raised"
      /\ writer'[Backstop(c)] \in {"waiting", "writing"}
      /\ job'[First(c)] \in {job[First(c)], "dropped"} /\ job'[Backstop(c)] \in {"none", "queued"}
  <2> DEFINE e == First(c)
             f == Backstop(c)
  <2>1. /\ e \in Emissions /\ f \in Emissions /\ e # f /\ LogOK
        /\ Audit!CancelThenEmit(e, f) \/ Audit!FailThenEmit(e, f)
    BY <1>1, <1>2, <1>4
  <2> HIDE DEF e, f
  <2>2. /\ LogOK' /\ OnlyMoved({e, f})
        /\ writer[e] \in {"waiting", "writing"} /\ writer[f] = "idle"
        /\ writer'[e] \in {"cancelled", "raised"}
        /\ Audit!FailThenEmit(e, f) => writer'[e] = "raised"
        /\ writer'[f] \in {"waiting", "writing"}
        /\ job'[e] \in {job[e], "dropped"} /\ job'[f] \in {"none", "queued"}
    BY <2>1, EmitAgainMoves
  <2> QED BY <2>2 DEF e, f
<1>6. Guarded(c, outcome)
  BY <1>3, <1>5, GuardMoves DEF Outcomes
<1>7. CountsOK' /\ slot' = [slot EXCEPT ![c] = FALSE]
  BY <1>1, <1>4, CountsFall DEF HandlersTyped
<1>8. /\ cancels' \in [Calls -> Nat] /\ failures' = failures
      /\ cancels'[c] >= cancels[c] + One(writer'[First(c)] = "cancelled")
      /\ \A d \in Calls \ {c} : cancels'[d] = cancels[d]
  BY <1>1, <1>4, <1>5 DEF HandlersTyped, CancelCount, faultVars, One
<1>9. ToolsStay /\ tools' = tools /\ getter' = getter
  BY <1>4 DEF ToolsStay, cacheVars
<1>10. HandlersTyped' /\ ListingOK'
  BY <1>1, <1>6, <1>7, <1>8, <1>9, ListingStays DEF HandlersTyped, Guarded
<1>11. \A d \in Calls \ {c} : Still(d)
  BY <1>1, <1>6, <1>7, <1>8, <1>9 DEF Still, Guarded, HandlersTyped
<1>12. PhaseOK(c)'
  BY <1>1, <1>4, <1>5, <1>6, <1>9 DEF CallOK, PhaseOK, Guarded
<1>13. StageOK(c)'
  <2>1. ~slot'[c] /\ pc'[c] = "closing"
    BY <1>1, <1>6, <1>7 DEF HandlersTyped, Guarded
  <2> QED BY <1>1, <1>5, <1>6, <1>9, <2>1 DEF CallOK, StageOK, Guarded
<1>14. FaultsOK(c)'
  <2>1. /\ cancels[c] \in Nat /\ cancels'[c] \in Nat /\ failures[c] \in Nat
    BY <1>1, <1>8 DEF HandlersTyped
  <2>2. cancels'[c] >= One(writer'[First(c)] = "cancelled") + One(writer'[Backstop(c)] = "cancelled")
                       + One(getter'[c] = "cancelled")
    <3>1. cancels[c] >= One(getter[c] = "cancelled") /\ writer'[Backstop(c)] # "cancelled"
      BY <1>1, <1>5, <2>1 DEF CallOK, FaultsOK, One
    <3> QED BY <1>8, <1>9, <2>1, <3>1 DEF One
  <2>3. failures'[c] >= One(job'[First(c)] = "failed") + One(job'[Backstop(c)] = "failed")
    <3>1. failures[c] >= One(job[First(c)] = "failed")
      BY <1>1, <2>1 DEF CallOK, FaultsOK, One
    <3>2. job'[Backstop(c)] # "failed" /\ (job'[First(c)] = "failed" => job[First(c)] = "failed")
      BY <1>5
    <3> QED BY <1>8, <2>1, <3>1, <3>2 DEF One
  <2> QED BY <2>2, <2>3 DEF FaultsOK
<1>15. \A d \in Calls : CallOK(d)'
  BY <1>9, <1>11, <1>12, <1>13, <1>14, OthersKeep DEF CallOK
<1>16. StoreOK' /\ Rate!TokensTypeOK'
  BY <1>1, <1>4, StoreStays DEF Rate!TokensTypeOK
<1> QED BY <1>5, <1>7, <1>10, <1>15, <1>16 DEF PipelineInv

-----------------------------------------------------------------------------
\* The last emission of c ends, and the handler with it.
LEMMA LastEndKeeps ==
  ASSUME PipelineInv, NEW c \in Calls, NEW e \in {First(c), Backstop(c)},
         NEW end \in {"returned", "raised"}, pc' = [pc EXCEPT ![c] = end], ~slot'[c],
         LogOK', OnlyMoved({e}), CountsOK', slot' \in [Calls -> BOOLEAN],
         \A d \in Calls \ {c} : slot'[d] = slot[d],
         UNCHANGED <<request, verdict, record, reply, listing, remote, tokens, cacheVars>>,
         \/ /\ pc[c] = "recording" /\ e = First(c) /\ writer'[e] = "returned" /\ job'[e] = job[e]
            /\ end = IF record[e].outcome = "CANCELLED" THEN "raised" ELSE "returned"
            /\ UNCHANGED faultVars
         \/ /\ pc[c] = "closing" /\ e = Backstop(c) /\ end = "raised"
            /\ writer'[e] \in {"returned", "raised"} /\ job'[e] = job[e] /\ UNCHANGED faultVars
         \/ /\ pc[c] = "closing" /\ e = Backstop(c) /\ end = "raised"
            /\ writer[e] # "cancelled" /\ writer'[e] = "cancelled"
            /\ job'[e] \in {job[e], "dropped"} /\ CancelCount(c)
  PROVE  PipelineInv'
<1>1. HandlersTyped /\ CallOK(c) /\ ListingOK /\ StoreOK /\ Rate!TokensTypeOK
  BY DEF PipelineInv
<1>2. Backstop(c) \in Emissions /\ First(c) \in Emissions /\ First(c) # Backstop(c)
  BY Names
<1>3. \A f \in Emissions \ {e} : writer'[f] = writer[f] /\ job'[f] = job[f]
  BY DEF OnlyMoved
<1>4. \A d \in Calls \ {c} : /\ First(d) \in Emissions \ {First(c), Backstop(c)}
                            /\ Backstop(d) \in Emissions \ {First(c), Backstop(c)}
  BY Names
<1>5. /\ cancels' \in [Calls -> Nat] /\ failures' = failures
      /\ cancels'[c] >= cancels[c] + One(writer'[e] = "cancelled")
      /\ \A d \in Calls \ {c} : cancels'[d] = cancels[d]
  BY <1>1 DEF HandlersTyped, CancelCount, faultVars, One
<1>6. ToolsStay /\ tools' = tools /\ getter' = getter
  BY DEF ToolsStay, cacheVars
<1>7. pc'[c] = end /\ \A d \in Calls \ {c} : pc'[d] = pc[d]
  BY <1>1 DEF HandlersTyped
<1>8. HandlersTyped' /\ ListingOK'
  BY <1>1, <1>5, <1>6, ListingStays DEF HandlersTyped
<1>9. \A d \in Calls \ {c} : Still(d)
  BY <1>3, <1>4, <1>5, <1>6, <1>7 DEF Still
<1>10. PhaseOK(c)'
  BY <1>1, <1>2, <1>3, <1>6, <1>7 DEF CallOK, PhaseOK
<1>11. StageOK(c)'
  <2>1. /\ writer[e] # "idle" /\ writer'[e] # "idle"
        /\ \A f \in {First(c), Backstop(c)} \ {e} : writer'[f] = writer[f]
    BY <1>1, <1>2, <1>3 DEF CallOK, PhaseOK
  <2> QED BY <1>1, <1>6, <1>7, <2>1 DEF CallOK, StageOK
<1>12. FaultsOK(c)'
  <2>1. /\ cancels[c] \in Nat /\ cancels'[c] \in Nat /\ failures[c] \in Nat
        /\ writer[e] # "cancelled" /\ (job'[e] = "failed" => job[e] = "failed")
        /\ \A f \in {First(c), Backstop(c)} \ {e} : writer'[f] = writer[f] /\ job'[f] = job[f]
    BY <1>1, <1>2, <1>3, <1>5 DEF CallOK, PhaseOK, HandlersTyped
  <2>2. CASE e = First(c)
    BY <1>1, <1>2, <1>5, <1>6, <2>1, <2>2 DEF CallOK, FaultsOK, One
  <2>3. CASE e = Backstop(c)
    BY <1>1, <1>2, <1>5, <1>6, <2>1, <2>3 DEF CallOK, FaultsOK, One
  <2> QED BY <2>2, <2>3
<1>13. \A d \in Calls : CallOK(d)'
  BY <1>6, <1>9, <1>10, <1>11, <1>12, OthersKeep DEF CallOK
<1>14. StoreOK' /\ Rate!TokensTypeOK'
  BY <1>1, StoreStays DEF Rate!TokensTypeOK
<1> QED BY <1>8, <1>13, <1>14 DEF PipelineInv

LEMMA RecordedKeeps == ASSUME PipelineInv, NEW c \in Calls, Recorded(c) PROVE PipelineInv'
<1>1. LogOK /\ CountsOK /\ slot \in [Calls -> BOOLEAN] /\ First(c) \in Emissions
  BY Names DEF PipelineInv, HandlersTyped
<1>2. /\ LogOK' /\ OnlyMoved({First(c)}) /\ job'[First(c)] = job[First(c)]
      /\ writer'[First(c)] = "returned"
  BY <1>1, EndMoves DEF Recorded
<1>3. CountsOK' /\ slot' = [slot EXCEPT ![c] = FALSE]
  BY <1>1, CountsFall DEF Recorded
<1>4. ~slot'[c] /\ slot' \in [Calls -> BOOLEAN] /\ \A d \in Calls \ {c} : slot'[d] = slot[d]
  BY <1>1, <1>3
<1> DEFINE end == IF record[First(c)].outcome = "CANCELLED" THEN "raised" ELSE "returned"
<1>5. /\ end \in {"returned", "raised"} /\ pc' = [pc EXCEPT ![c] = end] /\ pc[c] = "recording"
      /\ UNCHANGED <<request, verdict, record, reply, listing, remote, tokens, cacheVars>>
      /\ UNCHANGED faultVars
  BY DEF Recorded
<1> QED BY <1>2, <1>3, <1>4, <1>5, LastEndKeeps

LEMMA ClosingKeeps ==
  ASSUME PipelineInv, NEW c \in Calls, Closed(c) \/ CancelClosing(c) PROVE PipelineInv'
<1>1. LogOK /\ CountsOK /\ slot \in [Calls -> BOOLEAN] /\ Backstop(c) \in Emissions /\ CallOK(c)
  BY Names DEF PipelineInv, HandlersTyped
<1>2. /\ pc[c] = "closing" /\ pc' = [pc EXCEPT ![c] = "raised"] /\ slot' = slot
      /\ UNCHANGED <<request, verdict, record, reply, listing, remote, tokens, cacheVars>>
      /\ UNCHANGED limitVars
  BY DEF Closed, CancelClosing
<1>3. CountsOK' /\ ~slot'[c]
  BY <1>1, <1>2, CountsStay DEF CallOK, StageOK
<1>4. CASE Closed(c)
  <2>1. /\ LogOK' /\ OnlyMoved({Backstop(c)}) /\ job'[Backstop(c)] = job[Backstop(c)]
        /\ writer'[Backstop(c)] \in {"returned", "raised"}
    BY <1>1, <1>4, EndMoves DEF Closed
  <2> QED BY <1>1, <1>2, <1>3, <1>4, <2>1, LastEndKeeps DEF Closed
<1>5. CASE CancelClosing(c)
  <2>1. /\ LogOK' /\ OnlyMoved({Backstop(c)}) /\ writer[Backstop(c)] # "cancelled"
        /\ writer'[Backstop(c)] = "cancelled" /\ job'[Backstop(c)] \in {job[Backstop(c)], "dropped"}
    BY <1>1, <1>5, CancelMoves DEF CancelClosing
  <2> QED BY <1>1, <1>2, <1>3, <1>5, <2>1, LastEndKeeps DEF CancelClosing
<1> QED BY <1>4, <1>5

-----------------------------------------------------------------------------
LEMMA UpstreamFinishesKeeps ==
  ASSUME PipelineInv, NEW c \in Calls, UpstreamFinishes(c) PROVE PipelineInv'
<1>1. HandlersTyped /\ CallOK(c) /\ ListingOK /\ LogOK /\ StoreOK /\ CountsOK /\ Rate!TokensTypeOK
  BY DEF PipelineInv
<1>2. /\ remote[c] = "executing" /\ remote' = [remote EXCEPT ![c] = "finished"]
      /\ UNCHANGED <<pc, request, verdict, slot, record, reply, listing>>
      /\ UNCHANGED <<cancels, failures, tokens, limitVars, cacheVars, auditVars, tools, getter, writer, job>>
  BY DEF UpstreamFinishes, handlerVars, faultVars, cacheVars, auditVars
<1>3. /\ remote'[c] = "finished" /\ \A d \in Calls \ {c} : remote'[d] = remote[d]
      /\ remote' \in [Calls -> {"none", "executing", "finished"}]
  BY <1>1, <1>2 DEF HandlersTyped
<1>4. ToolsStay
  BY <1>2 DEF ToolsStay
<1>5. HandlersTyped' /\ ListingOK'
  BY <1>1, <1>2, <1>3, <1>4, ListingStays DEF HandlersTyped
<1>6. \A d \in Calls \ {c} : Still(d)
  BY <1>2, <1>3 DEF Still
<1>7. PhaseOK(c)' /\ FaultsOK(c)'
  BY <1>1, <1>2 DEF CallOK, PhaseOK, FaultsOK
<1>8. StageOK(c)'
  BY <1>1, <1>2, <1>3 DEF CallOK, StageOK
<1>9. \A d \in Calls : CallOK(d)'
  BY <1>4, <1>6, <1>7, <1>8, OthersKeep DEF CallOK
<1>10. LogOK' /\ StoreOK' /\ CountsOK' /\ Rate!TokensTypeOK'
  BY <1>1, <1>2, LogStays, StoreStays, CountsStay DEF Rate!TokensTypeOK
<1> QED BY <1>5, <1>9, <1>10 DEF PipelineInv

\* The lock's hand-over and the threads' work move one emission and nothing else;
\* a write that fails is counted.
LEMMA EmissionKeeps ==
  ASSUME PipelineInv, NEW e \in Emissions, AuditMoves(e) \/ WriteFails(e) PROVE PipelineInv'
<1> DEFINE c == e[1]
<1>1. HandlersTyped /\ CallOK(c) /\ ListingOK /\ LogOK /\ StoreOK /\ CountsOK /\ Rate!TokensTypeOK
  BY Names DEF PipelineInv
<1>2. /\ c \in Calls /\ e \in {First(c), Backstop(c)}
      /\ First(c) \in Emissions /\ Backstop(c) \in Emissions /\ First(c) # Backstop(c)
      /\ \A d \in Calls \ {c} : First(d) \in Emissions \ {e} /\ Backstop(d) \in Emissions \ {e}
  BY Names
<1>3. /\ UNCHANGED <<pc, request, verdict, slot, record, reply, listing>>
      /\ UNCHANGED <<remote, cancels, tokens, limitVars, cacheVars, tools, getter>>
  BY DEF AuditMoves, WriteFails, handlerVars, faultVars, cacheVars
<1>4. /\ LogOK' /\ OnlyMoved({e})
      /\ writer'[e] = writer[e] \/ (writer[e] = "waiting" /\ writer'[e] = "writing")
      /\ job[e] # "failed"
      /\ AuditMoves(e) => job'[e] # "failed"
  <2>1. ASSUME Audit!TakeTurn(e)
        PROVE  /\ LogOK' /\ OnlyMoved({e}) /\ writer[e] = "waiting" /\ writer'[e] = "writing"
               /\ job[e] # "failed" /\ job'[e] # "failed"
    BY <1>1, <2>1, TurnMoves, LogTypes
  <2>2. ASSUME Audit!ThreadStarts(e) \/ Audit!ThreadAppends(e)
        PROVE  /\ LogOK' /\ OnlyMoved({e}) /\ writer' = writer
               /\ job[e] # "failed" /\ job'[e] # "failed"
    <3>1. job'[e] # "failed"
      BY <1>1, <2>2, LogTypes DEF Audit!ThreadStarts, Audit!ThreadAppends
    <3> QED BY <1>1, <2>2, <3>1, ThreadMoves
  <2>3. ASSUME Audit!ThreadFails(e)
        PROVE  LogOK' /\ OnlyMoved({e}) /\ writer' = writer /\ job[e] # "failed"
    BY <1>1, <2>3, ThreadMoves
  <2>4. AuditMoves(e) => Audit!TakeTurn(e) \/ Audit!ThreadStarts(e) \/ Audit!ThreadAppends(e)
    BY DEF AuditMoves
  <2>5. WriteFails(e) => Audit!ThreadFails(e)
    BY DEF WriteFails
  <2> QED BY <2>1, <2>2, <2>3, <2>4, <2>5
<1>5. /\ failures' \in [Calls -> Nat] /\ failures'[c] >= failures[c] + One(job'[e] = "failed")
      /\ \A d \in Calls \ {c} : failures'[d] = failures[d]
  <2>1. CASE AuditMoves(e)
    BY <1>1, <1>2, <1>4, <2>1 DEF AuditMoves, faultVars, HandlersTyped, One
  <2>2. CASE WriteFails(e)
    <3> HIDE DEF c
    <3>1. failures' = [failures EXCEPT ![c] = failures[c] + 1]
      BY <2>2 DEF WriteFails, c
    <3> QED BY <1>1, <1>2, <3>1 DEF HandlersTyped, One
  <2> QED BY <2>1, <2>2
<1> HIDE DEF c
<1>6. ToolsStay
  BY <1>3 DEF ToolsStay
<1>7. HandlersTyped' /\ ListingOK'
  BY <1>1, <1>3, <1>5, <1>6, ListingStays DEF HandlersTyped
<1>8. \A f \in Emissions \ {e} : writer'[f] = writer[f] /\ job'[f] = job[f]
  BY <1>4 DEF OnlyMoved
<1>9. \A d \in Calls \ {c} : Still(d)
  BY <1>2, <1>3, <1>5, <1>8 DEF Still
<1>10. PhaseOK(c)'
  BY <1>1, <1>2, <1>3, <1>4, <1>8 DEF CallOK, PhaseOK
<1>11. StageOK(c)'
  BY <1>1, <1>2, <1>3, <1>4, <1>8 DEF CallOK, StageOK
<1>12. FaultsOK(c)'
  <2>1. /\ cancels[c] \in Nat /\ failures'[c] \in Nat /\ failures[c] \in Nat
        /\ \A f \in {First(c), Backstop(c)} \ {e} : writer'[f] = writer[f] /\ job'[f] = job[f]
    BY <1>1, <1>2, <1>5, <1>8 DEF HandlersTyped
  <2>2. \A f \in {First(c), Backstop(c)} : writer'[f] = "cancelled" => writer[f] = "cancelled"
    BY <1>4, <2>1
  <2>3. CASE e = First(c)
    BY <1>1, <1>2, <1>3, <1>4, <1>5, <2>1, <2>2, <2>3 DEF CallOK, FaultsOK, One
  <2>4. CASE e = Backstop(c)
    BY <1>1, <1>2, <1>3, <1>4, <1>5, <2>1, <2>2, <2>4 DEF CallOK, FaultsOK, One
  <2> QED BY <1>2, <2>3, <2>4
<1>13. \A d \in Calls : CallOK(d)'
  BY <1>2, <1>6, <1>9, <1>10, <1>11, <1>12, OthersKeep DEF CallOK
<1>14. StoreOK' /\ CountsOK' /\ Rate!TokensTypeOK'
  BY <1>1, <1>3, StoreStays, CountsStay DEF Rate!TokensTypeOK
<1> QED BY <1>4, <1>7, <1>13, <1>14 DEF PipelineInv

\* tools/list: a step of its get() moves no call, and shows what the cache holds.
LEMMA ListKeeps ==
  ASSUME PipelineInv, NEW l \in Listers, BeginList(l) \/ ContinueList(l) \/ ListFails(l)
  PROVE  PipelineInv'
<1>1. HandlersTyped /\ ListingOK /\ LogOK /\ StoreOK /\ CountsOK /\ Rate!TokensTypeOK
  BY DEF PipelineInv
<1>2. /\ listing' = IF getter'[l] = "got"
                    THEN [listing EXCEPT ![l] = tools' \cap Allowed[PrincipalOf[l]]]
                    ELSE listing
      /\ UNCHANGED <<pc, request, verdict, slot, record, reply, remote, cancels, failures, tokens>>
      /\ UNCHANGED <<limitVars, writer, job>> /\ UNCHANGED auditVars
  BY DEF BeginList, ContinueList, ListFails, AfterListGet, faultVars, auditVars
<1>3. StoreOK' /\ ToolsStay /\ \E s \in {"waiting", "fetching", "got", "raised", "cancelled"} :
        GetterMoves(l, s) /\ (s = "got" => tools' # NoTools)
  <2>1. CASE Cache!Get(l) \/ Cache!ResumeGet(l)
    BY <1>1, <2>1, GetMoves DEF ToolsStay
  <2>2. ASSUME NEW list \in UpstreamLists, Cache!FetchReturns(l, list)
        PROVE  StoreOK' /\ ToolsStay /\ GetterMoves(l, "got") /\ tools' # NoTools
    BY <1>1, <2>2, FetchMoves DEF ToolsStay
  <2>3. CASE Cache!FetchRaises(l) \/ Cache!CancelGet(l)
    BY <1>1, <2>3, GetEndMoves DEF ToolsStay
  <2> QED BY <2>1, <2>2, <2>3 DEF BeginList, ContinueList, ListFails
<1>4. /\ getter'[l] = "got" => tools' # NoTools
      /\ \A c \in Calls : getter'[c] = getter[c]
  BY <1>1, <1>3, StoreTypes, PipelineAssumption DEF GetterMoves
<1>5. \A c \in Calls : Still(c)
  BY <1>2, <1>4 DEF Still
<1>6. \A c \in Calls : CallOK(c)'
  BY <1>3, <1>5, StillKeeps DEF PipelineInv
<1>7. listing' \in [Listers -> SUBSET Tools]
  <2>1. Allowed[PrincipalOf[l]] \subseteq Tools
    BY PipelineAssumption
  <2> QED BY <1>1, <1>2, <2>1 DEF HandlersTyped
<1>8. ListingOK'
  <2> SUFFICES ASSUME NEW m \in Listers, listing'[m] # {}
               PROVE  tools' # NoTools /\ listing'[m] \subseteq tools' \cap Allowed[PrincipalOf[m]]
    BY DEF ListingOK
  <2>1. CASE m = l /\ getter'[l] = "got"
    BY <1>1, <1>2, <1>4, <2>1 DEF HandlersTyped
  <2>2. CASE ~(m = l /\ getter'[l] = "got")
    <3>1. listing'[m] = listing[m]
      BY <1>1, <1>2, <2>2 DEF HandlersTyped
    <3> QED BY <1>1, <1>3, <3>1 DEF ListingOK, ToolsStay
  <2> QED BY <2>1, <2>2
<1>9. HandlersTyped' /\ CountsOK' /\ LogOK' /\ Rate!TokensTypeOK'
  BY <1>1, <1>2, <1>7, CountsStay, LogStays DEF HandlersTyped, Rate!TokensTypeOK
<1> QED BY <1>3, <1>6, <1>8, <1>9 DEF PipelineInv

LEMMA RestKeeps ==
  ASSUME PipelineInv, UNCHANGED <<handlerVars, remote, faultVars, limitVars, cacheVars, auditVars>>,
         Rate!TokensTypeOK'
  PROVE  PipelineInv'
<1>1. HandlersTyped /\ ListingOK /\ LogOK /\ StoreOK /\ CountsOK
  BY DEF PipelineInv
<1>2. /\ UNCHANGED <<pc, request, verdict, slot, record, reply, listing, remote, cancels, failures>>
      /\ UNCHANGED <<tools, getter, writer, job>>
      /\ UNCHANGED cacheVars /\ UNCHANGED auditVars /\ UNCHANGED limitVars
  BY DEF handlerVars, faultVars, cacheVars, auditVars, limitVars
<1>3. ToolsStay /\ \A c \in Calls : Still(c)
  BY <1>2 DEF Still, ToolsStay
<1>4. \A c \in Calls : CallOK(c)'
  BY <1>3, StillKeeps DEF PipelineInv
<1>5. HandlersTyped' /\ ListingOK' /\ LogOK' /\ StoreOK' /\ CountsOK'
  BY <1>1, <1>2, <1>3, ListingStays, LogStays, StoreStays, CountsStay DEF HandlersTyped
<1> QED BY <1>4, <1>5 DEF PipelineInv

LEMMA PipelineNext == ASSUME PipelineInv, [Next]_vars PROVE PipelineInv'
<1>1. ASSUME NEW c \in Calls, CallStep(c) PROVE PipelineInv'
  <2>1. ASSUME DiscoveryFails(c) \/ CancelDiscovery(c) PROVE PipelineInv'
    <3>1. CASE DiscoveryFails(c)
      BY <3>1, DiscoveryEndKeeps DEF DiscoveryFails
    <3>2. CASE CancelDiscovery(c)
      BY <3>2, DiscoveryEndKeeps DEF CancelDiscovery
    <3> QED BY <2>1, <3>1, <3>2
  <2>2. ASSUME NEW outcome \in {"UPSTREAM_SUCCESS", "UPSTREAM_ERROR", "UPSTREAM_TIMEOUT"}, NEW ans,
               Ledger!AnswerFits(outcome, ans), ans \in Replies, ans # "unknown_tool",
               EndOfCall(c, outcome, ans)
        PROVE  PipelineInv'
    <3>1. outcome \in Outcomes
      BY DEF Outcomes
    <3> QED BY <2>2, <3>1, EndKeeps DEF EndOfCall
  <2>3. /\ Ledger!AnswerFits("UPSTREAM_SUCCESS", "result") /\ "result" \in Replies
        /\ Ledger!AnswerFits("UPSTREAM_ERROR", "upstream_failed") /\ "upstream_failed" \in Replies
        /\ Ledger!AnswerFits("UPSTREAM_TIMEOUT", "timed_out") /\ "timed_out" \in Replies
    BY DEF Ledger!AnswerFits, Replies
  <2>4. ASSUME UpstreamAnswers(c) \/ UpstreamRaises(c) \/ TimesOut(c) PROVE PipelineInv'
    BY <2>2, <2>3, <2>4 DEF UpstreamAnswers, UpstreamRaises, TimesOut
  <2>5. ASSUME CancelUpstream(c) PROVE PipelineInv'
    <3>1. "CANCELLED" \in Outcomes /\ "none" \in Replies
      BY DEF Outcomes, Replies
    <3> QED BY <2>5, <3>1, EndKeeps DEF CancelUpstream
  <2> QED BY <1>1, <2>1, <2>4, <2>5, BeginKeeps, DiscoverKeeps, RecordAgainKeeps, RecordedKeeps,
             ClosingKeeps, UpstreamFinishesKeeps DEF CallStep
<1>2. ASSUME UNCHANGED vars PROVE PipelineInv'
  <2>1. UNCHANGED <<handlerVars, remote, faultVars, limitVars, cacheVars, auditVars>> /\ tokens' = tokens
    BY <1>2 DEF vars
  <2>2. Rate!TokensTypeOK'
    BY <2>1 DEF PipelineInv, Rate!TokensTypeOK
  <2> QED BY <2>1, <2>2, RestKeeps
<1> QED BY <1>1, <1>2, ListKeeps, EmissionKeeps DEF Next, Settled

-----------------------------------------------------------------------------
\* The inductive invariant holds in every reachable state.
THEOREM PipelineInvariance == Spec => []PipelineInv
BY PipelineInit, PipelineNext, PTL DEF Spec

\* Every variable of the handlers and of the components they share keeps its type.
THEOREM PipelineTypes == Spec => []PipelineTypeOK
BY PipelineInvariance, TypesFollow, PTL

\* A caller who gets a reply finds it in the audit file, in one line
\* (bridge.py:205-208).
THEOREM RepliesAreRecorded == Spec => []ReplyHasOneRecord
BY PipelineInvariance, RecordFollows, PTL

\* One fault of any kind never makes a call vanish from the file
\* (bridge.py:341-348).
THEOREM FaultsAreSurvived == Spec => []OneFaultLosesNoRecord
BY PipelineInvariance, RecordFollows, PTL

\* A call that was never cancelled is not recorded twice (bridge.py:261, 345-348).
THEOREM NoDoubleRecords == Spec => []UncancelledRecordedOnce
BY PipelineInvariance, RecordFollows, PTL

\* A record tells the stage that ended the call, and only calls that passed every
\* stage reach the upstream (bridge.py:266-340).
THEOREM RecordsAreTruthful == Spec => []RecordsTellTheStage
BY PipelineInvariance, StagesFollow, PTL

\* Contact with the upstream is on record unless the first emission itself was
\* lost (bridge.py:325-347).
THEOREM ContactsAreRecorded == Spec => []ContactIsRecorded
BY PipelineInvariance, StagesFollow, PTL

\* The counters are the slots taken, at most the ceiling (bridge.py:308-340).
THEOREM CeilingIsKept == Spec => []SlotsAccounted
BY PipelineInvariance, StagesFollow, PTL

\* No principal is told that a tool it was shown is unknown (bridge.py:174-176,
\* 282-289).
THEOREM ListingsAreHonoured == Spec => []ListedToolsAreKnown
BY PipelineInvariance, ListingsFollow, PTL

\* When every call has ended nothing is held (bridge.py:79, 308; audit.py:184).
THEOREM AllIsReleased == Spec => []NothingLeftHeld
BY PipelineInvariance, QuietFollows, PTL

-----------------------------------------------------------------------------
\* The gateway implements CallLedger.  A step of a handler writes no line, and touches
\* records that are not written; only its own call's reply and faults change.
LedgerLines == [i \in DOMAIN file |-> [call |-> file[i][1], outcome |-> record[file[i]].outcome]]
LedgerTold == [c \in Calls |-> Told(c)]
LedgerFaults == [c \in Calls |-> Faults(c)]
LedgerCancelled == {c \in Calls : cancels[c] > 0}

LEMMA LedgerNames == \A c : Ledger!LinesOf(c) = LinesOf(c)
BY DEF Ledger!LinesOf, LinesOf

\* The records of the lines stay, and of all calls only c moves.
LinesStay == file' = file /\ \A i \in DOMAIN file : record'[file[i]] = record[file[i]]

OnlyTold(c) ==
  \A d \in Calls \ {c} :
    /\ pc'[d] = pc[d] /\ reply'[d] = reply[d] /\ getter'[d] = getter[d]
    /\ cancels'[d] = cancels[d] /\ failures'[d] = failures[d]

NoFault(c) ==
  /\ cancels'[c] = cancels[c] /\ failures'[c] = failures[c]
  /\ getter'[c] = "raised" <=> getter[c] = "raised"

OneFault(c) ==
  \/ /\ cancels'[c] = cancels[c] + 1 /\ failures'[c] = failures[c]
     /\ getter'[c] = "raised" <=> getter[c] = "raised"
  \/ /\ cancels'[c] = cancels[c] /\ failures'[c] = failures[c] + 1
     /\ getter'[c] = "raised" <=> getter[c] = "raised"
  \/ /\ cancels'[c] = cancels[c] /\ failures'[c] = failures[c]
     /\ getter'[c] = "raised" /\ getter[c] # "raised"

LEMMA LinesStayLedger == LinesStay => LedgerLines' = LedgerLines
BY DEF LinesStay, LedgerLines

LEMMA QuietStep ==
  ASSUME LinesStay, \A c \in Calls : NoFault(c) /\ pc'[c] = pc[c] /\ reply'[c] = reply[c]
  PROVE  UNCHANGED Ledger!ledgerVars
<1>1. \A c \in Calls : Told(c)' = Told(c) /\ Faults(c)' = Faults(c)
  BY DEF Told, Faults, NoFault
<1>2. LedgerTold' = LedgerTold /\ LedgerFaults' = LedgerFaults
  BY <1>1 DEF LedgerTold, LedgerFaults
<1>3. LedgerCancelled' = LedgerCancelled
  BY DEF LedgerCancelled, NoFault
<1> QED BY <1>2, <1>3, LinesStayLedger DEF Ledger!ledgerVars, LedgerLines, LedgerTold, LedgerFaults,
     LedgerCancelled

LEMMA FaultsCounted ==
  ASSUME PipelineInv, PipelineInv', NEW c \in Calls, OnlyTold(c)
  PROVE  /\ NoFault(c) => UNCHANGED <<LedgerFaults, LedgerCancelled>>
         /\ OneFault(c) => Ledger!Hit(c)
<1>1. /\ \A d \in Calls : cancels[d] \in Nat /\ failures[d] \in Nat
      /\ \A d \in Calls \ {c} : Faults(d)' = Faults(d)
  BY DEF OnlyTold, Faults, PipelineInv, HandlersTyped
<1>2. ASSUME NoFault(c) PROVE UNCHANGED <<LedgerFaults, LedgerCancelled>>
  BY <1>1, <1>2 DEF NoFault, OnlyTold, LedgerFaults, Faults, LedgerCancelled
<1>3. ASSUME OneFault(c) PROVE Ledger!Hit(c)
  <2>1. Faults(c)' = Faults(c) + 1
    BY <1>1, <1>3 DEF OneFault, Faults
  <2>2. LedgerFaults' = [LedgerFaults EXCEPT ![c] = @ + 1]
    BY <1>1, <2>1 DEF LedgerFaults
  <2>3. LedgerCancelled' \in {LedgerCancelled, LedgerCancelled \cup {c}}
    BY <1>1, <1>3 DEF LedgerCancelled, OneFault, OnlyTold
  <2> QED BY <2>2, <2>3 DEF Ledger!Hit, LedgerFaults, LedgerCancelled
<1> QED BY <1>2, <1>3

\* A step that ends no call, with or without a fault.
LEMMA FaultStep ==
  ASSUME PipelineInv, PipelineInv', NEW c \in Calls, LinesStay, OnlyTold(c),
         Told(c)' = Told(c), NoFault(c) \/ OneFault(c)
  PROVE  [Ledger!LedgerNext]_Ledger!ledgerVars
<1>1. LedgerTold' = LedgerTold
  <2>1. \A d \in Calls : Told(d)' = Told(d)
    BY DEF OnlyTold, Told
  <2> QED BY <2>1 DEF LedgerTold
<1>2. LedgerLines' = LedgerLines
  BY LinesStayLedger
<1>3. CASE NoFault(c)
  BY <1>1, <1>2, <1>3, FaultsCounted DEF Ledger!ledgerVars, LedgerLines, LedgerTold, LedgerFaults,
       LedgerCancelled
<1>4. CASE OneFault(c)
  <2>1. Ledger!Hit(c)
    BY <1>4, FaultsCounted
  <2> QED BY <1>1, <1>2, <2>1 DEF Ledger!LedgerNext, LedgerLines, LedgerTold
<1> QED BY <1>3, <1>4

LEMMA RecordFollowsNext ==
  PipelineInv' => ReplyHasOneRecord' /\ OneFaultLosesNoRecord' /\ UncancelledRecordedOnce'
BY RecordFollows, PTL

\* A step of the handler of c: it goes on, or returns its reply, or raises.
LEMMA HandlerStep ==
  ASSUME PipelineInv, PipelineInv', NEW c \in Calls, ~Ended(c), LinesStay, OnlyTold(c),
         NoFault(c) \/ OneFault(c), pc'[c] = "returned" => NoFault(c)
  PROVE  [Ledger!LedgerNext]_Ledger!ledgerVars
<1>1. Told(c) = "nothing" /\ LedgerLines' = LedgerLines /\ LinesOf(c)' = LinesOf(c)
  BY LinesStayLedger DEF Told, Ended, LinesOf, LinesStay
<1>2. LedgerTold' = [LedgerTold EXCEPT ![c] = Told(c)']
  <2>1. \A d \in Calls \ {c} : Told(d)' = Told(d)
    BY DEF OnlyTold, Told
  <2> QED BY <2>1 DEF LedgerTold
<1>3. CASE ~Ended(c)'
  <2>1. Told(c)' = Told(c)
    BY <1>1, <1>3 DEF Told, Ended
  <2> QED BY <2>1, FaultStep
<1>4. CASE pc'[c] = "returned"
  <2>1. Told(c)' = reply'[c] /\ reply'[c] \in Replies
    BY <1>4 DEF Told, PipelineInv, HandlersTyped
  <2>2. PICK i \in LinesOf(c) : LinesOf(c) = {i} /\ file[i] = First(c)
                                /\ Ledger!AnswerFits(record'[First(c)].outcome, reply'[c])
    BY <1>1, <1>4, RecordFollowsNext DEF ReplyHasOneRecord, LinesStay
  <2>3. LedgerLines[i].outcome = record'[First(c)].outcome
    BY <2>2 DEF LinesStay, LedgerLines, LinesOf
  <2>4. Ledger!LinesOf(c) = {i} /\ Ledger!AnswerFits(LedgerLines[i].outcome, reply'[c])
    BY <2>2, <2>3, LedgerNames
  <2>5. UNCHANGED <<LedgerFaults, LedgerCancelled>>
    BY <1>4, FaultsCounted
  <2>6. Ledger!Answer(c, reply'[c])
    BY <1>1, <1>2, <2>1, <2>4, <2>5
       DEF Ledger!Answer, LedgerTold, LedgerLines, LedgerFaults, LedgerCancelled
  <2> QED BY <2>1, <2>6 DEF Ledger!LedgerNext
<1>5. CASE pc'[c] = "raised"
  <2>1. Told(c)' = "raised" /\ Faults(c)' \in Nat
    BY <1>5 DEF Told, Faults, PipelineInv, HandlersTyped
  <2>2. Ledger!LinesOf(c) # {} \/ Faults(c)' > 1
    BY <1>1, <1>5, <2>1, RecordFollowsNext, LedgerNames DEF OneFaultLosesNoRecord, Ended
  <2>3. Ledger!Hit(c) \/ UNCHANGED <<LedgerFaults, LedgerCancelled>>
    BY FaultsCounted
  <2>4. LedgerFaults'[c] = Faults(c)'
    BY DEF LedgerFaults
  <2>5. Ledger!Raise(c)
    BY <1>1, <1>2, <2>1, <2>2, <2>3, <2>4
       DEF Ledger!Raise, LedgerTold, LedgerLines, LedgerFaults, LedgerCancelled
  <2> QED BY <2>5 DEF Ledger!LedgerNext
<1> QED BY <1>3, <1>4, <1>5 DEF Ended

-----------------------------------------------------------------------------
\* What each part of a handler's step does that the ledger shows.
ShowsOnly(c) == LinesStay /\ \A d \in Calls \ {c} : pc'[d] = pc[d] /\ reply'[d] = reply[d]

\* A record that is written is on its way or in the file: a new one is of an emission
\* that has not begun.
LEMMA NewRecord ==
  ASSUME PipelineInv, NEW e \in Emissions, writer[e] = "idle", NEW r,
         record' = [record EXCEPT ![e] = r], file' = file
  PROVE  LinesStay
<1>1. \A i \in DOMAIN file : file[i] \in Emissions /\ job[file[i]] = "ok"
  <2>1. /\ file \in Seq(Emissions)
        /\ \A d \in Emissions : job[d] = "ok" <=> \E i \in DOMAIN file : file[i] = d
    BY DEF PipelineInv, LogOK, AP!AuditInv, AP!AuditOK, AP!LinesOK
  <2>2. \A i \in DOMAIN file : file[i] \in Emissions
    BY <2>1
  <2> QED BY <2>1, <2>2
<1>2. job[e] # "ok"
  BY LogTypes DEF PipelineInv
<1> QED BY <1>1, <1>2 DEF PipelineInv, HandlersTyped, LinesStay

LEMMA ReportShows ==
  ASSUME PipelineInv, NEW c \in Calls, NEW v, NEW outcome, NEW attempted, NEW ans,
         Report(c, v, outcome, attempted, ans)
  PROVE  ShowsOnly(c) /\ pc'[c] = "recording"
<1>1. First(c) \in Emissions /\ writer[First(c)] = "idle" /\ file' = file
  BY Names DEF Report, Audit!Emit, Audit!Reach
<1>2. LinesStay
  BY <1>1, NewRecord DEF Report
<1> QED BY <1>2 DEF Report, ShowsOnly, PipelineInv, HandlersTyped

LEMMA StayShows ==
  ASSUME PipelineInv, NEW c \in Calls, NEW p, pc' = [pc EXCEPT ![c] = p],
         UNCHANGED <<record, reply, file>>
  PROVE  ShowsOnly(c) /\ pc'[c] = p
BY DEF PipelineInv, HandlersTyped, ShowsOnly, LinesStay

LEMMA AfterGetShows ==
  ASSUME PipelineInv, NEW c \in Calls, NEW r, AfterGet(c, r)
  PROVE  ShowsOnly(c) /\ ~Ended(c)'
<1>1. ASSUME Judge(c, r, tools') PROVE ShowsOnly(c) /\ ~Ended(c)'
  <2>1. ASSUME Forward(c) PROVE ShowsOnly(c) /\ ~Ended(c)'
    <3>1. pc' = [pc EXCEPT ![c] = "executing"] /\ UNCHANGED <<record, reply, file>>
      BY <2>1 DEF Forward, auditVars
    <3>2. ShowsOnly(c) /\ pc'[c] = "executing"
      BY <3>1, StayShows
    <3> QED BY <3>2 DEF Ended
  <2>2. ASSUME NEW v, NEW outcome, NEW ans, Refuse(c, v, outcome, ans)
        PROVE  ShowsOnly(c) /\ ~Ended(c)'
    BY <2>2, ReportShows DEF Refuse, Ended
  <2>3. Forward(c) \/ \E v, outcome, ans : Refuse(c, v, outcome, ans)
    <3>1. ASSUME NEW acquired \in BOOLEAN,
                 \/ acquired /\ Forward(c)
                 \/ /\ ~acquired
                    /\ Refuse(c, [PolicyPassed EXCEPT !.concurrency = "failed"],
                              "CONCURRENCY_REJECTED", "concurrency_rejected")
          PROVE  Forward(c) \/ \E v, outcome, ans : Refuse(c, v, outcome, ans)
      BY <3>1
    <3> QED BY <1>1, <3>1 DEF Judge
  <2> QED BY <2>1, <2>2, <2>3
<1>2. CASE ~Judge(c, r, tools')
  BY <1>2, StayShows DEF AfterGet, auditVars, Ended
<1> QED BY <1>1, <1>2

LEMMA GuardShows ==
  ASSUME PipelineInv, NEW c \in Calls, NEW outcome, Guard(c, outcome),
         writer[Backstop(c)] = "idle", file' = file
  PROVE  ShowsOnly(c) /\ ~Ended(c)'
<1>1. LinesStay
  BY Names, NewRecord DEF Guard
<1> QED BY <1>1 DEF Guard, ShowsOnly, Ended, PipelineInv, HandlersTyped

-----------------------------------------------------------------------------
\* What happens to c's own faults, and to the other calls' in its step.
LEMMA CountFaults ==
  ASSUME PipelineInv, NEW c \in Calls, CancelCount(c) \/ UNCHANGED faultVars, getter' = getter
  PROVE  /\ \A d \in Calls \ {c} :
              cancels'[d] = cancels[d] /\ failures'[d] = failures[d] /\ getter'[d] = getter[d]
         /\ CancelCount(c) => OneFault(c)
         /\ UNCHANGED faultVars => NoFault(c)
BY DEF PipelineInv, HandlersTyped, CancelCount, faultVars, OneFault, NoFault

\* A step of c in the cache, with the count of its faults.
LEMMA GetterFaults ==
  ASSUME PipelineInv, NEW c \in Calls, NEW s, GetterMoves(c, s), getter[c] # "raised",
         \/ UNCHANGED faultVars
         \/ CancelCount(c) /\ s # "raised"
  PROVE  /\ \A d \in Calls \ {c} :
              cancels'[d] = cancels[d] /\ failures'[d] = failures[d] /\ getter'[d] = getter[d]
         /\ NoFault(c) \/ OneFault(c)
<1>1. getter'[c] = s /\ \A d \in Calls \ {c} : getter'[d] = getter[d]
  BY StoreTypes DEF PipelineInv, GetterMoves
<1> QED BY <1>1 DEF PipelineInv, HandlersTyped, CancelCount, faultVars, OneFault, NoFault

-----------------------------------------------------------------------------
\* The step of each handler, a step of CallLedger or none.
LEMMA BeginLedger ==
  ASSUME PipelineInv, PipelineInv', NEW c \in Calls, Begin(c) \/ Discover(c)
  PROVE  [Ledger!LedgerNext]_Ledger!ledgerVars
<1>1. UNCHANGED faultVars /\ ~Ended(c) /\ getter[c] # "raised"
  BY DEF Begin, Discover, PipelineInv, CallOK, PhaseOK, Ended
<1>2. ShowsOnly(c) /\ ~Ended(c)' /\ \E s : GetterMoves(c, s)
  <2>1. ASSUME NEW v, NEW outcome, NEW ans, Refuse(c, v, outcome, ans), UNCHANGED cacheVars
        PROVE  ShowsOnly(c) /\ ~Ended(c)' /\ \E s : GetterMoves(c, s)
    <3>1. ShowsOnly(c) /\ ~Ended(c)'
      BY <2>1, ReportShows DEF Refuse, Ended
    <3>2. GetterMoves(c, getter[c])
      BY <2>1, StoreTypes DEF PipelineInv, GetterMoves, cacheVars
    <3> QED BY <3>1, <3>2
  <2>2. ASSUME NEW r, AfterGet(c, r), NEW list \in UpstreamLists,
               Cache!Get(c) \/ Cache!ResumeGet(c) \/ Cache!FetchReturns(c, list)
        PROVE  ShowsOnly(c) /\ ~Ended(c)' /\ \E s : GetterMoves(c, s)
    <3>1. \E s : GetterMoves(c, s)
      BY <2>2, GetMoves, FetchMoves DEF PipelineInv
    <3> QED BY <2>2, <3>1, AfterGetShows
  <2>3. ASSUME NEW r, AfterGet(c, r), Cache!Get(c) \/ Cache!ResumeGet(c)
        PROVE  ShowsOnly(c) /\ ~Ended(c)' /\ \E s : GetterMoves(c, s)
    <3>1. \E s : GetterMoves(c, s)
      BY <2>3, GetMoves DEF PipelineInv
    <3> QED BY <2>3, <3>1, AfterGetShows
  <2>4. CASE Begin(c)
    BY <2>1, <2>3, <2>4 DEF Begin
  <2>5. CASE Discover(c)
    BY <2>2, <2>3, <2>5 DEF Discover
  <2> QED BY <2>4, <2>5
<1>3. OnlyTold(c) /\ (NoFault(c) \/ OneFault(c))
  BY <1>1, <1>2, GetterFaults DEF ShowsOnly, OnlyTold
<1>4. pc'[c] # "returned" /\ LinesStay
  BY <1>2 DEF Ended, ShowsOnly
<1> QED BY <1>1, <1>3, <1>4, HandlerStep

LEMMA DiscoveryEndLedger ==
  ASSUME PipelineInv, PipelineInv', NEW c \in Calls, DiscoveryFails(c) \/ CancelDiscovery(c)
  PROVE  [Ledger!LedgerNext]_Ledger!ledgerVars
<1>1. ~Ended(c) /\ getter[c] \in {"waiting", "fetching"}
  BY DEF DiscoveryFails, CancelDiscovery, PipelineInv, CallOK, PhaseOK, Ended
<1>2. ShowsOnly(c) /\ ~Ended(c)'
  <2>1. Audit!Emit(Backstop(c)) /\ \E outcome : Guard(c, outcome)
    BY DEF DiscoveryFails, CancelDiscovery
  <2>2. writer[Backstop(c)] = "idle" /\ file' = file
    BY <2>1 DEF Audit!Emit, Audit!Reach
  <2> QED BY <2>1, <2>2, GuardShows
<1>3. OnlyTold(c) /\ (NoFault(c) \/ OneFault(c))
  <2>1. \E s : GetterMoves(c, s) /\ (UNCHANGED faultVars \/ (CancelCount(c) /\ s # "raised"))
    <3>1. CASE DiscoveryFails(c)
      <4>1. Cache!FetchRaises(c) /\ UNCHANGED faultVars
        BY <3>1 DEF DiscoveryFails
      <4> QED BY <4>1, GetEndMoves DEF PipelineInv
    <3>2. CASE CancelDiscovery(c)
      <4>1. GetterMoves(c, "cancelled") /\ CancelCount(c)
        BY <3>2 DEF CancelDiscovery, Cache!CancelGet, GetterMoves
      <4> QED BY <4>1
    <3> QED BY <3>1, <3>2
  <2> QED BY <1>1, <1>2, <2>1, GetterFaults DEF ShowsOnly, OnlyTold
<1>4. pc'[c] # "returned" /\ LinesStay
  BY <1>2 DEF Ended, ShowsOnly
<1> QED BY <1>1, <1>3, <1>4, HandlerStep

LEMMA EndLedger ==
  ASSUME PipelineInv, PipelineInv', NEW c \in Calls,
         UpstreamAnswers(c) \/ UpstreamRaises(c) \/ TimesOut(c) \/ CancelUpstream(c)
  PROVE  [Ledger!LedgerNext]_Ledger!ledgerVars
<1>1. /\ ~Ended(c) /\ (UNCHANGED faultVars \/ CancelCount(c)) /\ getter' = getter
      /\ \E outcome, ans : Report(c, verdict[c], outcome, TRUE, ans)
  BY DEF UpstreamAnswers, UpstreamRaises, TimesOut, CancelUpstream, EndOfCall, Ended, cacheVars
<1>2. ShowsOnly(c) /\ pc'[c] = "recording"
  BY <1>1, ReportShows
<1>3. OnlyTold(c) /\ (NoFault(c) \/ OneFault(c)) /\ pc'[c] # "returned" /\ LinesStay
  BY <1>1, <1>2, CountFaults DEF ShowsOnly, OnlyTold
<1> QED BY <1>1, <1>3, HandlerStep

LEMMA RecordEndLedger ==
  ASSUME PipelineInv, PipelineInv', NEW c \in Calls,
         Recorded(c) \/ RecordFails(c) \/ CancelRecording(c) \/ Closed(c) \/ CancelClosing(c)
  PROVE  [Ledger!LedgerNext]_Ledger!ledgerVars
<1>1. /\ ~Ended(c) /\ (UNCHANGED faultVars \/ CancelCount(c)) /\ getter' = getter
      /\ UNCHANGED faultVars \/ ~Recorded(c)
  BY DEF Recorded, RecordFails, CancelRecording, Closed, CancelClosing, Ended, cacheVars
<1>2. ShowsOnly(c) /\ (pc'[c] = "returned" => UNCHANGED faultVars)
  <2>1. CASE RecordFails(c) \/ CancelRecording(c)
    <3>1. writer[Backstop(c)] = "idle" /\ file' = file /\ \E outcome : Guard(c, outcome)
      BY <2>1 DEF RecordFails, CancelRecording, Audit!CancelThenEmit, Audit!FailThenEmit, Audit!Reach
    <3> QED BY <3>1, GuardShows DEF Ended
  <2>2. CASE Recorded(c)
    <3> DEFINE end == IF record[First(c)].outcome = "CANCELLED" THEN "raised" ELSE "returned"
    <3>1. pc' = [pc EXCEPT ![c] = end] /\ UNCHANGED <<record, reply, file>> /\ UNCHANGED faultVars
      BY <2>2 DEF Recorded, Audit!Complete
    <3> HIDE DEF end
    <3>2. ShowsOnly(c)
      BY <3>1, StayShows
    <3> QED BY <3>1, <3>2
  <2>3. CASE Closed(c) \/ CancelClosing(c)
    <3>1. pc' = [pc EXCEPT ![c] = "raised"] /\ UNCHANGED <<record, reply, file>>
      BY <2>3 DEF Closed, CancelClosing, Audit!Complete, Audit!Fail, Audit!Cancel
    <3>2. ShowsOnly(c) /\ pc'[c] = "raised"
      BY <3>1, StayShows
    <3> QED BY <3>2
  <2> QED BY <2>1, <2>2, <2>3
<1>3. OnlyTold(c) /\ (NoFault(c) \/ OneFault(c)) /\ (pc'[c] = "returned" => NoFault(c)) /\ LinesStay
  BY <1>1, <1>2, CountFaults DEF ShowsOnly, OnlyTold
<1> QED BY <1>1, <1>3, HandlerStep

-----------------------------------------------------------------------------
\* A thread appends a line: the only place where the ledger grows.
LEMMA AppendLedger ==
  ASSUME PipelineInv, PipelineInv', NEW e \in Emissions, Audit!ThreadAppends(e),
         UNCHANGED <<record, pc, reply, cancels, failures, getter>>
  PROVE  Ledger!LedgerNext
<1> DEFINE c == e[1]
           line == [call |-> c, outcome |-> record[e].outcome]
<1>1. /\ c \in Calls /\ e \in {First(c), Backstop(c)} /\ First(c) # Backstop(c)
      /\ job[e] = "running" /\ file' = Append(file, e) /\ file \in Seq(Emissions)
      /\ First(c) \in Emissions /\ Backstop(c) \in Emissions
  BY Names DEF Audit!ThreadAppends, PipelineInv, LogOK, AP!AuditInv, AP!AuditOK, AP!LinesOK
<1>2. CallOK(c) /\ CallOK(c)' /\ cancels[c] \in Nat
  BY <1>1 DEF PipelineInv, HandlersTyped
<1> HIDE DEF c
<1>3. writer[e] # "idle"
  BY <1>1, LogTypes DEF PipelineInv
<1>4. PICK outcome \in Outcomes : record[e].outcome = outcome
  <2>1. record[e] \in Records
    BY <1>1, <1>2, <1>3 DEF CallOK, StageOK
  <2> QED BY <2>1 DEF Records
<1>5. Told(c) \in {"nothing", "raised"}
  <2>1. pc[c] # "returned"
    <3>1. pc[c] = "returned" => job[First(c)] = "ok" /\ job[Backstop(c)] = "none"
      BY <1>1, <1>2, LogTypes DEF CallOK, PhaseOK, PipelineInv
    <3> QED BY <1>1, <3>1
  <2> QED BY <2>1 DEF Told
<1>6. LedgerLines' = Append(LedgerLines, line)
  <2>1. DOMAIN file = 1..Len(file) /\ DOMAIN file' = 1..(Len(file) + 1) /\ Len(file) \in Nat
    BY <1>1
  <2>2. \A i \in DOMAIN file : file'[i] = file[i]
    BY <1>1
  <2>3. file'[Len(file) + 1] = e
    BY <1>1
  <2>4. LedgerLines = [i \in 1..Len(file) |-> [call |-> file[i][1], outcome |-> record[file[i]].outcome]]
    BY <2>1 DEF LedgerLines
  <2>5. LedgerLines' = [i \in 1..(Len(file) + 1) |->
                         [call |-> file'[i][1], outcome |-> record[file'[i]].outcome]]
    BY <2>1 DEF LedgerLines
  <2>6. Len(LedgerLines) = Len(file)
    BY <2>1, <2>4
  <2>7. Append(LedgerLines, line) =
          [i \in 1..(Len(file) + 1) |-> IF i = Len(file) + 1 THEN line ELSE LedgerLines[i]]
    BY <2>1, <2>4, <2>6
  <2>8. \A i \in 1..(Len(file) + 1) :
          [call |-> file'[i][1], outcome |-> record[file'[i]].outcome]
            = IF i = Len(file) + 1 THEN line ELSE LedgerLines[i]
    BY <2>1, <2>2, <2>3, <2>4 DEF c
  <2> QED BY <2>5, <2>7, <2>8
<1>7. ASSUME NEW i \in LinesOf(c)
      PROVE  /\ cancels[c] > 0 /\ LinesOf(c) = {i}
             /\ \/ Ledger!ByBackstop(LedgerLines[i].outcome)
                \/ Ledger!ByBackstop(record[e].outcome)
  <2>1. /\ \A k, l \in DOMAIN file : file[k] = file[l] => k = l
        /\ \A k \in LinesOf(c) :
             k \in DOMAIN file /\ file[k] \in {First(c), Backstop(c)} /\ job[file[k]] = "ok"
    BY <1>1, FileFacts
  <2>2. \A k \in LinesOf(c) : file[k] # e
    BY <1>1, <2>1
  <2>3. LinesOf(c) = {i}
    BY <1>1, <2>1, <2>2
  <2>4. cancels[c] > 0
    <3>1. i \in LinesOf(c)' /\ Len(file) + 1 \in LinesOf(c)' /\ i # Len(file) + 1
      BY <1>1, <2>1 DEF LinesOf, c
    <3>2. cancels'[c] # 0
      BY <1>1, <3>1, RecordFollowsNext DEF UncancelledRecordedOnce
    <3> QED BY <1>2, <3>2
  <2>5. LedgerLines[i].outcome = record[file[i]].outcome
    BY <2>1 DEF LedgerLines
  <2>6. writer[Backstop(c)] # "idle" => Ledger!ByBackstop(record[Backstop(c)].outcome)
    BY <1>2 DEF CallOK, StageOK, Ledger!ByBackstop
  <2>7. CASE e = Backstop(c)
    BY <1>3, <2>3, <2>4, <2>6, <2>7
  <2>8. CASE file[i] = Backstop(c)
    <3>1. writer[Backstop(c)] # "idle"
      BY <1>1, <2>1, <2>8, LogTypes DEF PipelineInv
    <3> QED BY <2>3, <2>4, <2>5, <2>6, <2>8, <3>1
  <2> QED BY <1>1, <2>1, <2>2, <2>7, <2>8
<1>8. /\ UNCHANGED <<LedgerTold, LedgerFaults, LedgerCancelled>>
      /\ LedgerTold[c] = Told(c) /\ (cancels[c] > 0 => c \in LedgerCancelled)
  BY <1>1 DEF Audit!ThreadAppends, LedgerTold, Told, LedgerFaults, Faults, LedgerCancelled
<1>9. Ledger!Enter(c, outcome)
  BY <1>4, <1>5, <1>6, <1>7, <1>8, LedgerNames
     DEF Ledger!Enter, LedgerLines, LedgerTold, LedgerFaults, LedgerCancelled
<1> QED BY <1>1, <1>9 DEF Ledger!LedgerNext

LEMMA EmissionLedger ==
  ASSUME PipelineInv, PipelineInv', NEW e \in Emissions, AuditMoves(e) \/ WriteFails(e)
  PROVE  [Ledger!LedgerNext]_Ledger!ledgerVars
<1>1. UNCHANGED <<record, pc, reply, cancels, getter>>
  BY DEF AuditMoves, WriteFails, handlerVars, faultVars, cacheVars
<1>2. CASE AuditMoves(e)
  <2>1. failures' = failures
    BY <1>2 DEF AuditMoves, faultVars
  <2>2. CASE Audit!ThreadAppends(e)
    BY <1>1, <2>1, <2>2, AppendLedger
  <2>3. CASE Audit!TakeTurn(e) \/ Audit!ThreadStarts(e)
    <3>1. LinesStay
      BY <1>1, <2>3 DEF Audit!TakeTurn, Audit!ThreadStarts, LinesStay
    <3> QED BY <1>1, <2>1, <3>1, QuietStep DEF NoFault
  <2> QED BY <1>2, <2>2, <2>3 DEF AuditMoves
<1>3. CASE WriteFails(e)
  <2> DEFINE c == e[1]
  <2>1. c \in Calls /\ failures' = [failures EXCEPT ![c] = failures[c] + 1] /\ LinesStay
    BY <1>1, <1>3, Names DEF WriteFails, Audit!ThreadFails, LinesStay
  <2> HIDE DEF c
  <2>2. OnlyTold(c) /\ OneFault(c) /\ Told(c)' = Told(c)
    BY <1>1, <2>1 DEF OnlyTold, OneFault, Told, PipelineInv, HandlersTyped
  <2> QED BY <2>1, <2>2, FaultStep
<1> QED BY <1>2, <1>3

\* What moves no call and no emission is not seen.
LEMMA RestLedger ==
  ASSUME PipelineInv,
         \/ \E l \in Listers : BeginList(l) \/ ContinueList(l) \/ ListFails(l)
         \/ \E c \in Calls : UpstreamFinishes(c)
         \/ UNCHANGED vars
  PROVE  UNCHANGED Ledger!ledgerVars
<1>1. /\ UNCHANGED <<record, pc, reply, cancels, failures, file>>
      /\ \A c \in Calls : getter'[c] = getter[c]
  <2>1. ASSUME NEW l \in Listers, BeginList(l) \/ ContinueList(l) \/ ListFails(l)
        PROVE  /\ UNCHANGED <<record, pc, reply, cancels, failures, file>>
               /\ \A c \in Calls : getter'[c] = getter[c]
    <3>1. UNCHANGED <<record, pc, reply, cancels, failures, file>>
      BY <2>1 DEF BeginList, ContinueList, ListFails, AfterListGet, faultVars, auditVars
    <3>2. \E s : GetterMoves(l, s)
      BY <2>1, GetMoves, FetchMoves, GetEndMoves DEF BeginList, ContinueList, ListFails, PipelineInv
    <3> QED BY <3>1, <3>2, StoreTypes, PipelineAssumption DEF PipelineInv, GetterMoves
  <2>2. ASSUME NEW c \in Calls, UpstreamFinishes(c)
        PROVE  UNCHANGED <<record, pc, reply, cancels, failures, file, getter>>
    BY <2>2 DEF UpstreamFinishes, handlerVars, faultVars, cacheVars, auditVars
  <2>3. ASSUME UNCHANGED vars
        PROVE  UNCHANGED <<record, pc, reply, cancels, failures, file, getter>>
    BY <2>3 DEF vars, handlerVars, faultVars, cacheVars, auditVars
  <2> QED BY <2>1, <2>2, <2>3
<1>2. LinesStay /\ \A c \in Calls : NoFault(c)
  BY <1>1 DEF LinesStay, NoFault
<1> QED BY <1>1, <1>2, QuietStep

LEMMA LedgerStep == PipelineInv /\ PipelineInv' /\ [Next]_vars => [Ledger!LedgerNext]_Ledger!ledgerVars
<1> SUFFICES ASSUME PipelineInv, PipelineInv', [Next]_vars
             PROVE  [Ledger!LedgerNext]_Ledger!ledgerVars
  OBVIOUS
<1>1. ASSUME NEW c \in Calls, CallStep(c) PROVE [Ledger!LedgerNext]_Ledger!ledgerVars
  <2>1. CASE Begin(c) \/ Discover(c)
    BY <2>1, BeginLedger
  <2>2. CASE DiscoveryFails(c) \/ CancelDiscovery(c)
    BY <2>2, DiscoveryEndLedger
  <2>3. CASE UpstreamAnswers(c) \/ UpstreamRaises(c) \/ TimesOut(c) \/ CancelUpstream(c)
    BY <2>3, EndLedger
  <2>4. CASE Recorded(c) \/ RecordFails(c) \/ CancelRecording(c) \/ Closed(c) \/ CancelClosing(c)
    BY <2>4, RecordEndLedger
  <2>5. CASE UpstreamFinishes(c)
    BY <2>5, RestLedger
  <2> QED BY <1>1, <2>1, <2>2, <2>3, <2>4, <2>5 DEF CallStep
<1>2. ASSUME NEW e \in Emissions, AuditMoves(e) \/ WriteFails(e)
      PROVE  [Ledger!LedgerNext]_Ledger!ledgerVars
  BY <1>2, EmissionLedger
<1>3. CASE \/ \E l \in Listers : BeginList(l) \/ ContinueList(l) \/ ListFails(l)
           \/ UNCHANGED vars
  BY <1>3, RestLedger
<1> QED BY <1>1, <1>2, <1>3 DEF Next, Settled

LEMMA LedgerStart == Init => Ledger!LedgerInit
<1> SUFFICES ASSUME Init PROVE Ledger!LedgerInit
  OBVIOUS
<1>1. LedgerLines = <<>>
  BY DEF Init, Audit!AuditInit, LedgerLines
<1>2. \A c \in Calls : Told(c) = "nothing" /\ Faults(c) = 0 /\ ~(cancels[c] > 0)
  BY DEF Init, Cache!CacheInit, Cache!CacheUsers, Told, Faults
<1>3. /\ LedgerTold = [c \in Calls |-> "nothing"] /\ LedgerFaults = [c \in Calls |-> 0]
      /\ LedgerCancelled = {}
  BY <1>2 DEF LedgerTold, LedgerFaults, LedgerCancelled
<1> QED BY <1>1, <1>3 DEF Ledger!LedgerInit, LedgerLines, LedgerTold, LedgerFaults, LedgerCancelled

\* Whoever reads the audit file beside the replies sees a behaviour of CallLedger, for
\* any number of calls and any cancellations and failures (bridge.py:205-264, 341-348;
\* audit.py:178-185).
THEOREM LedgerImplemented == Spec => ImplementsLedger
<1>1. Init => Ledger!LedgerInit
  BY LedgerStart
<1>2. PipelineInv /\ PipelineInv' /\ [Next]_vars => [Ledger!LedgerNext]_Ledger!ledgerVars
  BY LedgerStep
<1> QED BY <1>1, <1>2, PipelineInvariance, PTL DEF Spec, ImplementsLedger, Ledger!LedgerSpec

-----------------------------------------------------------------------------
\* The handlers use the audit log and the rate limiter through their operations only.
LEMMA AuditStep == [Next]_vars => [Audit!AuditNext]_auditVars
<1> SUFFICES ASSUME [Next]_vars PROVE [Audit!AuditNext]_auditVars
  OBVIOUS
<1> DEFINE Step(e) == \/ Audit!Emit(e) \/ Audit!TakeTurn(e) \/ Audit!Complete(e) \/ Audit!Fail(e)
                      \/ Audit!Cancel(e) \/ Audit!ThreadStarts(e) \/ Audit!ThreadAppends(e)
                      \/ Audit!ThreadFails(e)
                      \/ \E f \in Emissions : Audit!CancelThenEmit(e, f) \/ Audit!FailThenEmit(e, f)
<1>1. (\E e \in Emissions : Step(e)) => Audit!AuditNext
  BY DEF Audit!AuditNext
<1> HIDE DEF Step
<1>2. ASSUME NEW c \in Calls, CallStep(c) PROVE UNCHANGED auditVars \/ \E e \in Emissions : Step(e)
  <2>0. First(c) \in Emissions /\ Backstop(c) \in Emissions
    BY Names
  <2>1. ASSUME NEW r, AfterGet(c, r) PROVE UNCHANGED auditVars \/ Audit!Emit(First(c))
    BY <2>1 DEF AfterGet, Judge, Refuse, Report, Forward
  <2>2. CASE Begin(c) \/ Discover(c)
    <3>1. UNCHANGED auditVars \/ Audit!Emit(First(c))
      BY <2>1, <2>2 DEF Begin, Discover, Refuse, Report
    <3> QED BY <2>0, <3>1 DEF Step
  <2>3. CASE UpstreamAnswers(c) \/ UpstreamRaises(c) \/ TimesOut(c) \/ CancelUpstream(c)
    <3>1. Audit!Emit(First(c))
      BY <2>3 DEF UpstreamAnswers, UpstreamRaises, TimesOut, CancelUpstream, EndOfCall, Report
    <3> QED BY <2>0, <3>1 DEF Step
  <2>4. CASE DiscoveryFails(c) \/ CancelDiscovery(c) \/ Closed(c) \/ CancelClosing(c)
    <3>1. \/ Audit!Emit(Backstop(c)) \/ Audit!Complete(Backstop(c)) \/ Audit!Fail(Backstop(c))
          \/ Audit!Cancel(Backstop(c))
      BY <2>4 DEF DiscoveryFails, CancelDiscovery, Closed, CancelClosing
    <3> QED BY <2>0, <3>1 DEF Step
  <2>5. CASE Recorded(c) \/ RecordFails(c) \/ CancelRecording(c)
    <3>1. \/ Audit!Complete(First(c)) \/ Audit!FailThenEmit(First(c), Backstop(c))
          \/ Audit!CancelThenEmit(First(c), Backstop(c))
      BY <2>5 DEF Recorded, RecordFails, CancelRecording
    <3> QED BY <2>0, <3>1 DEF Step
  <2>6. CASE UpstreamFinishes(c)
    BY <2>6 DEF UpstreamFinishes
  <2> QED BY <1>2, <2>2, <2>3, <2>4, <2>5, <2>6 DEF CallStep
<1>3. ASSUME NEW e \in Emissions, AuditMoves(e) \/ WriteFails(e) PROVE Step(e)
  BY <1>3 DEF AuditMoves, WriteFails, Step
<1>4. CASE \/ \E l \in Listers : BeginList(l) \/ ContinueList(l) \/ ListFails(l)
           \/ UNCHANGED vars
  <2>1. UNCHANGED auditVars
    BY <1>4 DEF BeginList, ContinueList, ListFails, AfterListGet, vars
  <2> QED BY <2>1
<1> QED BY <1>1, <1>2, <1>3, <1>4 DEF Next, Settled

LEMMA TokensStep == [Next]_vars => [Rate!TokensNext]_tokens
<1> SUFFICES ASSUME [Next]_vars PROVE [Rate!TokensNext]_tokens
  OBVIOUS
<1>1. ASSUME NEW c \in Calls, CallStep(c) PROVE [Rate!TokensNext]_tokens
  <2>1. CASE Begin(c)
    <3>1. /\ PrincipalOf[c] \in Principals
          /\ \E granted \in BOOLEAN : Rate!TryAcquire(PrincipalOf[c], granted)
      BY <2>1, PipelineAssumption DEF Begin
    <3> QED BY <3>1 DEF Rate!TokensNext
  <2>2. CASE ~Begin(c)
    <3>1. tokens' = tokens
      BY <1>1, <2>2
         DEF CallStep, Discover, DiscoveryFails, UpstreamAnswers, UpstreamRaises, TimesOut,
             EndOfCall, Recorded, RecordFails, Closed, CancelDiscovery, CancelUpstream,
             CancelRecording, CancelClosing, UpstreamFinishes
    <3> QED BY <3>1
  <2> QED BY <2>1, <2>2
<1>2. CASE \/ \E e \in Emissions : AuditMoves(e) \/ WriteFails(e)
           \/ \E l \in Listers : BeginList(l) \/ ContinueList(l) \/ ListFails(l)
           \/ UNCHANGED vars
  <2>1. tokens' = tokens
    BY <1>2 DEF AuditMoves, WriteFails, BeginList, ContinueList, ListFails, AfterListGet, vars
  <2> QED BY <2>1
<1> QED BY <1>1, <1>2 DEF Next, Settled

\* Inside the gateway the audit log takes the steps of AuditLog and no other: what is
\* proved of it for any emissions holds of the handlers' (bridge.py:237-264, 341-348).
THEOREM AuditLogIsUsedAsSpecified == Spec => Audit!AuditInit /\ [][Audit!AuditNext]_auditVars
<1>1. Init => Audit!AuditInit
  BY DEF Init
<1> QED BY <1>1, AuditStep, PTL DEF Spec

\* The rate limiter of the gateway is the counter of whole tokens that RateLimiter
\* implements (bridge.py:266-269, limits.py:63-90).
THEOREM TokensAreUsedAsSpecified == Spec => Rate!TokensSpec
<1>1. Init => Rate!TokensInit
  BY DEF Init
<1> QED BY <1>1, TokensStep, PTL DEF Spec, Rate!TokensSpec

\* The audit file of the gateway lists the calls' records in the order in which the
\* handlers asked for them, those of cancelled emissions aside (audit.py:159-164).
THEOREM GatewayKeepsCallOrder == Spec => []Audit!CallOrder
<1>1. PipelineInv => Audit!CallOrder
  BY DEF PipelineInv, LogOK, AP!AuditInv, AP!AuditOK, AP!OrderOK,
         Audit!CallOrder, AP!TurnBefore, Audit!Before, AP!Before
<1> QED BY <1>1, PipelineInvariance, PTL
=============================================================================
