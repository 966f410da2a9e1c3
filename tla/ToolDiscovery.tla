--------------------------- MODULE ToolDiscovery ---------------------------
(***************************************************************************)
(* UpstreamToolCache with the upstream it caches: a server whose tool list *)
(* changes over time, numbered by version, and whose answer to list_tools  *)
(* is the list at some moment between the request and its arrival.         *)
(***************************************************************************)
EXTENDS ToolCache

CONSTANT MaxVersion         \* bound on the number of changes upstream

ASSUME VersionAssumption ==
  /\ MaxVersion \in Nat /\ ToolLists = 0..MaxVersion
  /\ NoTools \notin ToolLists
  /\ Getters \cap Invalidators = {}

VARIABLES
  offered,                  \* the version the upstream has now
  answer,                   \* the version on its way back to each fetch
  floor,                    \* history: the version at the last invalidate()
  need,                     \* history: floor when each get() was called
  before,                   \* history: who had an answer when each get() was called
  seen                      \* the version each get() returned

callVars == <<need, before>>
discoveryVars == <<cacheVars, offered, answer, floor, callVars, seen>>

\* Types; get() answers with a list, never with None, even to a caller who waited
\* for a fetch that failed or was cancelled (bridge.py:78-83).
DiscoveryTypeOK ==
  /\ CacheTypeOK
  /\ offered \in ToolLists /\ floor \in ToolLists
  /\ need \in [Getters -> ToolLists] /\ before \in [Getters -> SUBSET Getters]
  /\ answer \in [Getters -> ToolLists \cup {NoTools}]
  /\ seen \in [Getters -> ToolLists \cup {NoTools}]
  /\ \A c \in Getters : getter[c] = "got" <=> seen[c] # NoTools

DiscoveryInit ==
  /\ CacheInit
  /\ offered = 0 /\ floor = 0
  /\ need = [c \in Getters |-> 0] /\ before = [c \in Getters |-> {}]
  /\ answer = [c \in Getters |-> NoTools]
  /\ seen = [c \in Getters |-> NoTools]

-----------------------------------------------------------------------------
\* A call of get() that ends in this step returns what the cache then holds.
Return(c) == seen' = IF getter'[c] = "got" THEN [seen EXCEPT ![c] = tools'] ELSE seen

Call(c) ==
  /\ Get(c) /\ Return(c)
  /\ need' = [need EXCEPT ![c] = floor]
  /\ before' = [before EXCEPT ![c] = {d \in Getters : getter[d] = "got"}]
  /\ UNCHANGED <<offered, answer, floor>>

Resume(c) == ResumeGet(c) /\ Return(c) /\ UNCHANGED <<offered, answer, floor, callVars>>

UpstreamAnswers(c) ==
  /\ getter[c] = "fetching" /\ answer[c] = NoTools
  /\ answer' = [answer EXCEPT ![c] = offered]
  /\ UNCHANGED <<cacheVars, offered, floor, callVars, seen>>

Fetched(c) ==
  /\ answer[c] # NoTools
  /\ FetchReturns(c, answer[c]) /\ Return(c)
  /\ UNCHANGED <<offered, answer, floor, callVars>>

FetchFailed(c) == FetchRaises(c) /\ UNCHANGED <<offered, answer, floor, callVars, seen>>

Cancelled(c) == CancelGet(c) /\ UNCHANGED <<offered, answer, floor, callVars, seen>>

MarkFloor(i) ==
  /\ floor' = IF getter'[i] = "got" THEN offered ELSE floor
  /\ UNCHANGED <<offered, answer, callVars, seen>>

CallInvalidate(i) == Invalidate(i) /\ MarkFloor(i)

FinishInvalidate(i) == ResumeInvalidate(i) /\ MarkFloor(i)

UpstreamChanges ==
  /\ offered < MaxVersion
  /\ offered' = offered + 1
  /\ UNCHANGED <<cacheVars, answer, floor, callVars, seen>>

Settled ==
  /\ \A c \in CacheUsers : getter[c] \in {"got", "raised", "cancelled"}
  /\ UNCHANGED discoveryVars

DiscoveryNext ==
  \/ \E c \in Getters :
       \/ Call(c) \/ Resume(c) \/ UpstreamAnswers(c)
       \/ Fetched(c) \/ FetchFailed(c)
  \/ \E i \in Invalidators : CallInvalidate(i) \/ FinishInvalidate(i)
  \/ \E c \in CacheUsers : Cancelled(c)
  \/ UpstreamChanges
  \/ Settled

\* The event loop resumes a woken coroutine; the upstream answers what it was
\* asked, for list_tools() has no timeout of its own (bridge.py:81).
DiscoveryFairness ==
  /\ \A c \in Getters : /\ WF_discoveryVars(Resume(c))
                        /\ WF_discoveryVars(UpstreamAnswers(c))
                        /\ WF_discoveryVars(Fetched(c))
  /\ \A i \in Invalidators : WF_discoveryVars(FinishInvalidate(i))

DiscoverySpec == DiscoveryInit /\ [][DiscoveryNext]_discoveryVars /\ DiscoveryFairness

-----------------------------------------------------------------------------
\* A cold cache never has two fetches under way, and nobody fetches once it is
\* filled, through failed and cancelled fetches too (bridge.py:57-61, 79-82).
SingleFlight ==
  /\ \A c, d \in Getters : getter[c] = "fetching" /\ getter[d] = "fetching" => c = d
  /\ (\E c \in Getters : getter[c] = "fetching") => tools = NoTools

\* The lock is held exactly during a fetch, and its queue lists the waiting
\* coroutines once each: no place is lost to a failure or a cancellation, so
\* nothing is left locked (bridge.py:79, 86).
CacheTurns ==
  /\ cacheLock.locked <=> \E c \in Getters : getter[c] = "fetching"
  /\ \A c \in CacheUsers :
       getter[c] = "waiting" <=> \E i \in DOMAIN cacheLock.waiters : cacheLock.waiters[i] = c
  /\ \A i, j \in DOMAIN cacheLock.waiters :
       cacheLock.waiters[i] = cacheLock.waiters[j] => i = j

\* A get() called after an invalidate() has returned never answers with a list
\* the upstream gave up before that invalidate(), even when a fetch was in
\* flight while invalidate() was called (bridge.py:78-87).
FreshAfterInvalidate ==
  \A c \in Getters : getter[c] = "got" => seen[c] >= need[c]

\* Answers never go back: a get() called after another has returned answers with a
\* list no older, through invalidations, failures and the cancellations of whoever
\* is queued or fetching. Two fetches whose answers overtook each other would break
\* it, and so would a list left behind by an earlier one (bridge.py:79-87).
ReadsNeverGoBack ==
  \A c \in Getters : getter[c] = "got" => \A d \in before[c] : seen[d] <= seen[c]

\* If the upstream answers, every get() and every invalidate() ends: a failed or
\* cancelled fetch hands the lock to the next in line (bridge.py:79-83).
EveryGetEnds ==
  \A c \in CacheUsers : getter[c] \in {"waiting", "fetching"}
                           ~> getter[c] \in {"got", "raised", "cancelled"}
=============================================================================
