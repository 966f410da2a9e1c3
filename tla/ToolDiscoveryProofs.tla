------------------------ MODULE ToolDiscoveryProofs ------------------------
(***************************************************************************)
(* Proofs that the tool cache, for any number of gets and invalidations    *)
(* and any number of changes upstream, fetches once for a cold cache and   *)
(* never answers with a list older than the last invalidation.             *)
(***************************************************************************)
EXTENDS ToolDiscovery, ToolCacheProofs, TLAPS

\* Versions only grow, and what is in the cache or on its way to it is not older
\* than the last invalidate(): the lock keeps an invalidate() out of a fetch.
VersionInv ==
  /\ offered \in ToolLists /\ floor \in ToolLists /\ floor <= offered
  /\ need \in [Getters -> ToolLists] /\ \A c \in Getters : need[c] <= floor
  /\ tools # NoTools => tools >= floor
  /\ answer \in [Getters -> ToolLists \cup {NoTools}]
  /\ \A c \in Getters : answer[c] # NoTools /\ getter[c] = "fetching" => answer[c] >= floor
  /\ \A c \in Getters : getter[c] \in {"idle", "waiting"} => answer[c] = NoTools
  /\ seen \in [Getters -> ToolLists \cup {NoTools}]
  /\ \A c \in Getters : getter[c] = "got" <=> seen[c] # NoTools
  /\ \A c \in Getters : getter[c] = "got" => seen[c] >= need[c]
  /\ \A i \in Invalidators : getter[i] # "fetching"

\* What is cached, on its way or offered is no older than any answer given so far.
ReadInv ==
  /\ before \in [Getters -> SUBSET Getters]
  /\ tools # NoTools => tools <= offered
  /\ \A c \in Getters : answer[c] # NoTools => answer[c] <= offered
  /\ \A d \in Getters : getter[d] = "got" =>
       /\ seen[d] <= offered
       /\ tools # NoTools => seen[d] <= tools
       /\ \A c \in Getters : getter[c] = "fetching" /\ answer[c] # NoTools => seen[d] <= answer[c]
  /\ \A c \in Getters : \A d \in before[c] : getter[d] = "got"
  /\ ReadsNeverGoBack

DiscoveryInv == CacheInv /\ VersionInv /\ ReadInv

-----------------------------------------------------------------------------
LEMMA InitInv == DiscoveryInit => DiscoveryInv
<1> SUFFICES ASSUME DiscoveryInit PROVE DiscoveryInv
  OBVIOUS
<1>1. CacheInv
  BY CacheInvInit DEF DiscoveryInit
<1>2. 0 \in ToolLists
  BY VersionAssumption
<1>3. VersionInv
  BY <1>2, VersionAssumption DEF DiscoveryInit, CacheInit, CacheUsers, VersionInv
<1>4. ReadInv
  BY DEF DiscoveryInit, CacheInit, CacheUsers, ReadInv, ReadsNeverGoBack
<1> QED BY <1>1, <1>3, <1>4 DEF DiscoveryInv

\* What a step of get() does to the cache: nothing; it answers only if there is a
\* list, and it neither was nor ends up in a state another caller is in.
LEMMA GetResult ==
  ASSUME NEW c \in Getters, CacheInv, Get(c) \/ ResumeGet(c)
  PROVE  /\ tools' = tools
         /\ getter[c] \in {"idle", "waiting"}
         /\ \E s \in {"waiting", "fetching", "got"} :
              getter' = [getter EXCEPT ![c] = s] /\ (s = "got" <=> tools # NoTools /\ s # "waiting")
BY DEF Get, ResumeGet, Wait, LookUp

LEMMA InvalidateResult ==
  ASSUME NEW i \in Invalidators, CacheInv, Invalidate(i) \/ ResumeInvalidate(i)
  PROVE  \/ /\ getter' = [getter EXCEPT ![i] = "waiting"] /\ tools' = tools
         \/ /\ getter' = [getter EXCEPT ![i] = "got"] /\ tools' = NoTools
            /\ \A c \in Getters : getter[c] # "fetching"
<1> i \in CacheUsers
  BY DEF CacheUsers
<1>1. CanEnter(cacheLock) \/ Woken(cacheLock, i) => \A c \in CacheUsers : getter[c] # "fetching"
  BY DEF CacheInv, CacheOK, CanEnter, Woken
<1>2. \A c \in Getters : c \in CacheUsers
  BY DEF CacheUsers
<1> QED BY <1>1, <1>2 DEF Invalidate, ResumeInvalidate, Wait, Clear

-----------------------------------------------------------------------------
\* A step of get() keeps the versions in order, whether the call is new or waited.
LEMMA GetVersions ==
  ASSUME NEW c \in Getters, DiscoveryInv, Call(c) \/ Resume(c)
  PROVE  VersionInv'
<1> c \in CacheUsers /\ getter \in [CacheUsers -> {"idle", "waiting", "fetching", "got", "raised", "cancelled"}]
  BY DEF CacheUsers, DiscoveryInv, CacheInv, CacheOK
<1>1. Get(c) \/ ResumeGet(c)
  BY DEF Call, Resume
<1>2. PICK s \in {"waiting", "fetching", "got"} :
        getter' = [getter EXCEPT ![c] = s] /\ (s = "got" <=> tools # NoTools /\ s # "waiting")
  BY <1>1, GetResult DEF DiscoveryInv
<1>3. tools' = tools /\ getter[c] # "got" /\ getter[c] # "fetching"
  BY <1>1, GetResult DEF DiscoveryInv
<1>4. /\ UNCHANGED <<offered, answer, floor>>
      /\ need' \in [Getters -> ToolLists] /\ \A d \in Getters : need'[d] <= floor
      /\ \A d \in Getters : d # c => need'[d] = need[d]
  <2>1. /\ need \in [Getters -> ToolLists] /\ \A d \in Getters : need[d] <= floor
        /\ floor \in ToolLists /\ floor <= floor
    BY VersionAssumption DEF DiscoveryInv, VersionInv
  <2>2. /\ UNCHANGED <<offered, answer, floor>>
        /\ need' = [need EXCEPT ![c] = floor] \/ need' = need
    BY DEF Call, Resume, callVars
  <2> QED BY <2>1, <2>2
<1>5. seen' = IF s = "got" THEN [seen EXCEPT ![c] = tools] ELSE seen
  BY <1>2, <1>3 DEF Call, Resume, Return
<1>6. tools \in ToolLists \cup {NoTools}
  BY DEF DiscoveryInv, CacheInv, CacheOK
<1>7. answer[c] = NoTools
  BY <1>1, GetResult DEF DiscoveryInv, VersionInv
<1>8. CASE s = "got"
  <2>1. tools \in ToolLists /\ tools >= floor /\ tools # NoTools
    BY <1>2, <1>6, <1>8 DEF DiscoveryInv, VersionInv
  <2>2. tools >= need'[c]
    BY <1>4, <2>1, VersionAssumption DEF DiscoveryInv, VersionInv
  <2> QED BY <1>2, <1>3, <1>4, <1>5, <1>8, <2>1, <2>2, VersionAssumption
          DEF DiscoveryInv, VersionInv, CacheUsers
<1>9. CASE s = "fetching"
  BY <1>2, <1>3, <1>4, <1>5, <1>9, <1>7, VersionAssumption
     DEF DiscoveryInv, VersionInv, CacheUsers
<1>10. CASE s = "waiting"
  BY <1>2, <1>3, <1>4, <1>5, <1>10, <1>7, VersionAssumption
     DEF DiscoveryInv, VersionInv, CacheUsers
<1> QED BY <1>8, <1>9, <1>10

\* The upstream answers, and the answer arrives or is lost.
LEMMA FetchVersions ==
  ASSUME NEW c \in Getters, DiscoveryInv, UpstreamAnswers(c) \/ Fetched(c) \/ FetchFailed(c)
  PROVE  VersionInv'
<1> c \in CacheUsers /\ getter \in [CacheUsers -> {"idle", "waiting", "fetching", "got", "raised", "cancelled"}]
  BY DEF CacheUsers, DiscoveryInv, CacheInv, CacheOK
<1>1. CASE UpstreamAnswers(c)
  BY <1>1, VersionAssumption DEF UpstreamAnswers, cacheVars, callVars, DiscoveryInv, VersionInv, CacheUsers
<1>2. CASE Fetched(c)
  <2>1. answer[c] \in ToolLists /\ answer[c] >= floor
    BY <1>2 DEF Fetched, FetchReturns, DiscoveryInv, VersionInv
  <2>2. answer[c] >= need[c]
    BY <2>1, VersionAssumption DEF DiscoveryInv, VersionInv
  <2> QED BY <1>2, <2>1, <2>2, VersionAssumption
          DEF Fetched, FetchReturns, Return, callVars, DiscoveryInv, VersionInv, CacheUsers
<1>3. CASE FetchFailed(c)
  BY <1>3 DEF FetchFailed, FetchRaises, callVars, DiscoveryInv, VersionInv, CacheUsers, VersionAssumption
<1> QED BY <1>1, <1>2, <1>3

\* A caller who is cancelled, queued or fetching, leaves every version as it was.
LEMMA CancelVersions ==
  ASSUME NEW c \in CacheUsers, DiscoveryInv, Cancelled(c)
  PROVE  VersionInv'
<1>1. /\ getter \in [CacheUsers -> {"idle", "waiting", "fetching", "got", "raised", "cancelled"}]
      /\ getter' = [getter EXCEPT ![c] = "cancelled"] /\ getter[c] # "got"
      /\ UNCHANGED <<tools, offered, answer, floor, need, seen>>
  BY DEF Cancelled, CancelGet, callVars, DiscoveryInv, CacheInv, CacheOK
<1> QED BY <1>1, VersionAssumption DEF DiscoveryInv, VersionInv, CacheUsers

\* An invalidate() that ends finds nobody fetching and leaves nothing cached, so
\* the floor may rise to what the upstream offers.
LEMMA InvalidateVersions ==
  ASSUME NEW i \in Invalidators, DiscoveryInv, CallInvalidate(i) \/ FinishInvalidate(i)
  PROVE  VersionInv'
<1> i \in CacheUsers /\ getter \in [CacheUsers -> {"idle", "waiting", "fetching", "got", "raised", "cancelled"}]
  BY DEF CacheUsers, DiscoveryInv, CacheInv, CacheOK
<1>1. MarkFloor(i) /\ (Invalidate(i) \/ ResumeInvalidate(i))
  BY DEF CallInvalidate, FinishInvalidate
<1>2. \A c \in Getters : c # i /\ c \in CacheUsers
  BY VersionAssumption DEF CacheUsers
<1>3. CASE getter' = [getter EXCEPT ![i] = "waiting"] /\ tools' = tools
  BY <1>1, <1>2, <1>3 DEF MarkFloor, callVars, DiscoveryInv, VersionInv, CacheUsers
<1>4. CASE /\ getter' = [getter EXCEPT ![i] = "got"] /\ tools' = NoTools
           /\ \A c \in Getters : getter[c] # "fetching"
  <2>1. floor' = offered /\ UNCHANGED <<offered, answer, need, seen>>
    BY <1>1, <1>4 DEF MarkFloor, callVars
  <2>2. \A c \in Getters : need[c] <= offered
    BY VersionAssumption DEF DiscoveryInv, VersionInv
  <2> QED BY <1>2, <1>4, <2>1, <2>2, VersionAssumption DEF DiscoveryInv, VersionInv, CacheUsers
<1> QED BY <1>1, <1>3, <1>4, InvalidateResult DEF DiscoveryInv

-----------------------------------------------------------------------------
\* The step of a caller who gets no answer and changes no version.
LEMMA SilentReads ==
  ASSUME DiscoveryInv, NEW c \in CacheUsers, NEW s \in {"waiting", "fetching", "raised", "cancelled"},
         getter' = [getter EXCEPT ![c] = s], getter[c] # "got",
         s = "fetching" => c \in Getters /\ answer[c] = NoTools,
         UNCHANGED <<tools, offered, answer, seen>>,
         before' = before \/ \E x \in Getters : getter[x] # "got" /\ getter'[x] # "got"
           /\ before' = [before EXCEPT ![x] = {d \in Getters : getter[d] = "got"}]
  PROVE  ReadInv'
<1>1. getter \in [CacheUsers -> {"idle", "waiting", "fetching", "got", "raised", "cancelled"}]
  BY DEF DiscoveryInv, CacheInv, CacheOK
<1>2. \A d \in Getters : d \in CacheUsers
  BY DEF CacheUsers
<1>3. /\ \A d \in Getters : getter'[d] = "got" <=> getter[d] = "got"
      /\ \A d \in Getters : getter'[d] = "fetching" /\ answer[d] # NoTools => getter[d] = "fetching"
  BY <1>1, <1>2
<1>4. /\ before' \in [Getters -> SUBSET Getters]
      /\ \A d \in Getters : \A e \in before'[d] : getter[e] = "got"
      /\ \A d \in Getters : getter[d] = "got" => before'[d] = before[d]
  BY <1>3 DEF DiscoveryInv, ReadInv
<1>5. \A d \in Getters : \A e \in before'[d] : e \in Getters
  BY <1>4
<1> QED BY <1>3, <1>4, <1>5 DEF DiscoveryInv, ReadInv, ReadsNeverGoBack

\* The step of a caller who gets a list no older than any list given so far.
LEMMA AnsweredReads ==
  ASSUME DiscoveryInv, NEW c \in Getters, NEW v \in ToolLists,
         getter' = [getter EXCEPT ![c] = "got"], seen' = [seen EXCEPT ![c] = v], getter[c] # "got",
         tools' = v, v <= offered, UNCHANGED <<offered, answer>>,
         \A d \in Getters : getter[d] = "got" => seen[d] <= v,
         \A d \in Getters : d # c => getter[d] # "fetching",
         before' = before \/ before' = [before EXCEPT ![c] = {d \in Getters : getter[d] = "got"}]
  PROVE  ReadInv'
<1>1. /\ getter \in [CacheUsers -> {"idle", "waiting", "fetching", "got", "raised", "cancelled"}]
      /\ seen \in [Getters -> ToolLists \cup {NoTools}]
  BY DEF DiscoveryInv, CacheInv, CacheOK, VersionInv
<1>2. \A d \in Getters : d \in CacheUsers
  BY DEF CacheUsers
<1>3. /\ \A d \in Getters : getter'[d] = "got" <=> getter[d] = "got" \/ d = c
      /\ \A d \in Getters : seen'[d] = IF d = c THEN v ELSE seen[d]
      /\ \A d \in Getters : getter'[d] # "fetching"
  BY <1>1, <1>2
<1>4. /\ before' \in [Getters -> SUBSET Getters]
      /\ \A d \in Getters : \A e \in before'[d] : e \in Getters /\ getter[e] = "got"
      /\ \A d \in Getters : d # c => before'[d] = before[d]
  BY DEF DiscoveryInv, ReadInv
<1>5. v <= v /\ v # NoTools
  BY VersionAssumption
<1>6. ReadsNeverGoBack'
  <2> SUFFICES ASSUME NEW d \in Getters, getter'[d] = "got", NEW e \in before'[d]
               PROVE  seen'[e] <= seen'[d]
    BY DEF ReadsNeverGoBack
  <2>1. e \in Getters /\ getter[e] = "got" /\ e # c
    BY <1>4
  <2>2. CASE d = c
    BY <1>3, <2>1, <2>2
  <2>3. CASE d # c
    BY <1>3, <1>4, <2>1, <2>3 DEF DiscoveryInv, ReadInv, ReadsNeverGoBack
  <2> QED BY <2>2, <2>3
<1> QED BY <1>3, <1>4, <1>5, <1>6 DEF DiscoveryInv, ReadInv

\* A step of get() that finds a list answers with it; another one answers nothing.
LEMMA GetReads ==
  ASSUME NEW c \in Getters, DiscoveryInv, Call(c) \/ Resume(c)
  PROVE  ReadInv'
<1>1. /\ Get(c) \/ ResumeGet(c)
      /\ UNCHANGED <<offered, answer>>
      /\ before' = before \/ before' = [before EXCEPT ![c] = {d \in Getters : getter[d] = "got"}]
      /\ Return(c) /\ c \in CacheUsers
  BY DEF Call, Resume, callVars, CacheUsers
<1>2. /\ tools' = tools /\ getter[c] \in {"idle", "waiting"}
      /\ \E s \in {"waiting", "fetching", "got"} :
           getter' = [getter EXCEPT ![c] = s] /\ (s = "got" <=> tools # NoTools /\ s # "waiting")
  BY <1>1, GetResult DEF DiscoveryInv
<1>3. PICK s \in {"waiting", "fetching", "got"} :
        getter' = [getter EXCEPT ![c] = s] /\ (s = "got" <=> tools # NoTools /\ s # "waiting")
  BY <1>2
<1>4. getter'[c] = s
  BY <1>1, <1>3 DEF DiscoveryInv, CacheInv, CacheOK
<1>5. CASE s = "got"
  <2>1. tools \in ToolLists /\ tools # NoTools /\ tools <= offered
    BY <1>3, <1>5 DEF DiscoveryInv, CacheInv, CacheOK, ReadInv
  <2>2. \A d \in Getters : getter[d] # "fetching"
    BY <2>1 DEF DiscoveryInv, CacheInv, CacheOK, CacheUsers
  <2>3. \A d \in Getters : getter[d] = "got" => seen[d] <= tools
    BY <2>1 DEF DiscoveryInv, ReadInv
  <2>4. seen' = [seen EXCEPT ![c] = tools]
    BY <1>1, <1>2, <1>4, <1>5 DEF Return
  <2> QED BY <1>1, <1>2, <1>3, <1>5, <2>1, <2>2, <2>3, <2>4, AnsweredReads
<1>6. CASE s # "got"
  <2>1. seen' = seen
    BY <1>1, <1>4, <1>6 DEF Return
  <2>2. answer[c] = NoTools
    BY <1>2 DEF DiscoveryInv, VersionInv
  <2>3. before' = before \/ \E x \in Getters : getter[x] # "got" /\ getter'[x] # "got"
           /\ before' = [before EXCEPT ![x] = {d \in Getters : getter[d] = "got"}]
    BY <1>1, <1>2, <1>4, <1>6
  <2>4. s \in {"waiting", "fetching", "raised", "cancelled"} /\ getter[c] # "got"
    BY <1>2, <1>3, <1>6
  <2> QED BY <1>1, <1>2, <1>3, <2>1, <2>2, <2>3, <2>4, SilentReads
<1> QED BY <1>5, <1>6

\* An answer leaves the upstream and arrives while nobody else fetches.
LEMMA FetchReads ==
  ASSUME NEW c \in Getters, DiscoveryInv,
         UpstreamAnswers(c) \/ Fetched(c) \/ FetchFailed(c) \/ UpstreamChanges
  PROVE  ReadInv'
<1>0. /\ c \in CacheUsers /\ offered \in Nat /\ offered <= offered
      /\ \A d \in Getters : getter[d] = "got" => seen[d] \in Nat
      /\ \A d \in Getters : answer[d] # NoTools => answer[d] \in Nat
      /\ tools # NoTools => tools \in Nat
  BY VersionAssumption DEF CacheUsers, DiscoveryInv, VersionInv, CacheInv, CacheOK
<1>1. CASE UpstreamAnswers(c)
  <2>1. /\ UNCHANGED <<getter, tools, seen, before, offered>> /\ answer' = [answer EXCEPT ![c] = offered]
    BY <1>1 DEF UpstreamAnswers, cacheVars, callVars
  <2>2. \A d \in Getters : answer'[d] = IF d = c THEN offered ELSE answer[d]
    BY <2>1 DEF DiscoveryInv, VersionInv
  <2> QED BY <1>0, <2>1, <2>2 DEF DiscoveryInv, ReadInv, ReadsNeverGoBack
<1>2. CASE Fetched(c)
  <2>1. /\ getter[c] = "fetching" /\ answer[c] # NoTools /\ tools' = answer[c]
        /\ getter' = [getter EXCEPT ![c] = "got"] /\ Return(c)
        /\ UNCHANGED <<offered, answer, before>>
    BY <1>2 DEF Fetched, FetchReturns, callVars
  <2>2. answer[c] \in ToolLists /\ answer[c] <= offered
    BY <2>1 DEF DiscoveryInv, VersionInv, ReadInv
  <2>3. \A d \in Getters : d # c => getter[d] # "fetching"
    BY <1>0, <2>1 DEF DiscoveryInv, CacheInv, CacheOK, CacheUsers
  <2>4. \A d \in Getters : getter[d] = "got" => seen[d] <= answer[c]
    BY <2>1 DEF DiscoveryInv, ReadInv
  <2>5. seen' = [seen EXCEPT ![c] = answer[c]]
    BY <1>0, <2>1 DEF Return, DiscoveryInv, CacheInv, CacheOK
  <2> QED BY <2>1, <2>2, <2>3, <2>4, <2>5, AnsweredReads
<1>3. CASE FetchFailed(c)
  <2>1. /\ getter' = [getter EXCEPT ![c] = "raised"] /\ getter[c] # "got"
        /\ UNCHANGED <<tools, offered, answer, seen, before>>
    BY <1>3 DEF FetchFailed, FetchRaises, callVars
  <2> QED BY <1>0, <2>1, SilentReads
<1>4. CASE UpstreamChanges
  <2>1. /\ UNCHANGED <<getter, tools, seen, before, answer>> /\ offered' = offered + 1
    BY <1>4 DEF UpstreamChanges, cacheVars, callVars
  <2> QED BY <1>0, <2>1 DEF DiscoveryInv, ReadInv, ReadsNeverGoBack
<1> QED BY <1>1, <1>2, <1>3, <1>4

\* A cancelled caller and an invalidate() answer nobody; an emptied cache shows nothing.
LEMMA OtherReads ==
  ASSUME DiscoveryInv, NEW c \in CacheUsers,
         \/ Cancelled(c)
         \/ c \in Invalidators /\ (CallInvalidate(c) \/ FinishInvalidate(c))
  PROVE  ReadInv'
<1>1. CASE Cancelled(c)
  <2>1. /\ getter' = [getter EXCEPT ![c] = "cancelled"] /\ getter[c] # "got"
        /\ UNCHANGED <<tools, offered, answer, seen, before>>
    BY <1>1 DEF Cancelled, CancelGet, callVars
  <2> QED BY <2>1, SilentReads
<1>2. CASE c \in Invalidators /\ (CallInvalidate(c) \/ FinishInvalidate(c))
  <2>1. /\ Invalidate(c) \/ ResumeInvalidate(c)
        /\ UNCHANGED <<offered, answer, seen, before>>
    BY <1>2 DEF CallInvalidate, FinishInvalidate, MarkFloor, callVars
  <2>2. /\ tools' = tools \/ tools' = NoTools
        /\ \E s \in {"waiting", "got"} : getter' = [getter EXCEPT ![c] = s]
    BY <1>2, <2>1, InvalidateResult DEF DiscoveryInv
  <2>3. \A d \in Getters : d # c /\ d \in CacheUsers
    BY <1>2, VersionAssumption DEF CacheUsers
  <2>4. \A d \in Getters : getter'[d] = getter[d]
    BY <2>2, <2>3 DEF DiscoveryInv, CacheInv, CacheOK
  <2>5. \A d \in Getters : \A e \in before[d] : e \in Getters
    BY DEF DiscoveryInv, ReadInv
  <2> QED BY <2>1, <2>2, <2>4, <2>5 DEF DiscoveryInv, ReadInv, ReadsNeverGoBack
<1> QED BY <1>1, <1>2

-----------------------------------------------------------------------------
LEMMA StepInv == DiscoveryInv /\ [DiscoveryNext]_discoveryVars => DiscoveryInv'
<1> SUFFICES ASSUME DiscoveryInv, [DiscoveryNext]_discoveryVars
             PROVE  DiscoveryInv'
  OBVIOUS
<1>0. CacheInv /\ VersionInv /\ (CacheInvNext <=> CacheInv')
  BY DEF DiscoveryInv, CacheInv, CacheInvNext
<1>1. ASSUME NEW c \in Getters, Call(c) \/ Resume(c)
      PROVE  DiscoveryInv'
  <2>1. c \in CacheUsers /\ (Get(c) \/ ResumeGet(c))
    BY <1>1 DEF Call, Resume, CacheUsers
  <2> QED BY <1>0, <1>1, <2>1, GetKeeps, GetVersions, GetReads DEF DiscoveryInv
<1>2. ASSUME NEW c \in Getters, UpstreamAnswers(c)
      PROVE  DiscoveryInv'
  <2>1. CacheInv'
    BY <1>0, <1>2 DEF UpstreamAnswers, cacheVars, CacheInv
  <2> QED BY <1>2, <2>1, FetchVersions, FetchReads DEF DiscoveryInv
<1>3. ASSUME NEW c \in Getters, Fetched(c) \/ FetchFailed(c)
      PROVE  DiscoveryInv'
  <2>1. c \in CacheUsers
    BY DEF CacheUsers
  <2>2. CASE Fetched(c)
    <3>1. answer[c] \in ToolLists /\ FetchReturns(c, answer[c])
      BY <1>0, <2>2 DEF Fetched, VersionInv
    <3> QED BY <1>0, <1>3, <2>1, <3>1, FetchKeeps, FetchVersions, FetchReads DEF DiscoveryInv
  <2>3. CASE FetchFailed(c)
    <3>1. FetchRaises(c)
      BY <2>3 DEF FetchFailed
    <3> QED BY <1>0, <1>3, <2>1, <3>1, FetchRaisesKeeps, FetchVersions, FetchReads DEF DiscoveryInv
  <2> QED BY <1>3, <2>2, <2>3
<1>4. ASSUME NEW i \in Invalidators, CallInvalidate(i) \/ FinishInvalidate(i)
      PROVE  DiscoveryInv'
  <2>1. i \in CacheUsers /\ (Invalidate(i) \/ ResumeInvalidate(i))
    BY <1>4 DEF CallInvalidate, FinishInvalidate, CacheUsers
  <2> QED BY <1>0, <1>4, <2>1, InvalidateKeeps, InvalidateVersions, OtherReads DEF DiscoveryInv
<1>5. ASSUME NEW c \in CacheUsers, Cancelled(c)
      PROVE  DiscoveryInv'
  BY <1>0, <1>5, CancelGetKeeps, CancelVersions, OtherReads DEF Cancelled, DiscoveryInv
<1>6. CASE UpstreamChanges
  <2>1. CacheInv'
    BY <1>0, <1>6 DEF UpstreamChanges, cacheVars, CacheInv
  <2>2. VersionInv'
    BY <1>0, <1>6, VersionAssumption DEF UpstreamChanges, cacheVars, callVars, VersionInv
  <2>3. ReadInv'
    <3>1. CASE Getters = {}
      BY <1>6, <3>1, VersionAssumption DEF UpstreamChanges, cacheVars, callVars, DiscoveryInv,
         VersionInv, CacheInv, CacheOK, ReadInv, ReadsNeverGoBack
    <3>2. ASSUME NEW c \in Getters PROVE ReadInv'
      BY <1>6, FetchReads
    <3> QED BY <3>1, <3>2
  <2> QED BY <2>1, <2>2, <2>3 DEF DiscoveryInv
<1>7. CASE UNCHANGED discoveryVars
  BY <1>0, <1>7 DEF discoveryVars, cacheVars, callVars, DiscoveryInv, CacheInv, VersionInv, ReadInv,
     ReadsNeverGoBack
<1> QED BY <1>1, <1>2, <1>3, <1>4, <1>5, <1>6, <1>7 DEF DiscoveryNext, Settled

\* The invariant of the cache and of the versions that pass through it.
THEOREM DiscoveryInvariance == DiscoverySpec => []DiscoveryInv
BY InitInv, StepInv, PTL DEF DiscoverySpec

\* Every reachable state of the cache and its callers is well typed, and no get()
\* answers None (bridge.py:78-83).
THEOREM DiscoveryTypes == DiscoverySpec => []DiscoveryTypeOK
<1>1. DiscoveryInv => DiscoveryTypeOK
  BY DEF DiscoveryInv, CacheInv, CacheOK, VersionInv, ReadInv, DiscoveryTypeOK, CacheTypeOK
<1> QED BY <1>1, DiscoveryInvariance, PTL

\* A cold cache is fetched once at a time, a filled one never (bridge.py:79-82).
THEOREM DiscoverySingleFlight == DiscoverySpec => []SingleFlight
<1>1. DiscoveryInv => SingleFlight
  BY DEF DiscoveryInv, CacheInv, CacheOK, CacheUsers, SingleFlight
<1> QED BY <1>1, DiscoveryInvariance, PTL

\* The lock is held exactly during a fetch and its queue is intact (bridge.py:79, 86).
THEOREM DiscoveryTurns == DiscoverySpec => []CacheTurns
<1>1. ASSUME DiscoveryInv PROVE CacheTurns
  <2>1. /\ \A c \in CacheUsers : getter[c] = "waiting" <=> Waits(cacheLock, c)
        /\ WaitOnce(cacheLock)
        /\ cacheLock.locked <=> \E c \in CacheUsers : getter[c] = "fetching"
        /\ \A i \in Invalidators : getter[i] # "fetching"
    BY <1>1 DEF DiscoveryInv, CacheInv, CacheOK, VersionInv
  <2> QED BY <2>1 DEF CacheTurns, Waits, WaitOnce, CacheUsers
<1> QED BY <1>1, DiscoveryInvariance, PTL

\* No get() answers with a list the upstream gave up before an invalidate() that
\* had returned when the get() was called (bridge.py:78-87).
THEOREM DiscoveryFreshness == DiscoverySpec => []FreshAfterInvalidate
<1>1. DiscoveryInv => FreshAfterInvalidate
  BY DEF DiscoveryInv, VersionInv, FreshAfterInvalidate
<1> QED BY <1>1, DiscoveryInvariance, PTL

\* No get() answers with a list older than one that some get() had answered with
\* before it was called (bridge.py:79-87).
THEOREM DiscoveryReads == DiscoverySpec => []ReadsNeverGoBack
<1>1. DiscoveryInv => ReadsNeverGoBack
  BY DEF DiscoveryInv, ReadInv
<1> QED BY <1>1, DiscoveryInvariance, PTL
=============================================================================
