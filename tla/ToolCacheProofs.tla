-------------------------- MODULE ToolCacheProofs --------------------------
(***************************************************************************)
(* Proofs that every operation of the tool cache keeps its lock, its queue *)
(* and the single fetch in order, for any callers and any tool lists.      *)
(***************************************************************************)
EXTENDS ToolCache, AsyncLockProofs

\* The cache's lock l and callers g, with list t: whoever fetches is alone, holds
\* the lock, and found the cache empty; whoever waits is in the queue once.
CacheOK(l, t, g) ==
  /\ l \in Locks(CacheUsers)
  /\ t \in ToolLists \cup {NoTools}
  /\ g \in [CacheUsers -> {"idle", "waiting", "fetching", "got", "raised", "cancelled"}]
  /\ l.locked <=> \E c \in CacheUsers : g[c] = "fetching"
  /\ \A c, d \in CacheUsers : g[c] = "fetching" /\ g[d] = "fetching" => c = d
  /\ \A c \in CacheUsers : g[c] = "fetching" => t = NoTools
  /\ \A c \in CacheUsers : g[c] = "waiting" <=> Waits(l, c)
  /\ WaitOnce(l)

CacheInv == CacheOK(cacheLock, tools, getter)

CacheInvNext == CacheOK(cacheLock', tools', getter')

LEMMA CacheInvInit == CacheInit => CacheInv
BY DEF CacheInit, CacheInv, CacheOK, Waits, WaitOnce, FreshLock, Locks

-----------------------------------------------------------------------------
\* Queueing for the lock keeps the invariant.
LEMMA WaitKeeps ==
  ASSUME NEW c \in CacheUsers, CacheInv, getter[c] = "idle", Wait(c)
  PROVE  CacheInvNext
<1>1. ~Waits(cacheLock, c) /\ cacheLock \in Locks(CacheUsers) /\ WaitOnce(cacheLock)
  BY DEF CacheInv, CacheOK
<1>2. /\ cacheLock' \in Locks(CacheUsers) /\ cacheLock'.locked = cacheLock.locked
      /\ \A q : Waits(cacheLock', q) <=> Waits(cacheLock, q) \/ q = c
      /\ WaitOnce(cacheLock')
  BY <1>1, QueueAdds DEF Wait
<1> QED BY <1>2 DEF Wait, CacheInv, CacheInvNext, CacheOK

\* The lock as a caller holds it after getting it from the state before: it is
\* locked, nobody fetches, and the caller is not in its queue.
Inside(c, l) ==
  /\ l \in Locks(CacheUsers) /\ l.locked /\ WaitOnce(l)
  /\ \A d \in CacheUsers : getter[d] # "fetching"
  /\ \A d \in CacheUsers : Waits(l, d) <=> getter[d] = "waiting" /\ d # c

LEMMA EnterInside ==
  ASSUME NEW c \in CacheUsers, CacheInv, getter[c] = "idle", CanEnter(cacheLock)
  PROVE  Inside(c, Enter(cacheLock))
BY EnterLeave DEF CacheInv, CacheOK, CanEnter, Inside

LEMMA TakeInside ==
  ASSUME NEW c \in CacheUsers, CacheInv, getter[c] = "waiting", Woken(cacheLock, c)
  PROVE  Inside(c, Take(cacheLock))
<1>1. /\ Take(cacheLock) \in Locks(CacheUsers) /\ Take(cacheLock).locked
      /\ \A q : Waits(Take(cacheLock), q) <=> Waits(cacheLock, q) /\ q # c
      /\ WaitOnce(Take(cacheLock))
  BY TakeRemovesHead DEF CacheInv, CacheOK
<1> QED BY <1>1 DEF CacheInv, CacheOK, Woken, Inside

\* What a caller does inside the lock keeps the invariant.
LEMMA LookUpKeeps ==
  ASSUME NEW c \in CacheUsers, CacheInv, NEW l, Inside(c, l), LookUp(c, l)
  PROVE  CacheInvNext
<1>1. /\ Leave(l) \in Locks(CacheUsers) /\ ~Leave(l).locked /\ WaitOnce(Leave(l))
      /\ \A q : Waits(Leave(l), q) <=> Waits(l, q)
  BY EnterLeave DEF Inside
<1>2. CASE tools # NoTools
  BY <1>1, <1>2 DEF LookUp, Inside, CacheInv, CacheInvNext, CacheOK
<1>3. CASE tools = NoTools
  BY <1>3 DEF LookUp, Inside, CacheInv, CacheInvNext, CacheOK
<1> QED BY <1>2, <1>3

LEMMA ClearKeeps ==
  ASSUME NEW c \in CacheUsers, CacheInv, NEW l, Inside(c, l), Clear(c, l)
  PROVE  CacheInvNext
<1>1. /\ Leave(l) \in Locks(CacheUsers) /\ ~Leave(l).locked /\ WaitOnce(Leave(l))
      /\ \A q : Waits(Leave(l), q) <=> Waits(l, q)
  BY EnterLeave DEF Inside
<1> QED BY <1>1 DEF Clear, Inside, CacheInv, CacheInvNext, CacheOK

-----------------------------------------------------------------------------
LEMMA GetKeeps ==
  ASSUME NEW c \in CacheUsers, CacheInv, Get(c) \/ ResumeGet(c)
  PROVE  CacheInvNext
BY WaitKeeps, EnterInside, TakeInside, LookUpKeeps DEF Get, ResumeGet

LEMMA InvalidateKeeps ==
  ASSUME NEW c \in CacheUsers, CacheInv, Invalidate(c) \/ ResumeInvalidate(c)
  PROVE  CacheInvNext
BY WaitKeeps, EnterInside, TakeInside, ClearKeeps DEF Invalidate, ResumeInvalidate

LEMMA FetchKeeps ==
  ASSUME NEW c \in CacheUsers, CacheInv, NEW list \in ToolLists, FetchReturns(c, list)
  PROVE  CacheInvNext
<1>1. /\ cacheLock' \in Locks(CacheUsers) /\ ~cacheLock'.locked /\ WaitOnce(cacheLock')
      /\ \A q : Waits(cacheLock', q) <=> Waits(cacheLock, q)
  BY EnterLeave DEF FetchReturns, CacheInv, CacheOK
<1> QED BY <1>1 DEF FetchReturns, CacheInv, CacheInvNext, CacheOK

LEMMA FetchRaisesKeeps ==
  ASSUME NEW c \in CacheUsers, CacheInv, FetchRaises(c)
  PROVE  CacheInvNext
<1>1. /\ cacheLock' \in Locks(CacheUsers) /\ ~cacheLock'.locked /\ WaitOnce(cacheLock')
      /\ \A q : Waits(cacheLock', q) <=> Waits(cacheLock, q)
  BY EnterLeave DEF FetchRaises, CacheInv, CacheOK
<1> QED BY <1>1 DEF FetchRaises, CacheInv, CacheInvNext, CacheOK

LEMMA CancelGetKeeps ==
  ASSUME NEW c \in CacheUsers, CacheInv, CancelGet(c)
  PROVE  CacheInvNext
<1>1. CASE getter[c] = "waiting"
  <2>1. cacheLock' = Withdraw(cacheLock, c) /\ Waits(cacheLock, c)
    BY <1>1 DEF CancelGet, CacheInv, CacheOK
  <2>2. /\ cacheLock' \in Locks(CacheUsers) /\ cacheLock'.locked = cacheLock.locked
        /\ \A q : Waits(cacheLock', q) <=> Waits(cacheLock, q) /\ q # c
        /\ WaitOnce(cacheLock')
    BY <2>1, WithdrawRemoves DEF CacheInv, CacheOK
  <2> QED BY <1>1, <2>2 DEF CancelGet, CacheInv, CacheInvNext, CacheOK
<1>2. CASE getter[c] = "fetching"
  <2>1. /\ cacheLock' \in Locks(CacheUsers) /\ ~cacheLock'.locked /\ WaitOnce(cacheLock')
        /\ \A q : Waits(cacheLock', q) <=> Waits(cacheLock, q)
    BY <1>2, EnterLeave DEF CancelGet, CacheInv, CacheOK
  <2> QED BY <1>2, <2>1 DEF CancelGet, CacheInv, CacheInvNext, CacheOK
<1> QED BY <1>1, <1>2 DEF CancelGet
=============================================================================
