----------------------------- MODULE ToolCache -----------------------------
(***************************************************************************)
(* UpstreamToolCache (gateway/bridge.py): get() holds an asyncio.Lock      *)
(* across `await upstream.list_tools()`, so a cold cache is filled by one  *)
(* fetch; invalidate() takes the same lock.  Each action runs from one     *)
(* suspension of a coroutine to the next.                                  *)
(***************************************************************************)
EXTENDS AsyncLock, Naturals, Sequences

CONSTANTS
  Getters,                  \* calls of get()
  Invalidators,             \* calls of invalidate()
  ToolLists,                \* what list_tools() may answer
  NoTools                   \* None

VARIABLES
  cacheLock,                \* UpstreamToolCache._lock
  tools,                    \* UpstreamToolCache._tools
  getter                    \* where each call stands

cacheVars == <<cacheLock, tools, getter>>

CacheUsers == Getters \cup Invalidators

CacheTypeOK ==
  /\ cacheLock \in Locks(CacheUsers)
  /\ tools \in ToolLists \cup {NoTools}
  /\ getter \in [CacheUsers -> {"idle", "waiting", "fetching", "got", "raised", "cancelled"}]

CacheInit ==
  /\ cacheLock = FreshLock
  /\ tools = NoTools
  /\ getter = [c \in CacheUsers |-> "idle"]

-----------------------------------------------------------------------------
\* Mutants of LookUp: the lock covers only the test, not the fetch; a filled cache
\* is left without releasing the lock.
LookUpUnlockedFetch(c, l) ==
  /\ cacheLock' = Leave(l)
  /\ getter' = [getter EXCEPT ![c] = IF tools # NoTools THEN "got" ELSE "fetching"]
  /\ UNCHANGED tools

LookUpKeepingLock(c, l) ==
  /\ cacheLock' = l
  /\ getter' = [getter EXCEPT ![c] = IF tools # NoTools THEN "got" ELSE "fetching"]
  /\ UNCHANGED tools

\* Another: whoever waited takes it that the cache has been filled meanwhile.
LookUpTrusting(c, l) ==
  /\ \/ /\ tools # NoTools \/ getter[c] = "waiting"
        /\ cacheLock' = Leave(l)
        /\ getter' = [getter EXCEPT ![c] = "got"]
     \/ /\ tools = NoTools /\ getter[c] # "waiting"
        /\ cacheLock' = l
        /\ getter' = [getter EXCEPT ![c] = "fetching"]
  /\ UNCHANGED tools

\* get() inside the lock, entered as l: a filled cache answers at once and the
\* lock is left again; an empty one suspends in list_tools() with the lock held.
LookUp(c, l) ==
  /\ \/ /\ tools # NoTools
        /\ cacheLock' = Leave(l)
        /\ getter' = [getter EXCEPT ![c] = "got"]
     \/ /\ tools = NoTools
        /\ cacheLock' = l
        /\ getter' = [getter EXCEPT ![c] = "fetching"]
  /\ UNCHANGED tools

Wait(c) ==
  /\ ~CanEnter(cacheLock)
  /\ cacheLock' = Queue(cacheLock, c)
  /\ getter' = [getter EXCEPT ![c] = "waiting"]
  /\ UNCHANGED tools

Get(c) ==
  /\ getter[c] = "idle"
  /\ \/ Wait(c)
     \/ CanEnter(cacheLock) /\ LookUp(c, Enter(cacheLock))

ResumeGet(c) ==
  /\ getter[c] = "waiting"
  /\ Woken(cacheLock, c)
  /\ LookUp(c, Take(cacheLock))

FetchReturns(c, list) ==
  /\ getter[c] = "fetching"
  /\ tools' = list
  /\ cacheLock' = Leave(cacheLock)
  /\ getter' = [getter EXCEPT ![c] = "got"]

\* A mutant of FetchRaises: the lock is released on the normal path only.
FetchRaisesKeepingLock(c) ==
  /\ getter[c] = "fetching"
  /\ getter' = [getter EXCEPT ![c] = "raised"]
  /\ UNCHANGED <<cacheLock, tools>>

FetchRaises(c) ==
  /\ getter[c] = "fetching"
  /\ cacheLock' = Leave(cacheLock)
  /\ getter' = [getter EXCEPT ![c] = "raised"]
  /\ UNCHANGED tools

\* A mutant of CancelGet: a cancelled waiter releases the lock it never had.
CancelGetReleasing(c) ==
  /\ \/ /\ getter[c] = "waiting"
        /\ cacheLock' = Leave(Withdraw(cacheLock, c))
     \/ /\ getter[c] = "fetching"
        /\ cacheLock' = Leave(cacheLock)
  /\ getter' = [getter EXCEPT ![c] = "cancelled"]
  /\ UNCHANGED tools

\* The caller is cancelled where it is suspended: in the queue, which an
\* invalidate() can be too, or in list_tools() with the lock held.
CancelGet(c) ==
  /\ \/ /\ getter[c] = "waiting"
        /\ cacheLock' = Withdraw(cacheLock, c)
     \/ /\ getter[c] = "fetching"
        /\ cacheLock' = Leave(cacheLock)
  /\ getter' = [getter EXCEPT ![c] = "cancelled"]
  /\ UNCHANGED tools

\* A mutant of Invalidate: the cache is emptied outside the lock.
InvalidateUnlocked(i) ==
  /\ getter[i] = "idle"
  /\ tools' = NoTools
  /\ getter' = [getter EXCEPT ![i] = "got"]
  /\ UNCHANGED cacheLock

\* invalidate(): it never suspends while it holds the lock.
Clear(i, l) ==
  /\ tools' = NoTools
  /\ cacheLock' = Leave(l)
  /\ getter' = [getter EXCEPT ![i] = "got"]

Invalidate(i) ==
  /\ getter[i] = "idle"
  /\ \/ Wait(i)
     \/ CanEnter(cacheLock) /\ Clear(i, Enter(cacheLock))

ResumeInvalidate(i) ==
  /\ getter[i] = "waiting"
  /\ Woken(cacheLock, i)
  /\ Clear(i, Take(cacheLock))
=============================================================================
