------------------------- MODULE ConcurrencyLimiter -------------------------
(***************************************************************************)
(* ConcurrencyLimiter (gateway/limits.py): a counter of active executions  *)
(* per principal, refused at the ceiling, never queued for.  Its lock is   *)
(* never held across a suspension, so each operation is one step.  The     *)
(* context manager acquire() is the caller's: it is in CallPipeline.       *)
(***************************************************************************)
EXTENDS Naturals

CONSTANTS Principals, MaxConcurrent

VARIABLES
  active,                   \* ConcurrencyLimiter._active
  peak                      \* ConcurrencyLimiter._peak

limitVars == <<active, peak>>

LimitTypeOK ==
  /\ active \in [Principals -> Nat]
  /\ peak \in [Principals -> Nat]

LimitInit ==
  /\ active = [p \in Principals |-> 0]
  /\ peak = [p \in Principals |-> 0]

\* A mutant of TryAcquire: the ceiling is off by one.
TryAcquireOneMore(p, acquired) ==
  /\ acquired = (active[p] <= MaxConcurrent)
  /\ active' = IF acquired THEN [active EXCEPT ![p] = @ + 1] ELSE active
  /\ peak' = [peak EXCEPT ![p] = IF active'[p] > @ THEN active'[p] ELSE @]

TryAcquire(p, acquired) ==
  /\ acquired = (active[p] < MaxConcurrent)
  /\ active' = IF acquired THEN [active EXCEPT ![p] = @ + 1] ELSE active
  /\ peak' = [peak EXCEPT ![p] = IF active'[p] > @ THEN active'[p] ELSE @]

\* release(): the floor at zero is the code's own defence.
Release(p) ==
  /\ active' = [active EXCEPT ![p] = IF @ > 0 THEN @ - 1 ELSE 0]
  /\ UNCHANGED peak
=============================================================================
