----------------------------- MODULE AsyncLock -----------------------------
(***************************************************************************)
(* asyncio.Lock, as the gateway uses it: `async with lock` in              *)
(* UpstreamToolCache (gateway/bridge.py) and AuditLogger                   *)
(* (telemetry/audit.py).  The lock belongs to the event loop, so each of   *)
(* its operations runs without interruption; what matters is the order in  *)
(* which coroutines get it.  A lock records whether it is taken and the    *)
(* FIFO of the coroutines suspended in acquire(); who holds it is a fact   *)
(* about the coroutines, not about the lock.                               *)
(***************************************************************************)
EXTENDS Naturals, Sequences

FreshLock == [locked |-> FALSE, waiters |-> <<>>]

Locks(P) == [locked : BOOLEAN, waiters : Seq(P)]

\* acquire() takes the lock without suspending only when nobody is ahead: a
\* released lock whose first waiter has been woken is not free.
CanEnter(l) == ~l.locked /\ l.waiters = <<>>

Enter(l) == [l EXCEPT !.locked = TRUE]

Queue(l, p) == [l EXCEPT !.waiters = Append(l.waiters, p)]

\* release() wakes the first waiter, which takes the lock when it next runs.
Woken(l, p) == ~l.locked /\ l.waiters # <<>> /\ Head(l.waiters) = p

Take(l) == [locked |-> TRUE, waiters |-> Tail(l.waiters)]

Leave(l) == [l EXCEPT !.locked = FALSE]

\* A waiter cancelled inside acquire() leaves the queue; if it had been woken
\* the wake-up passes to the next one, which Woken says by itself.
Withdraw(l, p) ==
  LET i == CHOOSE j \in DOMAIN l.waiters : l.waiters[j] = p
  IN  [l EXCEPT !.waiters = SubSeq(l.waiters, 1, i - 1)
                              \o SubSeq(l.waiters, i + 1, Len(l.waiters))]
=============================================================================
