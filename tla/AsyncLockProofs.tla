-------------------------- MODULE AsyncLockProofs --------------------------
(***************************************************************************)
(* What the operations of AsyncLock do to its queue, in the form in which  *)
(* the proofs about the components that use a lock cite it.                *)
(***************************************************************************)
EXTENDS AsyncLock, TLAPS

\* p waits for lock l.
Waits(l, p) == \E i \in DOMAIN l.waiters : l.waiters[i] = p

\* No coroutine waits for l twice.
WaitOnce(l) ==
  \A i, j \in DOMAIN l.waiters : l.waiters[i] = l.waiters[j] => i = j

\* p stands before q in the queue of l.
Ahead(l, p, q) ==
  \E i, j \in DOMAIN l.waiters : i < j /\ l.waiters[i] = p /\ l.waiters[j] = q

\* A coroutine that queues is a waiter from then on, with those there were.
LEMMA QueueAdds ==
  ASSUME NEW P, NEW l \in Locks(P), NEW p \in P
  PROVE  /\ Queue(l, p) \in Locks(P)
         /\ Queue(l, p).locked = l.locked
         /\ \A q : Waits(Queue(l, p), q) <=> Waits(l, q) \/ q = p
         /\ WaitOnce(l) /\ ~Waits(l, p) => WaitOnce(Queue(l, p))
BY DEF Queue, Locks, Waits, WaitOnce

\* The woken coroutine leaves the queue and holds the lock.
LEMMA TakeRemovesHead ==
  ASSUME NEW P, NEW l \in Locks(P), NEW p \in P, Woken(l, p), WaitOnce(l)
  PROVE  /\ Take(l) \in Locks(P)
         /\ Take(l).locked = TRUE
         /\ \A q : Waits(Take(l), q) <=> Waits(l, q) /\ q # p
         /\ WaitOnce(Take(l))
<1> DEFINE w == l.waiters
           v == Tail(w)
<1>1. w \in Seq(P) /\ w # <<>> /\ w[1] = p
  BY DEF Locks, Woken
<1>2. /\ v \in Seq(P) /\ Len(v) = Len(w) - 1
      /\ \A k \in 1..Len(v) : v[k] = w[k + 1]
  <2> HIDE DEF w
  <2> QED BY <1>1
<1>3. Take(l) \in Locks(P) /\ Take(l).locked = TRUE /\ Take(l).waiters = v
  BY <1>2 DEF Take, Locks
<1>4. \A q : Waits(Take(l), q) <=> Waits(l, q) /\ q # p
  <2> HIDE DEF v
  <2>1. ASSUME NEW q, Waits(l, q), q # p PROVE Waits(Take(l), q)
    <3>1. PICK k \in 1..Len(w) : w[k] = q
      BY <1>1, <2>1 DEF Waits
    <3>2. k - 1 \in 1..Len(v) /\ v[k - 1] = q
      BY <1>1, <1>2, <2>1, <3>1
    <3> QED BY <1>2, <1>3, <3>2 DEF Waits
  <2>2. ASSUME NEW q, Waits(Take(l), q) PROVE Waits(l, q) /\ q # p
    <3>1. PICK k \in 1..Len(v) : v[k] = q
      BY <1>2, <1>3, <2>2 DEF Waits
    <3> QED BY <1>1, <1>2, <3>1 DEF Waits, WaitOnce
  <2> QED BY <2>1, <2>2
<1>5. WaitOnce(Take(l))
  <2> HIDE DEF v
  <2> SUFFICES ASSUME NEW k \in 1..Len(v), NEW m \in 1..Len(v), v[k] = v[m] PROVE k = m
    BY <1>2, <1>3 DEF WaitOnce
  <2> QED BY <1>1, <1>2 DEF WaitOnce
<1> QED BY <1>3, <1>4, <1>5

\* A cancelled waiter's place closes up.
LEMMA WithdrawShape ==
  ASSUME NEW P, NEW l \in Locks(P), NEW p \in P, Waits(l, p)
  PROVE  /\ Withdraw(l, p) \in Locks(P) /\ Withdraw(l, p).locked = l.locked
         /\ l.waiters \in Seq(P) /\ Withdraw(l, p).waiters \in Seq(P)
         /\ Len(Withdraw(l, p).waiters) = Len(l.waiters) - 1
         /\ \E i \in 1..Len(l.waiters) :
              /\ l.waiters[i] = p
              /\ \A k \in 1..(Len(l.waiters) - 1) :
                   Withdraw(l, p).waiters[k] = IF k < i THEN l.waiters[k] ELSE l.waiters[k + 1]
<1> DEFINE w == l.waiters
           i == CHOOSE j \in DOMAIN w : w[j] = p
           v == SubSeq(w, 1, i - 1) \o SubSeq(w, i + 1, Len(w))
<1>1. w \in Seq(P) /\ i \in 1..Len(w) /\ w[i] = p
  BY DEF Locks, Waits
<1>2. /\ v \in Seq(P) /\ Len(v) = Len(w) - 1
      /\ \A k \in 1..Len(v) : v[k] = IF k < i THEN w[k] ELSE w[k + 1]
  <2> DEFINE a == SubSeq(w, 1, i - 1)
             b == SubSeq(w, i + 1, Len(w))
  <2> HIDE DEF i, w
  <2>1. /\ a \in Seq(P) /\ Len(a) = i - 1
        /\ \A k \in 1..(i - 1) : a[k] = w[k]
    BY <1>1
  <2>2. /\ b \in Seq(P) /\ Len(b) = Len(w) - i
        /\ \A k \in 1..(Len(w) - i) : b[k] = w[i + k]
    BY <1>1
  <2>3. /\ a \o b \in Seq(P) /\ Len(a \o b) = Len(a) + Len(b)
        /\ \A k \in 1..Len(a) : (a \o b)[k] = a[k]
        /\ \A k \in (Len(a) + 1)..(Len(a) + Len(b)) : (a \o b)[k] = b[k - Len(a)]
    <3> HIDE DEF a, b
    <3> QED BY <2>1, <2>2
  <2>4. v = a \o b
    OBVIOUS
  <2> HIDE DEF a, b, v
  <2>5. v \in Seq(P) /\ Len(v) = Len(w) - 1
    BY <1>1, <2>1, <2>2, <2>3, <2>4
  <2>6. ASSUME NEW k \in 1..Len(v) PROVE v[k] = IF k < i THEN w[k] ELSE w[k + 1]
    <3>1. CASE k < i
      BY <1>1, <2>1, <2>3, <2>4, <3>1
    <3>2. CASE ~(k < i)
      <4>1. k \in (Len(a) + 1)..(Len(a) + Len(b)) /\ k - Len(a) \in 1..(Len(w) - i)
        BY <1>1, <2>1, <2>2, <2>5, <3>2
      <4>2. v[k] = b[k - Len(a)]
        BY <2>3, <2>4, <4>1
      <4>3. b[k - Len(a)] = w[i + (k - Len(a))] /\ i + (k - Len(a)) = k + 1
        BY <1>1, <2>1, <2>2, <4>1
      <4> QED BY <3>2, <4>2, <4>3
    <3> QED BY <3>1, <3>2
  <2> QED BY <2>5, <2>6
<1>3. Withdraw(l, p) = [l EXCEPT !.waiters = v]
  BY DEF Withdraw
<1>4. Withdraw(l, p) \in Locks(P) /\ Withdraw(l, p).locked = l.locked /\ Withdraw(l, p).waiters = v
  BY <1>2, <1>3 DEF Locks
<1> HIDE DEF i, v
<1> QED BY <1>1, <1>2, <1>4

\* A cancelled waiter leaves the queue and nobody else does.
LEMMA WithdrawRemoves ==
  ASSUME NEW P, NEW l \in Locks(P), NEW p \in P, Waits(l, p), WaitOnce(l)
  PROVE  /\ Withdraw(l, p) \in Locks(P)
         /\ Withdraw(l, p).locked = l.locked
         /\ \A q : Waits(Withdraw(l, p), q) <=> Waits(l, q) /\ q # p
         /\ WaitOnce(Withdraw(l, p))
<1> DEFINE w == l.waiters
           v == Withdraw(l, p).waiters
<1>1. /\ Withdraw(l, p) \in Locks(P) /\ Withdraw(l, p).locked = l.locked
      /\ w \in Seq(P) /\ v \in Seq(P) /\ Len(v) = Len(w) - 1
  BY WithdrawShape
<1>2. PICK i \in 1..Len(w) :
        w[i] = p /\ \A k \in 1..(Len(w) - 1) : v[k] = IF k < i THEN w[k] ELSE w[k + 1]
  BY WithdrawShape
<1> HIDE DEF w, v
<1>3. DOMAIN w = 1..Len(w) /\ DOMAIN v = 1..(Len(w) - 1) /\ Len(w) \in Nat /\ Len(v) = Len(w) - 1
  BY <1>1
<1>4. /\ \A q : Waits(l, q) <=> \E k \in 1..Len(w) : w[k] = q
      /\ \A q : Waits(Withdraw(l, p), q) <=> \E k \in 1..Len(v) : v[k] = q
      /\ \A k, m \in 1..Len(w) : w[k] = w[m] => k = m
  BY <1>3 DEF Waits, WaitOnce, w, v
<1>5. \A q : Waits(Withdraw(l, p), q) <=> Waits(l, q) /\ q # p
  <2>1. ASSUME NEW q, Waits(l, q), q # p PROVE Waits(Withdraw(l, p), q)
    <3>1. PICK k \in 1..Len(w) : w[k] = q
      BY <1>4, <2>1
    <3>2. CASE k < i
      BY <1>2, <1>3, <1>4, <3>1, <3>2
    <3>3. CASE ~(k < i)
      <4>1. k - 1 \in 1..(Len(w) - 1) /\ ~(k - 1 < i) /\ (k - 1) + 1 = k
        BY <1>2, <1>3, <2>1, <3>1, <3>3
      <4> QED BY <1>2, <1>3, <1>4, <3>1, <4>1
    <3> QED BY <3>2, <3>3
  <2>2. ASSUME NEW q, Waits(Withdraw(l, p), q) PROVE Waits(l, q) /\ q # p
    <3>1. PICK k \in 1..(Len(w) - 1) : v[k] = q
      BY <1>3, <1>4, <2>2
    <3>2. PICK m \in 1..Len(w) : m # i /\ w[m] = q
      BY <1>2, <1>3, <3>1
    <3> QED BY <1>2, <1>4, <3>2
  <2> QED BY <2>1, <2>2
<1>6. WaitOnce(Withdraw(l, p))
  <2> SUFFICES ASSUME NEW k \in 1..(Len(w) - 1), NEW m \in 1..(Len(w) - 1), v[k] = v[m]
               PROVE  k = m
    BY <1>3 DEF WaitOnce, v
  <2> QED BY <1>2, <1>3, <1>4
<1> QED BY <1>1, <1>5, <1>6

\* Entering and leaving the lock touch no queue.
LEMMA EnterLeave ==
  ASSUME NEW P, NEW l \in Locks(P)
  PROVE  /\ Enter(l) \in Locks(P) /\ Enter(l).locked
         /\ Leave(l) \in Locks(P) /\ ~Leave(l).locked
         /\ \A q : /\ Waits(Enter(l), q) <=> Waits(l, q)
                   /\ Waits(Leave(l), q) <=> Waits(l, q)
         /\ WaitOnce(l) => WaitOnce(Enter(l)) /\ WaitOnce(Leave(l))
BY DEF Enter, Leave, Locks, Waits, WaitOnce

-----------------------------------------------------------------------------
\* The queue is first come, first served: whoever queues stands behind everyone,
\* whoever is woken stood before everyone, and leaving turns nobody around.
LEMMA QueueIsLast ==
  ASSUME NEW P, NEW l \in Locks(P), NEW p \in P
  PROVE  \A q, r : Ahead(Queue(l, p), q, r) => Ahead(l, q, r) \/ (r = p /\ Waits(l, q))
<1>1. l.waiters \in Seq(P) /\ Queue(l, p).waiters = Append(l.waiters, p)
  BY DEF Locks, Queue
<1> DEFINE w == l.waiters
<1>2. /\ DOMAIN Append(w, p) = 1..(Len(w) + 1) /\ DOMAIN w = 1..Len(w) /\ Len(w) \in Nat
      /\ \A k \in DOMAIN w : Append(w, p)[k] = w[k]
      /\ Append(w, p)[Len(w) + 1] = p
  BY <1>1
<1> QED BY <1>1, <1>2 DEF Ahead, Waits

LEMMA WokenIsFirst ==
  ASSUME NEW P, NEW l \in Locks(P), NEW p \in P, Woken(l, p)
  PROVE  /\ \A q : Waits(l, q) /\ q # p => Ahead(l, p, q)
         /\ \A q, r : Ahead(Take(l), q, r) => Ahead(l, q, r)
<1> DEFINE w == l.waiters
<1>1. w \in Seq(P) /\ w # <<>> /\ w[1] = p /\ Take(l).waiters = Tail(w)
  BY DEF Locks, Woken, Take
<1> HIDE DEF w
<1>2. /\ DOMAIN w = 1..Len(w) /\ Len(w) \in Nat \ {0}
      /\ DOMAIN Tail(w) = 1..(Len(w) - 1)
      /\ \A k \in 1..(Len(w) - 1) : Tail(w)[k] = w[k + 1]
  BY <1>1
<1>3. ASSUME NEW q, Waits(l, q), q # p PROVE Ahead(l, p, q)
  <2>1. PICK k \in 1..Len(w) : w[k] = q
    BY <1>2, <1>3 DEF Waits, w
  <2> QED BY <1>1, <1>2, <1>3, <2>1 DEF Ahead, w
<1>4. ASSUME NEW q, NEW r, Ahead(Take(l), q, r) PROVE Ahead(l, q, r)
  <2>1. PICK i \in 1..(Len(w) - 1), j \in 1..(Len(w) - 1) :
               i < j /\ Tail(w)[i] = q /\ Tail(w)[j] = r
    BY <1>1, <1>2, <1>4 DEF Ahead
  <2>2. i + 1 \in DOMAIN w /\ j + 1 \in DOMAIN w /\ i + 1 < j + 1 /\ w[i + 1] = q /\ w[j + 1] = r
    BY <1>2, <2>1
  <2> QED BY <2>2 DEF Ahead, w
<1> QED BY <1>3, <1>4

LEMMA WithdrawKeepsOrder ==
  ASSUME NEW P, NEW l \in Locks(P), NEW p \in P, Waits(l, p)
  PROVE  \A q, r : Ahead(Withdraw(l, p), q, r) => Ahead(l, q, r)
<1> DEFINE w == l.waiters
           v == Withdraw(l, p).waiters
<1>1. w \in Seq(P) /\ v \in Seq(P) /\ Len(v) = Len(w) - 1
  BY WithdrawShape
<1>2. PICK i \in 1..Len(w) : \A k \in 1..(Len(w) - 1) : v[k] = IF k < i THEN w[k] ELSE w[k + 1]
  BY WithdrawShape
<1> HIDE DEF w, v
<1>3. DOMAIN w = 1..Len(w) /\ Len(w) \in Nat /\ DOMAIN v = 1..(Len(w) - 1)
  BY <1>1
<1> SUFFICES ASSUME NEW q, NEW r, NEW a \in 1..(Len(w) - 1), NEW b \in 1..(Len(w) - 1),
                    a < b, v[a] = q, v[b] = r
             PROVE  Ahead(l, q, r)
  BY <1>3 DEF Ahead, v
<1> DEFINE c == IF a < i THEN a ELSE a + 1
           d == IF b < i THEN b ELSE b + 1
<1>4. c \in DOMAIN w /\ d \in DOMAIN w /\ c < d /\ w[c] = q /\ w[d] = r
  BY <1>1, <1>2, <1>3
<1> QED BY <1>4 DEF Ahead, w
=============================================================================
