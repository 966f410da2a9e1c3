--------------------------- MODULE AuditLogProofs ---------------------------
(***************************************************************************)
(* Proofs that the audit log keeps its invariants for any set of           *)
(* emissions, cancelled and failing as they may be.                        *)
(*                                                                         *)
(* The inductive invariant is stated over values (a lock l, writers w,     *)
(* jobs j, lines f, calls a) rather than over the variables, because a cancelled    *)
(* emission that is followed by another in the same step passes through an *)
(* intermediate value that no state of the behaviour shows.                *)
(***************************************************************************)
EXTENDS AuditLog, AsyncLockProofs

TurnsOK(l, w) ==
  /\ l \in Locks(Emissions)
  /\ w \in [Emissions -> WriterStates]
  /\ l.locked <=> \E e \in Emissions : w[e] = "writing"
  /\ \A e, f \in Emissions : w[e] = "writing" /\ w[f] = "writing" => e = f
  /\ \A e \in Emissions : w[e] = "waiting" <=> Waits(l, e)
  /\ WaitOnce(l)

\* Where an emission's job can be, given where its coroutine is.
JobsOK(w, j) ==
  /\ j \in [Emissions -> JobStates]
  /\ \A e \in Emissions :
       /\ w[e] \in {"idle", "waiting"} => j[e] = "none"
       /\ w[e] = "writing" => j[e] \in {"queued", "running", "ok", "failed"}
       /\ w[e] = "returned" => j[e] = "ok"
       /\ w[e] = "raised" => j[e] = "failed"
       /\ w[e] = "cancelled" => j[e] # "queued"

LinesOK(j, f) ==
  /\ f \in Seq(Emissions)
  /\ \A i, k \in DOMAIN f : f[i] = f[k] => i = k
  /\ \A e \in Emissions : j[e] = "ok" <=> \E i \in DOMAIN f : f[i] = e

\* Emission e has had its turn before d has: it left the lock and d did not, or it
\* holds the lock and d waits.
TurnBefore(w, e, d) ==
  \/ w[e] \in {"returned", "raised"} /\ w[d] \in {"waiting", "writing"}
  \/ w[e] = "writing" /\ w[d] = "waiting"

\* Turns are given in the order a of the calls, and so the lines are.
OrderOK(l, w, f, a) ==
  /\ a \in Seq(Emissions)
  /\ \A e \in Emissions : w[e] # "idle" <=> \E i \in DOMAIN a : a[i] = e
  /\ \A e, d \in Emissions : Ahead(l, e, d) \/ TurnBefore(w, e, d) => Before(a, e, d)
  /\ \A e, d \in Emissions :
       Before(f, e, d) /\ w[e] # "cancelled" /\ w[d] # "cancelled" => Before(a, e, d)

AuditOK(l, w, j, f, a) == TurnsOK(l, w) /\ JobsOK(w, j) /\ LinesOK(j, f) /\ OrderOK(l, w, f, a)

AuditInv == AuditOK(auditLock, writer, job, file, asked)

AuditInvNext == AuditOK(auditLock', writer', job', file', asked')

-----------------------------------------------------------------------------
\* The inductive invariant gives the type invariant and the four properties.
LEMMA AuditInvImplies ==
  ASSUME AuditInv
  PROVE  AuditTypeOK /\ TurnsAreExclusive /\ LinesMatchJobs /\ OnlyOrphansOverlap /\ CallOrder
<1>1. AuditTypeOK
  BY DEF AuditInv, AuditOK, TurnsOK, JobsOK, LinesOK, OrderOK, AuditTypeOK
<1>2. TurnsAreExclusive
  BY DEF AuditInv, AuditOK, TurnsOK, TurnsAreExclusive, Waits, WaitOnce
<1>3. LinesMatchJobs
  BY DEF AuditInv, AuditOK, JobsOK, LinesOK, LinesMatchJobs
<1>4. OnlyOrphansOverlap
  <2> SUFFICES ASSUME NEW e \in Emissions, NEW f \in Emissions, e # f,
                      job[e] = "running", job[f] = "running"
               PROVE  writer[e] = "cancelled" \/ writer[f] = "cancelled"
    BY DEF OnlyOrphansOverlap, Orphaned
  <2>1. writer[e] \in {"writing", "cancelled"} /\ writer[f] \in {"writing", "cancelled"}
    BY DEF AuditInv, AuditOK, TurnsOK, JobsOK, WriterStates
  <2> QED BY <2>1 DEF AuditInv, AuditOK, TurnsOK
<1>5. CallOrder
  BY DEF AuditInv, AuditOK, OrderOK, CallOrder
<1> QED BY <1>1, <1>2, <1>3, <1>4, <1>5

LEMMA AuditInvInit == AuditInit => AuditInv
BY DEF AuditInit, AuditInv, AuditOK, TurnsOK, JobsOK, LinesOK, Waits, WaitOnce,
       OrderOK, TurnBefore, Ahead, Before, FreshLock, Locks, WriterStates, JobStates

-----------------------------------------------------------------------------
\* The last element of a sequence stands behind all others.
LEMMA AppendedIsLast ==
  ASSUME NEW S, NEW s \in Seq(S), NEW x \in S
  PROVE  /\ Append(s, x) \in Seq(S)
         /\ \A e : (\E i \in DOMAIN Append(s, x) : Append(s, x)[i] = e)
                   <=> (e = x \/ \E i \in DOMAIN s : s[i] = e)
         /\ \A e, d : Before(Append(s, x), e, d)
                      <=> Before(s, e, d) \/ (d = x /\ \E i \in DOMAIN s : s[i] = e)
<1>1. /\ Append(s, x) \in Seq(S) /\ DOMAIN Append(s, x) = 1..(Len(s) + 1)
      /\ DOMAIN s = 1..Len(s) /\ Len(s) \in Nat
      /\ \A k \in DOMAIN s : Append(s, x)[k] = s[k]
      /\ Append(s, x)[Len(s) + 1] = x
  OBVIOUS
<1> DEFINE t == Append(s, x)
<1> HIDE DEF t
<1>2. \A e : (\E i \in DOMAIN t : t[i] = e) <=> (e = x \/ \E i \in DOMAIN s : s[i] = e)
  BY <1>1 DEF t
<1>3. ASSUME NEW e, NEW d, Before(t, e, d)
      PROVE  Before(s, e, d) \/ (d = x /\ \E i \in DOMAIN s : s[i] = e)
  <2>1. PICK i \in DOMAIN t, k \in DOMAIN t : i < k /\ t[i] = e /\ t[k] = d
    BY <1>3 DEF Before
  <2>2. i \in DOMAIN s /\ s[i] = e
    BY <1>1, <2>1 DEF t
  <2> QED BY <1>1, <2>1, <2>2 DEF t, Before
<1>4. ASSUME NEW e, NEW d, Before(s, e, d) \/ (d = x /\ \E i \in DOMAIN s : s[i] = e)
      PROVE  Before(t, e, d)
  BY <1>1, <1>4 DEF t, Before
<1> QED BY <1>1, <1>2, <1>3, <1>4 DEF t

\* emit() up to its first suspension keeps whatever values it started from good.
LEMMA ReachKeeps ==
  ASSUME NEW e \in Emissions, NEW l, NEW w, NEW j,
         AuditOK(l, w, j, file, asked), w[e] = "idle", Reach(e, l, w, j)
  PROVE  AuditInvNext
<1> USE DEF AuditOK
<1>1. TurnsOK(auditLock', writer')
  <2>1. CASE CanEnter(l)
    <3>1. auditLock' = Enter(l) /\ writer' = [w EXCEPT ![e] = "writing"]
      BY <2>1 DEF Reach
    <3>2. /\ Enter(l) \in Locks(Emissions) /\ Enter(l).locked
          /\ \A q : Waits(Enter(l), q) <=> Waits(l, q)
          /\ WaitOnce(Enter(l))
      BY DEF TurnsOK, Enter, Locks, Waits, WaitOnce
    <3>3. \A f \in Emissions : w[f] # "writing"
      BY <2>1 DEF TurnsOK, CanEnter
    <3> QED BY <3>1, <3>2, <3>3 DEF TurnsOK, WriterStates
  <2>2. CASE ~CanEnter(l)
    <3>1. auditLock' = Queue(l, e) /\ writer' = [w EXCEPT ![e] = "waiting"]
      BY <2>2 DEF Reach
    <3>2. ~Waits(l, e) /\ l \in Locks(Emissions) /\ WaitOnce(l)
      BY DEF TurnsOK
    <3>3. /\ Queue(l, e) \in Locks(Emissions) /\ Queue(l, e).locked = l.locked
          /\ \A q : Waits(Queue(l, e), q) <=> Waits(l, q) \/ q = e
          /\ WaitOnce(Queue(l, e))
      BY <3>2, QueueAdds
    <3> QED BY <3>1, <3>3 DEF TurnsOK, WriterStates
  <2> QED BY <2>1, <2>2
<1>2. JobsOK(writer', job')
  BY DEF Reach, TurnsOK, JobsOK, JobStates, WriterStates
<1>3. LinesOK(job', file')
  BY DEF Reach, JobsOK, LinesOK
<1>4. OrderOK(auditLock', writer', file', asked')
  <2>1. /\ file' = file /\ asked' = Append(asked, e) /\ asked \in Seq(Emissions)
        /\ l \in Locks(Emissions) /\ w \in [Emissions -> WriterStates]
        /\ \A d \in Emissions : w[d] # "idle" <=> \E i \in DOMAIN asked : asked[i] = d
    BY DEF Reach, OrderOK, TurnsOK
  <2>2. /\ asked' \in Seq(Emissions)
        /\ \A d \in Emissions : (\E i \in DOMAIN asked' : asked'[i] = d) <=> d = e \/ w[d] # "idle"
        /\ \A c, d \in Emissions :
             Before(asked', c, d) <=> Before(asked, c, d) \/ (d = e /\ w[c] # "idle")
    BY <2>1, AppendedIsLast
  <2>3. /\ writer'[e] \in {"waiting", "writing"} /\ \A d \in Emissions \ {e} : writer'[d] = w[d]
        /\ \A d \in Emissions : writer'[d] = "cancelled" <=> w[d] = "cancelled"
    BY <2>1 DEF Reach, WriterStates
  <2>4. \A c, d \in Emissions : Ahead(auditLock', c, d) => Ahead(l, c, d) \/ (d = e /\ w[c] # "idle")
    <3>1. CASE CanEnter(l)
      BY <3>1 DEF Reach, Enter, Ahead, TurnsOK, Locks
    <3>2. CASE ~CanEnter(l)
      <4>1. \A c, d : Ahead(auditLock', c, d) => Ahead(l, c, d) \/ (d = e /\ Waits(l, c))
        BY <2>1, <3>2, QueueIsLast DEF Reach
      <4>2. \A c \in Emissions : Waits(l, c) => w[c] # "idle"
        BY DEF TurnsOK
      <4> QED BY <4>1, <4>2
    <3> QED BY <3>1, <3>2
  <2>5. \A c, d \in Emissions : TurnBefore(writer', c, d) => TurnBefore(w, c, d) \/ (d = e /\ w[c] # "idle")
    <3> SUFFICES ASSUME NEW c \in Emissions, NEW d \in Emissions, TurnBefore(writer', c, d)
                 PROVE  TurnBefore(w, c, d) \/ (d = e /\ w[c] # "idle")
      OBVIOUS
    <3>1. CASE c # e /\ d # e
      BY <2>3, <3>1 DEF TurnBefore
    <3>2. CASE c # e /\ d = e
      BY <2>3, <3>2 DEF TurnBefore
    <3>3. CASE c = e
      <4>1. writer'[e] = "writing" /\ writer'[d] = "waiting"
        BY <2>3, <3>3 DEF TurnBefore
      <4>2. CanEnter(l) /\ d # e
        BY <2>1, <4>1 DEF Reach
      <4>3. w[d] = "waiting"
        BY <2>3, <4>1, <4>2
      <4> QED BY <4>2, <4>3 DEF TurnsOK, Waits, CanEnter
    <3> QED BY <3>1, <3>2, <3>3
  <2>6. \A c, d \in Emissions : Ahead(l, c, d) \/ TurnBefore(w, c, d) => Before(asked, c, d)
    BY DEF OrderOK
  <2>7. \A c, d \in Emissions : Before(file, c, d) /\ w[c] # "cancelled" /\ w[d] # "cancelled"
                                 => Before(asked, c, d)
    BY DEF OrderOK
  <2>8. \A d \in Emissions : writer'[d] # "idle" <=> d = e \/ w[d] # "idle"
    BY <2>3
  <2>9. \A c, d \in Emissions : Ahead(auditLock', c, d) \/ TurnBefore(writer', c, d) => Before(asked', c, d)
    BY <2>2, <2>4, <2>5, <2>6
  <2> QED BY <2>1, <2>2, <2>3, <2>7, <2>8, <2>9 DEF OrderOK
<1> QED BY <1>1, <1>2, <1>3, <1>4 DEF AuditInvNext

\* An emission that ends with its lock in hand leaves good values.
LEMMA LeaveKeeps ==
  ASSUME NEW e \in Emissions, AuditInv, writer[e] = "writing",
         NEW how \in {"returned", "raised"},
         job[e] = IF how = "returned" THEN "ok" ELSE "failed"
  PROVE  AuditOK(Leave(auditLock), [writer EXCEPT ![e] = how], job, file, asked)
<1> DEFINE l == Leave(auditLock)
           w == [writer EXCEPT ![e] = how]
<1>1. /\ l \in Locks(Emissions) /\ ~l.locked
      /\ \A q : Waits(l, q) <=> Waits(auditLock, q)
      /\ WaitOnce(l)
  BY DEF AuditInv, AuditOK, TurnsOK, Leave, Locks, Waits, WaitOnce
<1>2. TurnsOK(l, w)
  BY <1>1 DEF AuditInv, AuditOK, TurnsOK, WriterStates
<1>3. JobsOK(w, job)
  BY DEF AuditInv, AuditOK, TurnsOK, JobsOK, WriterStates
<1>4. OrderOK(l, w, file, asked)
  <2>1. \A c, d \in Emissions : TurnBefore(w, c, d) => TurnBefore(writer, c, d)
    BY DEF AuditInv, AuditOK, TurnsOK, TurnBefore
  <2>2. \A c, d : Ahead(l, c, d) <=> Ahead(auditLock, c, d)
    BY DEF AuditInv, AuditOK, TurnsOK, Leave, Locks, Ahead
  <2>3. \A d \in Emissions : /\ w[d] = "idle" <=> writer[d] = "idle"
                             /\ w[d] = "cancelled" <=> writer[d] = "cancelled"
    BY DEF AuditInv, AuditOK, TurnsOK
  <2> HIDE DEF l, w
  <2> QED BY <2>1, <2>2, <2>3 DEF AuditInv, AuditOK, OrderOK
<1> QED BY <1>2, <1>3, <1>4 DEF AuditInv, AuditOK

\* A cancelled emission leaves good values, waiting or writing.
LEMMA CancelKeeps ==
  ASSUME NEW e \in Emissions, AuditInv, writer[e] \in {"waiting", "writing"}
  PROVE  AuditOK(LockWithout(e), [writer EXCEPT ![e] = "cancelled"], JobsWithout(e), file, asked)
<1> DEFINE l == LockWithout(e)
           w == [writer EXCEPT ![e] = "cancelled"]
           j == JobsWithout(e)
<1>1. TurnsOK(l, w)
  <2>1. CASE writer[e] = "waiting"
    <3>1. l = Withdraw(auditLock, e) /\ Waits(auditLock, e)
      BY <2>1 DEF LockWithout, AuditInv, AuditOK, TurnsOK
    <3>2. /\ l \in Locks(Emissions) /\ l.locked = auditLock.locked
          /\ \A q : Waits(l, q) <=> Waits(auditLock, q) /\ q # e
          /\ WaitOnce(l)
      BY <3>1, WithdrawRemoves DEF AuditInv, AuditOK, TurnsOK
    <3> HIDE DEF l
    <3> QED BY <2>1, <3>2 DEF AuditInv, AuditOK, TurnsOK, WriterStates
  <2>2. CASE writer[e] = "writing"
    <3>1. l = Leave(auditLock)
      BY <2>2 DEF LockWithout
    <3>2. /\ l \in Locks(Emissions) /\ ~l.locked
          /\ \A q : Waits(l, q) <=> Waits(auditLock, q)
          /\ WaitOnce(l)
      BY <3>1, EnterLeave DEF AuditInv, AuditOK, TurnsOK
    <3> HIDE DEF l
    <3> QED BY <2>2, <3>2 DEF AuditInv, AuditOK, TurnsOK, WriterStates
  <2> QED BY <2>1, <2>2
<1>2. JobsOK(w, j)
  BY DEF AuditInv, AuditOK, TurnsOK, JobsOK, JobsWithout, WriterStates, JobStates
<1>3. LinesOK(j, file)
  BY DEF AuditInv, AuditOK, JobsOK, LinesOK, JobsWithout, JobStates
<1>4. OrderOK(l, w, file, asked)
  <2>1. \A c, d \in Emissions : TurnBefore(w, c, d) => TurnBefore(writer, c, d)
    BY DEF AuditInv, AuditOK, TurnsOK, TurnBefore
  <2>2. \A c, d : Ahead(l, c, d) => Ahead(auditLock, c, d)
    <3>1. CASE writer[e] = "waiting"
      BY <3>1, WithdrawKeepsOrder DEF LockWithout, AuditInv, AuditOK, TurnsOK
    <3>2. CASE writer[e] = "writing"
      BY <3>2 DEF LockWithout, Leave, Locks, Ahead, AuditInv, AuditOK, TurnsOK
    <3> QED BY <3>1, <3>2
  <2>3. \A d \in Emissions : /\ w[d] = "idle" <=> writer[d] = "idle"
                             /\ w[d] # "cancelled" => writer[d] # "cancelled"
    BY DEF AuditInv, AuditOK, TurnsOK
  <2> HIDE DEF l, w
  <2> QED BY <2>1, <2>2, <2>3 DEF AuditInv, AuditOK, OrderOK
<1> QED BY <1>1, <1>2, <1>3, <1>4 DEF AuditOK

-----------------------------------------------------------------------------
\* One lemma for every operation a coroutine or a thread performs.
LEMMA EmitKeeps == ASSUME NEW e \in Emissions, AuditInv, Emit(e) PROVE AuditInvNext
BY ReachKeeps DEF AuditInv, Emit

LEMMA CancelThenEmitKeeps ==
  ASSUME NEW e \in Emissions, NEW f \in Emissions, AuditInv, CancelThenEmit(e, f)
  PROVE  AuditInvNext
<1> DEFINE w == [writer EXCEPT ![e] = "cancelled"]
<1>1. AuditOK(LockWithout(e), w, JobsWithout(e), file, asked)
  BY CancelKeeps DEF CancelThenEmit
<1>2. w[f] = "idle" /\ Reach(f, LockWithout(e), w, JobsWithout(e))
  BY DEF CancelThenEmit, AuditInv, AuditOK, TurnsOK
<1> HIDE DEF w
<1> QED BY <1>1, <1>2, ReachKeeps

LEMMA FailThenEmitKeeps ==
  ASSUME NEW e \in Emissions, NEW f \in Emissions, AuditInv, FailThenEmit(e, f)
  PROVE  AuditInvNext
<1> DEFINE w == [writer EXCEPT ![e] = "raised"]
<1>1. AuditOK(Leave(auditLock), w, job, file, asked)
  BY LeaveKeeps DEF FailThenEmit
<1>2. w[f] = "idle" /\ Reach(f, Leave(auditLock), w, job)
  BY DEF FailThenEmit, AuditInv, AuditOK, TurnsOK
<1> HIDE DEF w
<1> QED BY <1>1, <1>2, ReachKeeps

LEMMA CancelEndKeeps == ASSUME NEW e \in Emissions, AuditInv, Cancel(e) PROVE AuditInvNext
BY CancelKeeps DEF Cancel, AuditInvNext

LEMMA EndKeeps ==
  ASSUME NEW e \in Emissions, AuditInv, Complete(e) \/ Fail(e)
  PROVE  AuditInvNext
BY LeaveKeeps DEF Complete, Fail, AuditInvNext

LEMMA TurnKeeps == ASSUME NEW e \in Emissions, AuditInv, TakeTurn(e) PROVE AuditInvNext
<1>1. /\ auditLock' \in Locks(Emissions) /\ auditLock'.locked
      /\ \A q : Waits(auditLock', q) <=> Waits(auditLock, q) /\ q # e
      /\ WaitOnce(auditLock')
  BY TakeRemovesHead DEF TakeTurn, AuditInv, AuditOK, TurnsOK
<1>2. TurnsOK(auditLock', writer')
  BY <1>1 DEF TakeTurn, Woken, AuditInv, AuditOK, TurnsOK, WriterStates
<1>3. JobsOK(writer', job')
  BY DEF TakeTurn, AuditInv, AuditOK, TurnsOK, JobsOK, WriterStates, JobStates
<1>4. LinesOK(job', file')
  BY DEF TakeTurn, AuditInv, AuditOK, JobsOK, LinesOK
<1>5. OrderOK(auditLock', writer', file', asked')
  <2>1. /\ file' = file /\ asked' = asked
        /\ \A c, d : Ahead(auditLock', c, d) => Ahead(auditLock, c, d)
        /\ \A d : Waits(auditLock, d) /\ d # e => Ahead(auditLock, e, d)
    BY WokenIsFirst DEF TakeTurn, AuditInv, AuditOK, TurnsOK
  <2>2. /\ writer[e] = "waiting" /\ writer'[e] = "writing"
        /\ \A d \in Emissions \ {e} : writer'[d] = writer[d]
    BY DEF TakeTurn, AuditInv, AuditOK, TurnsOK
  <2>3. \A c, d \in Emissions : TurnBefore(writer', c, d) => TurnBefore(writer, c, d) \/ Ahead(auditLock, c, d)
    <3> SUFFICES ASSUME NEW c \in Emissions, NEW d \in Emissions, TurnBefore(writer', c, d)
                 PROVE  TurnBefore(writer, c, d) \/ Ahead(auditLock, c, d)
      OBVIOUS
    <3>1. CASE c # e
      BY <2>2, <3>1 DEF TurnBefore
    <3>2. CASE c = e
      <4>1. writer[d] = "waiting" /\ d # e
        BY <2>2, <3>2 DEF TurnBefore
      <4> QED BY <2>1, <3>2, <4>1 DEF AuditInv, AuditOK, TurnsOK
    <3> QED BY <3>1, <3>2
  <2>4. \A d \in Emissions : /\ writer'[d] = "idle" <=> writer[d] = "idle"
                             /\ writer'[d] = "cancelled" <=> writer[d] = "cancelled"
    BY <2>2
  <2>5. OrderOK(auditLock, writer, file, asked)
    BY DEF AuditInv, AuditOK
  <2> QED BY <2>1, <2>3, <2>4, <2>5 DEF OrderOK
<1> QED BY <1>2, <1>3, <1>4, <1>5 DEF AuditInvNext, AuditOK

LEMMA ThreadKeeps ==
  ASSUME NEW e \in Emissions, AuditInv,
         ThreadStarts(e) \/ ThreadAppends(e) \/ ThreadFails(e)
  PROVE  AuditInvNext
<1> USE DEF ThreadStarts, ThreadAppends, ThreadFails
<1>1. TurnsOK(auditLock', writer')
  BY DEF AuditInv, AuditOK
<1>2. JobsOK(writer', job')
  BY DEF AuditInv, AuditOK, TurnsOK, JobsOK, JobStates, WriterStates
<1>3. LinesOK(job', file')
  <2>1. CASE ThreadStarts(e) \/ ThreadFails(e)
    BY <2>1 DEF AuditInv, AuditOK, JobsOK, LinesOK
  <2>2. CASE ThreadAppends(e)
    <3>1. /\ file \in Seq(Emissions) /\ file' = Append(file, e)
          /\ \A i \in DOMAIN file : file[i] # e
      BY <2>2 DEF AuditInv, AuditOK, LinesOK
    <3>2. /\ file' \in Seq(Emissions) /\ DOMAIN file' = 1..(Len(file) + 1)
          /\ \A i \in DOMAIN file : file'[i] = file[i]
          /\ file'[Len(file) + 1] = e
      BY <3>1
    <3>3. \A f \in Emissions : (\E i \in DOMAIN file' : file'[i] = f)
                               <=> (f = e \/ \E i \in DOMAIN file : file[i] = f)
      BY <3>1, <3>2
    <3>4. job' = [job EXCEPT ![e] = "ok"] /\ job \in [Emissions -> JobStates]
      BY <2>2 DEF AuditInv, AuditOK, JobsOK
    <3>5. \A i, k \in DOMAIN file' : file'[i] = file'[k] => i = k
      BY <3>1, <3>2 DEF AuditInv, AuditOK, LinesOK
    <3> QED BY <3>2, <3>3, <3>4, <3>5 DEF AuditInv, AuditOK, LinesOK
  <2> QED BY <2>1, <2>2
<1>4. OrderOK(auditLock', writer', file', asked')
  <2>1. OrderOK(auditLock, writer, file, asked) /\ UNCHANGED <<auditLock, writer, asked>>
    BY DEF AuditInv, AuditOK
  <2>2. CASE file' = file
    BY <2>1, <2>2 DEF OrderOK
  <2>3. CASE ThreadAppends(e)
    <3>1. file \in Seq(Emissions) /\ file' = Append(file, e) /\ job[e] = "running"
      BY <2>3 DEF AuditInv, AuditOK, LinesOK
    <3>2. \A c, d : Before(file', c, d) <=> Before(file, c, d) \/ (d = e /\ \E i \in DOMAIN file : file[i] = c)
      BY <3>1, AppendedIsLast
    <3>3. ASSUME NEW c \in Emissions, \E i \in DOMAIN file : file[i] = c,
                 writer[c] # "cancelled", writer[e] # "cancelled"
          PROVE  Before(asked, c, e)
      <4>1. job[c] = "ok"
        BY <3>3 DEF AuditInv, AuditOK, LinesOK
      <4>2. writer[e] = "writing" /\ writer[c] \in {"writing", "returned"} /\ c # e
        BY <3>1, <3>3, <4>1 DEF AuditInv, AuditOK, TurnsOK, JobsOK, WriterStates
      <4>3. writer[c] = "returned"
        BY <4>2 DEF AuditInv, AuditOK, TurnsOK
      <4> QED BY <2>1, <4>2, <4>3 DEF OrderOK, TurnBefore
    <3> QED BY <2>1, <3>2, <3>3 DEF OrderOK
  <2> QED BY <2>2, <2>3
<1> QED BY <1>1, <1>2, <1>3, <1>4 DEF AuditInvNext, AuditOK

-----------------------------------------------------------------------------
LEMMA AuditInvStep == AuditInv /\ [AuditNext]_auditVars => AuditInv'
<1> SUFFICES ASSUME AuditInv, [AuditNext]_auditVars PROVE AuditInvNext
  BY DEF AuditInv, AuditInvNext
<1>1. CASE UNCHANGED auditVars
  BY <1>1 DEF AuditInv, AuditInvNext, auditVars
<1>2. CASE AuditSettled
  BY <1>2 DEF AuditSettled, AuditInv, AuditInvNext, auditVars
<1>3. ASSUME NEW e \in Emissions,
             \/ Emit(e) \/ TakeTurn(e) \/ Complete(e) \/ Fail(e) \/ Cancel(e)
             \/ ThreadStarts(e) \/ ThreadAppends(e) \/ ThreadFails(e)
      PROVE  AuditInvNext
  BY <1>3, EmitKeeps, TurnKeeps, EndKeeps, CancelEndKeeps, ThreadKeeps
<1>4. ASSUME NEW e \in Emissions, NEW f \in Emissions,
             CancelThenEmit(e, f) \/ FailThenEmit(e, f)
      PROVE  AuditInvNext
  BY <1>4, CancelThenEmitKeeps, FailThenEmitKeeps
<1> QED BY <1>1, <1>2, <1>3, <1>4 DEF AuditNext

\* The inductive invariant holds in every behaviour of the audit log.
THEOREM AuditInvariance == AuditSpec => []AuditInv
<1>1. AuditInit => AuditInv
  BY AuditInvInit
<1>2. AuditInv /\ [AuditNext]_auditVars => AuditInv'
  BY AuditInvStep
<1> QED BY <1>1, <1>2, PTL DEF AuditSpec

\* Type correctness of the audit log (audit.py:156-185).
THEOREM AuditTypes == AuditSpec => []AuditTypeOK
<1>1. AuditInv => AuditTypeOK
  BY AuditInvImplies
<1> QED BY <1>1, AuditInvariance, PTL

\* One coroutine writes at a time and the queue loses nobody (audit.py:184-185).
THEOREM AuditTurns == AuditSpec => []TurnsAreExclusive
<1>1. AuditInv => TurnsAreExclusive
  BY AuditInvImplies
<1> QED BY <1>1, AuditInvariance, PTL

\* An emit() that returned has left exactly one line in the file, one that raised
\* none (audit.py:178-185).
THEOREM AuditLines == AuditSpec => []LinesMatchJobs
<1>1. AuditInv => LinesMatchJobs
  BY AuditInvImplies
<1> QED BY <1>1, AuditInvariance, PTL

\* Two threads write at once only behind a cancelled emit() (audit.py:184-185).
THEOREM AuditOverlap == AuditSpec => []OnlyOrphansOverlap
<1>1. AuditInv => OnlyOrphansOverlap
  BY AuditInvImplies
<1> QED BY <1>1, AuditInvariance, PTL

\* Lines of emissions that were not cancelled stand in the order in which emit() was
\* called (audit.py:159-164, 182-185).
THEOREM AuditCallOrder == AuditSpec => []CallOrder
<1>1. AuditInv => CallOrder
  BY AuditInvImplies
<1> QED BY <1>1, AuditInvariance, PTL
=============================================================================
