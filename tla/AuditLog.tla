------------------------------ MODULE AuditLog ------------------------------
(***************************************************************************)
(* AuditLogger.emit (telemetry/audit.py): a coroutine takes the logger's   *)
(* asyncio.Lock, hands one finished line to a worker thread                *)
(* (asyncio.to_thread) and waits for it, holding the lock.  The thread is  *)
(* not the coroutine: cancelling the coroutine releases the lock and drops *)
(* a job the pool has not started, but a job that runs goes on alone.      *)
(*                                                                         *)
(* An emission is one call of emit(): its line is abstracted to its name.  *)
(***************************************************************************)
EXTENDS AsyncLock, Naturals, Sequences

CONSTANT Emissions          \* every call of emit() a behaviour may make

VARIABLES
  auditLock,                \* AuditLogger._lock
  writer,                   \* where each emit() call stands
  job,                      \* the thread-pool job it handed over
  file,                     \* the lines appended to the file, in order
  asked                     \* history: the emissions in the order of their calls

auditVars == <<auditLock, writer, job, file, asked>>

WriterStates == {"idle", "waiting", "writing", "returned", "raised", "cancelled"}
JobStates == {"none", "queued", "running", "ok", "failed", "dropped"}

AuditTypeOK ==
  /\ auditLock \in Locks(Emissions)
  /\ writer \in [Emissions -> WriterStates]
  /\ job \in [Emissions -> JobStates]
  /\ file \in Seq(Emissions) /\ asked \in Seq(Emissions)

AuditInit ==
  /\ auditLock = FreshLock
  /\ writer = [e \in Emissions |-> "idle"]
  /\ job = [e \in Emissions |-> "none"]
  /\ file = <<>> /\ asked = <<>>

-----------------------------------------------------------------------------
\* A mutant of Reach: the line goes to the pool with no lock around it.
ReachUnlocked(e, l, w, j) ==
  /\ writer' = [w EXCEPT ![e] = "writing"]
  /\ job' = [j EXCEPT ![e] = "queued"]
  /\ auditLock' = l
  /\ asked' = Append(asked, e)
  /\ UNCHANGED file

\* emit(e) up to its first suspension, when the coroutine finds lock l, the
\* writers w and the jobs j: the lock is free and the line goes to the pool,
\* or the coroutine queues for the lock.
Reach(e, l, w, j) ==
  /\ IF CanEnter(l)
       THEN /\ auditLock' = Enter(l)
            /\ writer' = [w EXCEPT ![e] = "writing"]
            /\ job' = [j EXCEPT ![e] = "queued"]
       ELSE /\ auditLock' = Queue(l, e)
            /\ writer' = [w EXCEPT ![e] = "waiting"]
            /\ job' = j
  /\ asked' = Append(asked, e)
  /\ UNCHANGED file

Emit(e) == writer[e] = "idle" /\ Reach(e, auditLock, writer, job)

\* The woken waiter takes the lock and hands its line over.
TakeTurn(e) ==
  /\ writer[e] = "waiting"
  /\ Woken(auditLock, e)
  /\ auditLock' = Take(auditLock)
  /\ writer' = [writer EXCEPT ![e] = "writing"]
  /\ job' = [job EXCEPT ![e] = "queued"]
  /\ UNCHANGED <<file, asked>>

\* The pool thread: it starts a job, then appends the line or fails (OSError).
ThreadStarts(e) ==
  /\ job[e] = "queued"
  /\ job' = [job EXCEPT ![e] = "running"]
  /\ UNCHANGED <<auditLock, writer, file, asked>>

ThreadAppends(e) ==
  /\ job[e] = "running"
  /\ job' = [job EXCEPT ![e] = "ok"]
  /\ file' = Append(file, e)
  /\ UNCHANGED <<auditLock, writer, asked>>

\* A mutant of ThreadFails: half a line stays in the file.
ThreadTearsLine(e) ==
  /\ job[e] = "running"
  /\ job' = [job EXCEPT ![e] = "failed"]
  /\ file' = Append(file, "torn")
  /\ UNCHANGED <<auditLock, writer, asked>>

\* Another: the whole line is in the file, and closing it fails.
ThreadFailsLate(e) ==
  /\ job[e] = "running"
  /\ job' = [job EXCEPT ![e] = "failed"]
  /\ file' = Append(file, e)
  /\ UNCHANGED <<auditLock, writer, asked>>

ThreadFails(e) ==
  /\ job[e] = "running"
  /\ job' = [job EXCEPT ![e] = "failed"]
  /\ UNCHANGED <<auditLock, writer, file, asked>>

\* Mutants of Complete and Fail: the write is not awaited; the lock is released
\* on the normal path only.
CompleteUnawaited(e) ==
  /\ writer[e] = "writing"
  /\ auditLock' = Leave(auditLock)
  /\ writer' = [writer EXCEPT ![e] = "returned"]
  /\ UNCHANGED <<job, file, asked>>

FailKeepingLock(e) ==
  /\ writer[e] = "writing" /\ job[e] = "failed"
  /\ writer' = [writer EXCEPT ![e] = "raised"]
  /\ UNCHANGED <<auditLock, job, file, asked>>

\* The coroutine resumes with the job's result and leaves the lock.
Complete(e) ==
  /\ writer[e] = "writing" /\ job[e] = "ok"
  /\ auditLock' = Leave(auditLock)
  /\ writer' = [writer EXCEPT ![e] = "returned"]
  /\ UNCHANGED <<job, file, asked>>

Fail(e) ==
  /\ writer[e] = "writing" /\ job[e] = "failed"
  /\ auditLock' = Leave(auditLock)
  /\ writer' = [writer EXCEPT ![e] = "raised"]
  /\ UNCHANGED <<job, file, asked>>

-----------------------------------------------------------------------------
\* A mutant of LockWithout: a finally clause releases a lock never taken.
LockReleasedAnyway(e) == Leave(auditLock)

\* What a cancelled emit(e) leaves behind: its place in the queue given up, or the
\* lock released and its job dropped if no thread has started it.
LockWithout(e) ==
  IF writer[e] = "waiting" THEN Withdraw(auditLock, e) ELSE Leave(auditLock)

JobsWithout(e) ==
  IF job[e] = "queued" THEN [job EXCEPT ![e] = "dropped"] ELSE job

Cancel(e) ==
  /\ writer[e] \in {"waiting", "writing"}
  /\ auditLock' = LockWithout(e)
  /\ writer' = [writer EXCEPT ![e] = "cancelled"]
  /\ job' = JobsWithout(e)
  /\ UNCHANGED <<file, asked>>

\* The caller handles the CancelledError or the OSError of emit(e) by calling
\* emit(f) before it suspends again.
CancelThenEmit(e, f) ==
  /\ writer[e] \in {"waiting", "writing"}
  /\ writer[f] = "idle"
  /\ Reach(f, LockWithout(e), [writer EXCEPT ![e] = "cancelled"], JobsWithout(e))

FailThenEmit(e, f) ==
  /\ writer[e] = "writing" /\ job[e] = "failed"
  /\ writer[f] = "idle"
  /\ Reach(f, Leave(auditLock), [writer EXCEPT ![e] = "raised"], job)

-----------------------------------------------------------------------------
\* Nothing is left to do: every emission has ended and no thread is at work.
AuditSettled ==
  /\ \A e \in Emissions : /\ writer[e] \in {"returned", "raised", "cancelled"}
                          /\ job[e] \notin {"queued", "running"}
  /\ UNCHANGED auditVars

AuditNext ==
  \/ \E e \in Emissions :
       \/ Emit(e) \/ TakeTurn(e) \/ Complete(e) \/ Fail(e) \/ Cancel(e)
       \/ ThreadStarts(e) \/ ThreadAppends(e) \/ ThreadFails(e)
       \/ \E f \in Emissions : CancelThenEmit(e, f) \/ FailThenEmit(e, f)
  \/ AuditSettled

\* The event loop runs every coroutine that can run, and the pool every job.
\* Nobody has to call emit() or to cancel it.
AuditFairness ==
  \A e \in Emissions :
    /\ WF_auditVars(TakeTurn(e))
    /\ WF_auditVars(Complete(e) \/ Fail(e))
    /\ WF_auditVars(ThreadStarts(e))
    /\ WF_auditVars(ThreadAppends(e) \/ ThreadFails(e))

AuditSpec == AuditInit /\ [][AuditNext]_auditVars /\ AuditFairness

-----------------------------------------------------------------------------
Orphaned(e) == writer[e] = "cancelled" /\ job[e] = "running"

\* The lock is taken exactly while one emission writes, and the queue lists
\* the waiting emissions once each (audit.py:184-185): a lost or doubled place
\* would stop the log or let two lines out at once.
TurnsAreExclusive ==
  /\ auditLock.locked <=> \E e \in Emissions : writer[e] = "writing"
  /\ \A e, f \in Emissions : writer[e] = "writing" /\ writer[f] = "writing" => e = f
  /\ \A e \in Emissions :
       writer[e] = "waiting" <=> \E i \in DOMAIN auditLock.waiters : auditLock.waiters[i] = e
  /\ \A i, j \in DOMAIN auditLock.waiters :
       auditLock.waiters[i] = auditLock.waiters[j] => i = j

\* The file holds one line for each job that ended well and no other, so an
\* emit() that returned has left exactly one line, one that raised has left
\* none, and a cancelled one may have left one (audit.py:178-185).
LinesMatchJobs ==
  /\ \A i, j \in DOMAIN file : file[i] = file[j] => i = j
  /\ \A e \in Emissions : job[e] = "ok" <=> \E i \in DOMAIN file : file[i] = e
  /\ \A e \in Emissions :
       /\ writer[e] = "returned" => job[e] = "ok"
       /\ writer[e] = "raised" => job[e] = "failed"

\* Two threads write at once only if a cancelled emit() left one of them behind
\* (audit.py:184-185).
OnlyOrphansOverlap ==
  \A e, f \in Emissions :
    e # f /\ job[e] = "running" /\ job[f] = "running" => Orphaned(e) \/ Orphaned(f)

\* s lists e before f.
Before(s, e, f) == \E i, j \in DOMAIN s : i < j /\ s[i] = e /\ s[j] = f

\* The lines of emissions that were not cancelled stand in the file in the order
\* in which emit() was called, whatever was cancelled around them and whenever
\* the pool ran them (audit.py:159-164, 182-185).
CallOrder ==
  \A e, f \in Emissions :
    /\ Before(file, e, f)
    /\ writer[e] # "cancelled" /\ writer[f] # "cancelled"
    => Before(asked, e, f)

\* What audit.py:10-12 and 159-164 say: one write at a time.
WritesAreSerialized ==
  \A e, f \in Emissions : job[e] = "running" /\ job[f] = "running" => e = f

\* Every emit() ends, whoever is cancelled meanwhile and whatever the file does:
\* no place in the queue is lost with a cancelled waiter (audit.py:184-185).
EveryEmitEnds ==
  \A e \in Emissions :
    writer[e] \in {"waiting", "writing"} ~> writer[e] \in {"returned", "raised", "cancelled"}
=============================================================================
