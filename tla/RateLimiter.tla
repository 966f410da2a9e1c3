---------------------------- MODULE RateLimiter ----------------------------
(***************************************************************************)
(* RateLimiter and TokenBucket (gateway/limits.py).  A principal's bucket  *)
(* is created, full, at its first attempt, and refilled lazily from the    *)
(* monotonic clock whenever it is consulted.  The locks around a bucket    *)
(* are never held across a suspension, so an attempt is one step.          *)
(*                                                                         *)
(* Tokens are counted in parts, Unit of them to a token, and time in ticks *)
(* of the clock, Rate parts to a tick.  In the code they are floats: the   *)
(* sum `tokens + elapsed * refill_rate` is rounded, and what one credit    *)
(* gains or loses by it is any number of parts up to Slip.  No credit      *)
(* takes tokens away, none is due when no time has passed, and taking a    *)
(* token off is exact.                                                     *)
(***************************************************************************)
EXTENDS Integers, Sequences

CONSTANTS
  Principals,
  Unit,                     \* parts in one token
  Capacity,                 \* parts a bucket holds: `capacity`
  Rate,                     \* parts regained in one tick: `refill_rate`
  Slip,                     \* parts that the rounding of one credit may add or lose
  MaxTime                   \* bound on the clock

ASSUME RateAssumption ==
  /\ Unit \in Nat \ {0} /\ Capacity \in Nat \ {0} /\ Rate \in Nat \ {0}
  /\ Slip \in Nat /\ MaxTime \in Nat

VARIABLES
  now,                      \* the monotonic clock
  bucket,                   \* RateLimiter._buckets
  granted                   \* history: when each principal's attempts were granted

limiterVars == <<now, bucket, granted>>

NoBucket == [tokens |-> -1, last |-> -1]
Buckets == [tokens : 0..Capacity, last : 0..MaxTime]

RateTypeOK ==
  /\ now \in 0..MaxTime
  /\ bucket \in [Principals -> Buckets \cup {NoBucket}]
  /\ granted \in [Principals -> Seq(0..MaxTime)]

RateInit ==
  /\ now = 0
  /\ bucket = [p \in Principals |-> NoBucket]
  /\ granted = [p \in Principals |-> <<>>]

-----------------------------------------------------------------------------
Least(a, b) == IF a <= b THEN a ELSE b

FullBucket == [tokens |-> Capacity, last |-> now]

\* _bucket_for: the principal's own bucket, or a new full one.
BucketFor(p) == IF bucket[p] = NoBucket THEN FullBucket ELSE bucket[p]

\* What is credited for the time that has passed, as floats have it.
Credits(elapsed) ==
  IF elapsed = 0 THEN {0}
  ELSE {parts \in 0..(Rate * elapsed + Slip) : parts >= Rate * elapsed - Slip}

\* Mutants of LevelsOf: no clamp at capacity.  Of Attempt: a refused attempt forfeits
\* the time it should have been credited; the time is credited again at the next
\* attempt; exactly one token is not enough.
LevelsUnclamped(b) == {b.tokens + parts : parts \in Credits(now - b.last)}

\* What bucket b may hold once the time since its last use is credited.
LevelsOf(b) == {Least(Capacity, b.tokens + parts) : parts \in Credits(now - b.last)}

\* The attempt's answer is ok and its bucket is left with these tokens.
Settle(p, ok, tokens, last) ==
  /\ bucket' = [bucket EXCEPT ![p] = [tokens |-> tokens, last |-> last]]
  /\ granted' = IF ok THEN [granted EXCEPT ![p] = Append(@, now)] ELSE granted
  /\ UNCHANGED now

AttemptForfeiting(p) ==
  \E level \in LevelsOf(BucketFor(p)) :
    \/ level >= Unit /\ Settle(p, TRUE, level - Unit, now)
    \/ level < Unit /\ Settle(p, FALSE, BucketFor(p).tokens, now)

AttemptCreditingTwice(p) ==
  \E level \in LevelsOf(BucketFor(p)) :
    \/ level >= Unit /\ Settle(p, TRUE, level - Unit, BucketFor(p).last)
    \/ level < Unit /\ Settle(p, FALSE, level, BucketFor(p).last)

AttemptStrictly(p) ==
  \E level \in LevelsOf(BucketFor(p)) :
    \/ level > Unit /\ Settle(p, TRUE, level - Unit, now)
    \/ level <= Unit /\ Settle(p, FALSE, level, now)

\* try_consume(1.0) on the principal's bucket: credit the elapsed time, then
\* take a token if there is a whole one.
Attempt(p) ==
  \E level \in LevelsOf(BucketFor(p)) :
    \/ level >= Unit /\ Settle(p, TRUE, level - Unit, now)
    \/ level < Unit /\ Settle(p, FALSE, level, now)

Tick ==
  /\ now < MaxTime
  /\ now' = now + 1
  /\ UNCHANGED <<bucket, granted>>

ClockStops == now = MaxTime /\ UNCHANGED limiterVars

RateNext == Tick \/ ClockStops \/ \E p \in Principals : Attempt(p)

RateSpec == RateInit /\ [][RateNext]_limiterVars

-----------------------------------------------------------------------------
\* available_tokens(): what principal p could spend now, its next credit exact.
Available(p) ==
  Least(Capacity, BucketFor(p).tokens + (now - BucketFor(p).last) * Rate)

\* What is left of capacity plus refill in the window from p's i-th granted
\* attempt until now, and the most that rounding may have moved it meanwhile: a
\* bucket is credited once a tick at most.
Slack(p, i) ==
  Capacity + Rate * (now - granted[p][i]) - Unit * (Len(granted[p]) - i + 1)
Drift(p, i) == Slip * (BucketFor(p).last - granted[p][i])

\* However attempts are spaced, and however often refused attempts credit the bucket
\* on the way, it holds what the textbook closed form says, the least slack over all
\* windows ending now, give or take the rounding of its credits (limits.py:43-53).
LevelMatchesHistory ==
  \A p \in Principals :
    /\ Available(p) <= Capacity
    /\ \A i \in 1..Len(granted[p]) : Available(p) <= Slack(p, i) + Drift(p, i)
    /\ \/ Available(p) >= Capacity - Slip
       \/ \E i \in 1..Len(granted[p]) : Available(p) >= Slack(p, i) - Drift(p, i) - Slip

\* In any window of time a principal is granted at most a full burst and what the
\* window refills, rounding included (limits.py:22-29, 43-53).
WindowBound ==
  \A p \in Principals : \A i, j \in 1..Len(granted[p]) :
    i <= j => Unit * (j - i + 1)
                <= Capacity + (Rate + Slip) * (granted[p][j] - granted[p][i])

\* RateLimiter implements AdmissionTokens: the whole tokens stored in the bucket.
Whole ==
  [p \in Principals |->
     (IF bucket[p] = NoBucket THEN Capacity ELSE bucket[p].tokens) \div Unit]

Admission == INSTANCE AdmissionTokens WITH Burst <- Capacity \div Unit, tokens <- Whole

ImplementsAdmission == Admission!TokensSpec

\* Every attempt, refused ones too, is an attempt of AdmissionTokens with the same
\* answer: it is refused only when it is left without a whole token
\* (limits.py:50-53, 88-90).
AttemptsAgree ==
  [][\A p \in Principals : Attempt(p) =>
       Admission!TryAcquire(p, granted'[p] # granted[p])]_limiterVars

\* Nothing was granted to p for as long as a token takes to come back, though every
\* tick's credit be rounded down.
Rested(p) ==
  granted[p] # <<>> => (Rate - Slip) * (now - granted[p][Len(granted[p])]) >= Unit

\* Asking does not cost a waiting principal its token: who was granted none for as
\* long as one takes is admitted at the next attempt, however often it was refused
\* in between, unless no bucket can hold a token: a capacity below 1 passes the
\* constructor and admits nobody ever.  The time is not 1/refill_rate exactly: each
\* of the refused attempts rounded a credit (limits.py:32, 43-53).
PatienceIsRewarded ==
  [][\A p \in Principals : Attempt(p) /\ Rested(p) =>
       (granted'[p] # granted[p] <=> Capacity >= Unit)]_limiterVars
=============================================================================
