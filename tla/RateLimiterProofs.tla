------------------------- MODULE RateLimiterProofs -------------------------
(***************************************************************************)
(* Proofs that a bucket refilled lazily holds what its history says, for   *)
(* any capacity, rate, rounding and sequence of attempts, that no window   *)
(* of time grants more than a burst and its refill, that asking costs a    *)
(* waiting principal nothing, and that the limiter is the counter of whole *)
(* tokens of AdmissionTokens.                                              *)
(***************************************************************************)
EXTENDS RateLimiter, TLAPS

\* The slack at t of the window that opens with the i-th of the grants g, and its drift.
Held(g, i, t) == Capacity + Rate * (t - g[i]) - Unit * (Len(g) - i + 1)
Off(g, i, t) == Slip * (t - g[i])

\* A bucket whose grants were g, last credited at t and left with S parts: as far as
\* the windows that end at t allow, and as far as the wait since the last grant demands.
Within(g, S, t) ==
  /\ \A i \in 1..Len(g) : S <= Held(g, i, t) + Off(g, i, t)
  /\ \/ S >= Capacity - Slip
     \/ \E i \in 1..Len(g) : S >= Held(g, i, t) - Off(g, i, t) - Slip

Patient(g, S, t) ==
  Capacity >= Unit => g # <<>> /\ S >= (Rate - Slip) * (t - g[Len(g)])

\* WindowBound for the grants of one principal.
Spaced(g) ==
  \A i, j \in 1..Len(g) :
    i <= j => Unit * (j - i + 1) <= Capacity + (Rate + Slip) * (g[j] - g[i])

BucketsOK ==
  \A p \in Principals :
    /\ bucket[p] = NoBucket => granted[p] = <<>>
    /\ bucket[p] # NoBucket =>
         /\ bucket[p].last <= now
         /\ Within(granted[p], bucket[p].tokens, bucket[p].last)
         /\ Patient(granted[p], bucket[p].tokens, bucket[p].last)

\* The inductive invariant: what a bucket holds is tied to the moment of its last
\* credit, so the clock alone changes nothing.
RateInv == RateTypeOK /\ BucketsOK /\ WindowBound

-----------------------------------------------------------------------------
\* Products of what the provers do not multiply themselves.
LEMMA OneMore ==
  \A a, r \in Int : r * (a + 1) = r * a + r /\ r * a \in Int
OBVIOUS

LEMMA Later ==
  \A r, x, y, z \in Int : /\ r * (z - x) = r * (y - x) + r * (z - y)
                         /\ r * (y - x) \in Int /\ r * (z - y) \in Int
OBVIOUS

\* A credit is off by no more than the rounding of one tick's credit for each tick.
LEMMA CreditBounds ==
  ASSUME NEW e \in Nat, NEW c \in Credits(e)
  PROVE  /\ c \in Nat /\ Rate * e \in Nat /\ Slip * e \in Nat
         /\ c <= Rate * e + Slip * e /\ c >= Rate * e - Slip * e
         /\ (Rate - Slip) * e = Rate * e - Slip * e
<1> USE RateAssumption
<1>1. Rate * e \in Nat /\ Slip * e \in Nat /\ (Rate - Slip) * e = Rate * e - Slip * e
  OBVIOUS
<1>2. CASE e = 0
  <2>1. c = 0
    BY <1>2 DEF Credits
  <2> QED BY <1>1, <1>2, <2>1
<1>3. CASE e # 0
  <2>1. c \in 0..(Rate * e + Slip) /\ c >= Rate * e - Slip
    BY <1>3 DEF Credits
  <2>2. Slip <= Slip * e
    <3>1. e - 1 \in Nat
      BY <1>3
    <3>2. Slip * (e - 1) \in Nat /\ Slip * ((e - 1) + 1) = Slip * (e - 1) + Slip
      BY <3>1
    <3>3. (e - 1) + 1 = e
      OBVIOUS
    <3> QED BY <3>2, <3>3
  <2> QED BY <1>1, <2>1, <2>2
<1> QED BY <1>2, <1>3

LEMMA InitInv == RateInit => RateInv
<1> SUFFICES ASSUME RateInit PROVE RateInv
  OBVIOUS
<1>1. RateTypeOK
  BY RateAssumption DEF RateInit, RateTypeOK
<1>2. \A p \in Principals : bucket[p] = NoBucket /\ granted[p] = <<>> /\ Len(granted[p]) = 0
  BY DEF RateInit
<1> QED BY <1>1, <1>2 DEF RateInv, BucketsOK, WindowBound

\* The bucket an attempt finds, old or new.
LEMMA Found ==
  ASSUME RateInv, NEW p \in Principals
  PROVE  \E S \in 0..Capacity, t \in 0..MaxTime :
           /\ BucketFor(p) = [tokens |-> S, last |-> t] /\ t <= now
           /\ Whole[p] = S \div Unit
           /\ Within(granted[p], S, t)
           /\ bucket[p] = NoBucket => S = Capacity /\ t = now /\ granted[p] = <<>>
           /\ bucket[p] # NoBucket => Patient(granted[p], S, t)
<1> USE RateAssumption
<1>1. now \in 0..MaxTime /\ Capacity \in 0..Capacity
  BY DEF RateInv, RateTypeOK
<1>2. CASE bucket[p] = NoBucket
  <2>1. BucketFor(p) = [tokens |-> Capacity, last |-> now]
    BY <1>2 DEF BucketFor, FullBucket
  <2>2. granted[p] = <<>> /\ Whole[p] = Capacity \div Unit
    BY <1>2 DEF RateInv, BucketsOK, Whole
  <2>3. Within(granted[p], Capacity, now)
    <3>1. Len(granted[p]) = 0 /\ Capacity >= Capacity - Slip
      BY <2>2
    <3> QED BY <3>1 DEF Within
  <2> QED BY <1>1, <1>2, <2>1, <2>2, <2>3
<1>3. CASE bucket[p] # NoBucket
  <2>1. PICK S \in 0..Capacity, t \in 0..MaxTime : bucket[p] = [tokens |-> S, last |-> t]
    BY <1>3 DEF RateInv, RateTypeOK, Buckets
  <2>2. BucketFor(p) = [tokens |-> S, last |-> t] /\ bucket[p].tokens = S /\ bucket[p].last = t
    BY <1>3, <2>1 DEF BucketFor
  <2>3. Whole[p] = S \div Unit
    BY <1>3, <2>2 DEF Whole
  <2> QED BY <1>3, <2>2, <2>3 DEF RateInv, BucketsOK
<1> QED BY <1>2, <1>3

\* An attempt credits some parts and takes a token if that makes one.
LEMMA AttemptEffect ==
  ASSUME RateInv, NEW p \in Principals, Attempt(p),
         NEW S \in 0..Capacity, NEW t \in 0..MaxTime,
         BucketFor(p) = [tokens |-> S, last |-> t], t <= now
  PROVE  \E c \in Credits(now - t), level \in 0..Capacity, left \in 0..Capacity :
           /\ level = Least(Capacity, S + c) /\ c \in Nat /\ S <= level
           /\ \/ /\ level >= Unit /\ left = level - Unit
                 /\ granted' = [granted EXCEPT ![p] = Append(@, now)]
              \/ /\ level < Unit /\ left = level
                 /\ granted' = granted
           /\ bucket' = [bucket EXCEPT ![p] = [tokens |-> left, last |-> now]]
           /\ now' = now
<1> USE RateAssumption
<1>1. PICK level \in LevelsOf(BucketFor(p)) :
        \/ level >= Unit /\ Settle(p, TRUE, level - Unit, now)
        \/ level < Unit /\ Settle(p, FALSE, level, now)
  BY DEF Attempt
<1>2. PICK c \in Credits(now - t) : level = Least(Capacity, S + c)
  BY <1>1 DEF LevelsOf
<1>3. now - t \in Nat
  BY DEF RateInv, RateTypeOK
<1>4. c \in Nat
  BY <1>2, <1>3, CreditBounds
<1>5. level \in 0..Capacity /\ S <= level
  BY <1>2, <1>4 DEF Least
<1>6. CASE level >= Unit /\ Settle(p, TRUE, level - Unit, now)
  <2>1. level - Unit \in 0..Capacity
    BY <1>5, <1>6
  <2> QED BY <1>2, <1>4, <1>5, <1>6, <2>1 DEF Settle
<1>7. CASE level < Unit /\ Settle(p, FALSE, level, now)
  BY <1>2, <1>4, <1>5, <1>7 DEF Settle
<1> QED BY <1>1, <1>6, <1>7

-----------------------------------------------------------------------------
\* Crediting the time that has passed follows the windows as they grow.
LEMMA CreditWithin ==
  ASSUME NEW g \in Seq(0..MaxTime), NEW S \in 0..Capacity, NEW t \in 0..MaxTime,
         NEW m \in 0..MaxTime, t <= m, NEW c \in Credits(m - t), Within(g, S, t)
  PROVE  Within(g, Least(Capacity, S + c), m)
<1> USE RateAssumption
<1> DEFINE e == m - t
           level == Least(Capacity, S + c)
<1>1. e \in Nat
  OBVIOUS
<1>2. /\ c \in Nat /\ Rate * e \in Nat /\ Slip * e \in Nat
      /\ c <= Rate * e + Slip * e /\ c >= Rate * e - Slip * e
  BY <1>1, CreditBounds
<1>3. ASSUME NEW i \in 1..Len(g)
      PROVE  /\ Held(g, i, t) \in Int /\ Off(g, i, t) \in Int
             /\ Held(g, i, m) = Held(g, i, t) + Rate * e
             /\ Off(g, i, m) = Off(g, i, t) + Slip * e
  <2> DEFINE x == g[i]
             spent == Unit * (Len(g) - i + 1)
  <2>1. x \in Int /\ t \in Int /\ m \in Int /\ Rate \in Int /\ Slip \in Int
    OBVIOUS
  <2>2. spent \in Int
    <3>1. Len(g) - i + 1 \in Int /\ Unit \in Int
      OBVIOUS
    <3> QED BY <3>1, OneMore
  <2> HIDE DEF x, spent
  <2>3. /\ Rate * (m - x) = Rate * (t - x) + Rate * e /\ Rate * (t - x) \in Int
        /\ Slip * (m - x) = Slip * (t - x) + Slip * e /\ Slip * (t - x) \in Int
    BY <2>1, Later
  <2>4. /\ Held(g, i, m) = Capacity + Rate * (m - x) - spent
        /\ Held(g, i, t) = Capacity + Rate * (t - x) - spent
        /\ Off(g, i, m) = Slip * (m - x) /\ Off(g, i, t) = Slip * (t - x)
    BY DEF Held, Off, x, spent
  <2> DEFINE back == Rate * (t - x)
  <2>5. /\ back \in Int /\ Rate * e \in Int /\ Held(g, i, t) = Capacity + back - spent
        /\ Held(g, i, m) = Capacity + (back + Rate * e) - spent
    BY <1>2, <2>3, <2>4
  <2> HIDE DEF back
  <2>6. Held(g, i, t) \in Int /\ Held(g, i, m) = Held(g, i, t) + Rate * e
    BY <1>2, <2>2, <2>5
  <2> QED BY <2>3, <2>4, <2>6
<1> DEFINE gain == Rate * e
           off == Slip * e
<1>4. c \in Nat /\ gain \in Nat /\ off \in Nat /\ c <= gain + off /\ c >= gain - off
  BY <1>2
<1>5. ASSUME NEW i \in 1..Len(g)
      PROVE  /\ Held(g, i, t) \in Int /\ Off(g, i, t) \in Int
             /\ Held(g, i, m) = Held(g, i, t) + gain /\ Off(g, i, m) = Off(g, i, t) + off
  BY <1>3, Zenon
<1> HIDE DEF gain, off, e
<1>6. ASSUME NEW i \in 1..Len(g) PROVE level <= Held(g, i, m) + Off(g, i, m)
  <2> DEFINE h == Held(g, i, t)
             o == Off(g, i, t)
  <2>1. S <= h + o
    BY Zenon DEF Within
  <2>2. /\ h \in Int /\ o \in Int
        /\ Held(g, i, m) = h + gain /\ Off(g, i, m) = o + off
    BY <1>5, Zenon
  <2>3. level <= S + c
    BY <1>4 DEF Least
  <2>4. level \in Int
    BY <1>4 DEF Least
  <2> HIDE DEF h, o, level
  <2>5. level <= (h + gain) + (o + off)
    BY <1>4, <2>1, <2>2, <2>3, <2>4
  <2> QED BY <2>2, <2>5, Zenon
<1>7. \/ level >= Capacity - Slip
      \/ \E i \in 1..Len(g) : level >= Held(g, i, m) - Off(g, i, m) - Slip
  <2>1. CASE S + c >= Capacity
    BY <1>4, <2>1 DEF Least
  <2>2. CASE S + c < Capacity /\ S >= Capacity - Slip
    BY <1>4, <2>2 DEF Least
  <2>3. ASSUME S + c < Capacity, NEW i \in 1..Len(g),
               S >= Held(g, i, t) - Off(g, i, t) - Slip
        PROVE  level >= Held(g, i, m) - Off(g, i, m) - Slip
    <3> DEFINE h == Held(g, i, t)
               o == Off(g, i, t)
    <3>1. /\ h \in Int /\ o \in Int /\ S >= h - o - Slip
          /\ Held(g, i, m) = h + gain /\ Off(g, i, m) = o + off
      BY <1>5, <2>3, Zenon
    <3>2. level = S + c
      BY <1>4, <2>3 DEF Least
    <3> HIDE DEF h, o, level
    <3>3. S + c >= (h + gain) - (o + off) - Slip
      BY <1>4, <3>1
    <3> QED BY <3>1, <3>2, <3>3, Zenon
  <2> QED BY <1>4, <2>1, <2>2, <2>3 DEF Within
<1> QED BY <1>6, <1>7 DEF Within

\* A grant costs every window a token and opens a new one.
LEMMA GrantCosts ==
  ASSUME NEW g \in Seq(0..MaxTime), NEW m \in 0..MaxTime
  PROVE  \E n \in Nat, h \in Seq(0..MaxTime) :
           /\ n = Len(g) /\ h = Append(g, m)
           /\ Len(h) = n + 1 /\ h[n + 1] = m
           /\ \A i \in 1..n : h[i] = g[i] /\ g[i] \in Nat
           /\ \A i \in 1..n : /\ Held(g, i, m) \in Int /\ Held(h, i, m) = Held(g, i, m) - Unit
                              /\ Off(g, i, m) \in Int /\ Off(h, i, m) = Off(g, i, m)
           /\ Held(h, n + 1, m) = Capacity - Unit /\ Off(h, n + 1, m) = 0
<1> USE RateAssumption
<1>0. PICK n \in Nat, h \in Seq(0..MaxTime) : n = Len(g) /\ h = Append(g, m)
  <2>1. Len(g) \in Nat /\ Append(g, m) \in Seq(0..MaxTime)
    OBVIOUS
  <2> QED BY <2>1, Zenon
<1>1. /\ Len(h) = n + 1 /\ h[n + 1] = m
      /\ \A i \in 1..n : h[i] = g[i] /\ g[i] \in Nat
  BY <1>0
<1>2. ASSUME NEW i \in 1..n
      PROVE  /\ Held(g, i, m) \in Int /\ Held(h, i, m) = Held(g, i, m) - Unit
             /\ Off(g, i, m) \in Int /\ Off(h, i, m) = Off(g, i, m)
  <2> DEFINE x == g[i]
             back == Rate * (m - x)
             spent == Unit * (n - i + 1)
  <2>1. x \in Int /\ h[i] = x
    BY <1>1
  <2>2. Held(g, i, m) = Capacity + back - spent /\ Off(g, i, m) = Slip * (m - x)
    BY <1>0, Zenon DEF Held, Off
  <2>3. Unit * ((n + 1) - i + 1) = spent + Unit /\ spent \in Int
    <3>1. n - i + 1 \in Int /\ (n + 1) - i + 1 = (n - i + 1) + 1 /\ Unit \in Int
      OBVIOUS
    <3> QED BY <3>1, OneMore
  <2>4. back \in Int /\ Slip * (m - x) \in Int
    <3>1. m - x \in Int /\ Rate \in Int /\ Slip \in Int
      BY <2>1
    <3> QED BY <3>1, OneMore
  <2>5. /\ Held(h, i, m) = Capacity + back - Unit * ((n + 1) - i + 1)
        /\ Off(h, i, m) = Slip * (m - x)
    BY <1>1, <2>1, Zenon DEF Held, Off
  <2>6. Held(h, i, m) = Capacity + back - (spent + Unit)
    BY <2>3, <2>5, Zenon
  <2>7. spent \in Int
    BY <2>3
  <2>8. Off(g, i, m) \in Int /\ Off(h, i, m) = Off(g, i, m)
    BY <2>2, <2>4, <2>5, Zenon
  <2>9. back \in Int /\ Held(g, i, m) = Capacity + back - spent
    BY <2>2, <2>4, Zenon
  <2> HIDE DEF x, back, spent
  <2>10. Held(g, i, m) \in Int /\ Held(h, i, m) = Held(g, i, m) - Unit
    BY <2>6, <2>7, <2>9
  <2> QED BY <2>8, <2>10
<1>3. Held(h, n + 1, m) = Capacity - Unit /\ Off(h, n + 1, m) = 0
  <2>1. m - h[n + 1] = 0 /\ Len(h) - (n + 1) + 1 = 1
    BY <1>1
  <2>2. Held(h, n + 1, m) = Capacity + Rate * 0 - Unit * 1 /\ Off(h, n + 1, m) = Slip * 0
    BY <2>1, Zenon DEF Held, Off
  <2> QED BY <2>2
<1> QED BY <1>0, <1>1, <1>2, <1>3, Zenon

\* What a bucket that grants a token holds follows the windows that the grant changes.
LEMMA GrantWithin ==
  ASSUME NEW g \in Seq(0..MaxTime), NEW m \in 0..MaxTime, NEW level \in 0..Capacity,
         Within(g, level, m)
  PROVE  Within(Append(g, m), level - Unit, m)
<1> USE RateAssumption
<1>1. PICK n \in Nat, h \in Seq(0..MaxTime) :
        /\ n = Len(g) /\ h = Append(g, m) /\ Len(h) = n + 1
        /\ \A i \in 1..n : /\ Held(g, i, m) \in Int /\ Held(h, i, m) = Held(g, i, m) - Unit
                           /\ Off(g, i, m) \in Int /\ Off(h, i, m) = Off(g, i, m)
        /\ Held(h, n + 1, m) = Capacity - Unit /\ Off(h, n + 1, m) = 0
  BY GrantCosts, Zenon
<1>2. /\ \A i \in 1..n : level <= Held(g, i, m) + Off(g, i, m)
      /\ \/ level >= Capacity - Slip
         \/ \E i \in 1..n : level >= Held(g, i, m) - Off(g, i, m) - Slip
  BY <1>1 DEF Within
<1>3. ASSUME NEW i \in 1..(n + 1) PROVE level - Unit <= Held(h, i, m) + Off(h, i, m)
  <2>1. CASE i \in 1..n
    BY <1>1, <1>2, <2>1
  <2>2. CASE i = n + 1
    BY <1>1, <2>2
  <2> QED BY <1>1, <2>1, <2>2
<1>4. \E i \in 1..(n + 1) : level - Unit >= Held(h, i, m) - Off(h, i, m) - Slip
  <2>1. CASE level >= Capacity - Slip
    <3>1. n + 1 \in 1..(n + 1)
      BY <1>1
    <3> QED BY <1>1, <2>1, <3>1
  <2>2. ASSUME NEW i \in 1..n, level >= Held(g, i, m) - Off(g, i, m) - Slip
        PROVE  i \in 1..(n + 1) /\ level - Unit >= Held(h, i, m) - Off(h, i, m) - Slip
    BY <1>1, <2>2
  <2> QED BY <1>2, <2>1, <2>2
<1>5. Within(h, level - Unit, m)
  BY <1>1, <1>3, <1>4 DEF Within
<1> QED BY <1>1, <1>5

\* A grant stays within every window's bound.
LEMMA GrantSpaced ==
  ASSUME NEW g \in Seq(0..MaxTime), Spaced(g), NEW m \in 0..MaxTime,
         NEW level \in 0..Capacity, level >= Unit, Within(g, level, m)
  PROVE  Spaced(Append(g, m))
<1> USE RateAssumption
<1>1. PICK n \in Nat, h \in Seq(0..MaxTime) :
        /\ n = Len(g) /\ h = Append(g, m) /\ Len(h) = n + 1 /\ h[n + 1] = m
        /\ \A i \in 1..n : h[i] = g[i] /\ g[i] \in Nat
        /\ \A i \in 1..n : Held(g, i, m) \in Int /\ Off(g, i, m) \in Int
  BY GrantCosts, Zenon
<1>2. ASSUME NEW i \in 1..(n + 1), NEW j \in 1..(n + 1), i <= j
      PROVE  Unit * (j - i + 1) <= Capacity + (Rate + Slip) * (h[j] - h[i])
  <2>1. CASE j \in 1..n
    <3>1. i \in 1..n
      BY <1>1, <1>2, <2>1
    <3>2. h[i] = g[i] /\ h[j] = g[j]
      BY <1>1, <2>1, <3>1
    <3>3. Unit * (j - i + 1) <= Capacity + (Rate + Slip) * (g[j] - g[i])
      <4>1. i \in 1..Len(g) /\ j \in 1..Len(g)
        BY <1>1, <2>1, <3>1
      <4> QED BY <1>2, <4>1, Zenon DEF Spaced
    <3> QED BY <3>2, <3>3, Zenon
  <2>2. CASE j = n + 1 /\ i \in 1..n
    <3> DEFINE x == g[i]
               spent == Unit * (n - i + 1)
               back == Rate * (m - x)
               off == Slip * (m - x)
    <3>1. x \in Int /\ h[i] = x /\ h[j] = m
      BY <1>1, <2>2
    <3>2. Unit <= (Capacity + back - spent) + off
      <4>1. level <= Held(g, i, m) + Off(g, i, m)
        BY <1>1, <2>2 DEF Within
      <4>2. Held(g, i, m) = Capacity + back - spent /\ Off(g, i, m) = off
        BY <1>1, Zenon DEF Held, Off
      <4>3. Unit <= Held(g, i, m) + Off(g, i, m)
        BY <1>1, <2>2, <4>1
      <4> QED BY <4>2, <4>3, Zenon
    <3>3. Unit * (j - i + 1) = spent + Unit /\ spent \in Int
      <4>1. n - i + 1 \in Int /\ j - i + 1 = (n - i + 1) + 1 /\ Unit \in Int
        BY <1>1, <2>2
      <4> QED BY <4>1, OneMore
    <3>4. (Rate + Slip) * (m - x) = back + off /\ back \in Int /\ off \in Int
      <4>1. \A r, q, d \in Int : (r + q) * d = r * d + q * d /\ r * d \in Int /\ q * d \in Int
        OBVIOUS
      <4>2. m - x \in Int /\ Rate \in Int /\ Slip \in Int
        BY <3>1
      <4> HIDE DEF x
      <4> QED BY <4>1, <4>2
    <3>5. (Rate + Slip) * (h[j] - h[i]) = back + off
      BY <3>1, <3>4, Zenon
    <3>6. back \in Int /\ off \in Int /\ spent \in Int
      BY <3>3, <3>4, Zenon
    <3> HIDE DEF back, off, spent, x
    <3>7. spent + Unit <= Capacity + (back + off)
      BY <3>2, <3>6
    <3>8. Unit * (j - i + 1) = spent + Unit
      BY <3>3
    <3> QED BY <3>5, <3>7, <3>8, Zenon
  <2>3. CASE j = n + 1 /\ i = n + 1
    <3>1. j - i + 1 = 1 /\ h[j] - h[i] = 0
      BY <1>1, <2>3
    <3>2. Unit * 1 = Unit /\ (Rate + Slip) * 0 = 0
      OBVIOUS
    <3>3. Unit <= Capacity + 0
      OBVIOUS
    <3> QED BY <3>1, <3>2, <3>3, Zenon
  <2>4. j \in 1..n \/ (j = n + 1 /\ i \in 1..n) \/ (j = n + 1 /\ i = n + 1)
    BY <1>1, <1>2
  <2> QED BY <2>1, <2>2, <2>3, <2>4
<1>3. Spaced(h)
  BY <1>1, <1>2, Zenon DEF Spaced
<1> QED BY <1>1, <1>3

\* A refused attempt brings the principal as much nearer to its token as the time that
\* has passed, but for the rounding of that one credit.
LEMMA AttemptPatient ==
  ASSUME NEW g \in Seq(0..MaxTime), NEW S \in 0..Capacity, NEW t \in 0..MaxTime,
         NEW m \in 0..MaxTime, t <= m, NEW c \in Credits(m - t),
         Least(Capacity, S + c) < Unit, S = Capacity \/ Patient(g, S, t)
  PROVE  Patient(g, Least(Capacity, S + c), m)
<1> USE RateAssumption
<1> DEFINE level == Least(Capacity, S + c)
<1> SUFFICES ASSUME Capacity >= Unit
             PROVE  g # <<>> /\ level >= (Rate - Slip) * (m - g[Len(g)])
  BY DEF Patient
<1>1. m - t \in Nat
  OBVIOUS
<1>2. c \in Nat /\ Rate * (m - t) \in Nat /\ Slip * (m - t) \in Nat
      /\ c >= Rate * (m - t) - Slip * (m - t)
      /\ (Rate - Slip) * (m - t) = Rate * (m - t) - Slip * (m - t)
  BY <1>1, CreditBounds
<1> DEFINE gain == (Rate - Slip) * (m - t)
<1>3. gain \in Int /\ c >= gain
  <2>1. \A a, b \in Nat : a - b \in Int
    OBVIOUS
  <2> QED BY <1>2, <2>1, Zenon
<1>4. level = S + c /\ S # Capacity
  BY <1>2 DEF Least
<1> DEFINE x == g[Len(g)]
           due == (Rate - Slip) * (t - x)
<1>5. g # <<>> /\ S >= due
  BY <1>4, Zenon DEF Patient
<1>6. x \in Int
  BY <1>5
<1> HIDE DEF x
<1>7. (Rate - Slip) * (m - x) = due + gain /\ due \in Int
  <2>1. Rate - Slip \in Int /\ t \in Int /\ m \in Int
    OBVIOUS
  <2> QED BY <1>6, <2>1, Later
<1> HIDE DEF due, gain
<1>8. level >= due + gain
  BY <1>2, <1>3, <1>4, <1>5, <1>7
<1>9. level >= (Rate - Slip) * (m - x)
  BY <1>7, <1>8, Zenon
<1> QED BY <1>5, <1>9, Zenon DEF x

LEMMA AttemptKeeps == ASSUME RateInv, NEW p \in Principals, Attempt(p) PROVE RateInv'
<1> USE RateAssumption
<1>1. PICK S \in 0..Capacity, t \in 0..MaxTime :
        /\ BucketFor(p) = [tokens |-> S, last |-> t] /\ t <= now /\ Within(granted[p], S, t)
        /\ S = Capacity \/ Patient(granted[p], S, t)
  BY Found
<1>2. PICK c \in Credits(now - t), level \in 0..Capacity, left \in 0..Capacity :
        /\ level = Least(Capacity, S + c)
        /\ \/ /\ level >= Unit /\ left = level - Unit
              /\ granted' = [granted EXCEPT ![p] = Append(@, now)]
           \/ /\ level < Unit /\ left = level
              /\ granted' = granted
        /\ bucket' = [bucket EXCEPT ![p] = [tokens |-> left, last |-> now]]
        /\ now' = now
  BY <1>1, AttemptEffect
<1>3. PICK m \in 0..MaxTime : m = now
  BY DEF RateInv, RateTypeOK
<1>4. PICK g \in Seq(0..MaxTime) : g = granted[p]
  BY DEF RateInv, RateTypeOK
<1>5. /\ granted \in [Principals -> Seq(0..MaxTime)]
      /\ bucket \in [Principals -> Buckets \cup {NoBucket}]
      /\ BucketsOK /\ \A q \in Principals : Spaced(granted[q])
  BY DEF RateInv, RateTypeOK, WindowBound, Spaced
<1>6. Within(g, level, m)
  BY <1>1, <1>2, <1>3, <1>4, CreditWithin
<1>7. PICK h \in Seq(0..MaxTime) :
        /\ h = granted'[p] /\ granted' = [granted EXCEPT ![p] = h]
        /\ Within(h, left, m) /\ Patient(h, left, m) /\ Spaced(h)
  <2>1. CASE level >= Unit /\ left = level - Unit /\ granted' = [granted EXCEPT ![p] = Append(@, now)]
    <3> DEFINE h == Append(g, m)
    <3>1. Within(h, left, m) /\ Spaced(h)
      BY <1>4, <1>5, <1>6, <2>1, GrantWithin, GrantSpaced
    <3>2. h # <<>> /\ h[Len(h)] = m /\ h \in Seq(0..MaxTime)
      OBVIOUS
    <3>3. Patient(h, left, m)
      <4>1. m - m = 0 /\ (Rate - Slip) * 0 = 0 /\ left >= 0
        OBVIOUS
      <4> HIDE DEF h
      <4> QED BY <3>2, <4>1 DEF Patient
    <3>4. h = granted'[p] /\ granted' = [granted EXCEPT ![p] = h]
      BY <1>3, <1>4, <1>5, <2>1
    <3> HIDE DEF h
    <3> QED BY <3>1, <3>2, <3>3, <3>4
  <2>2. CASE level < Unit /\ left = level /\ granted' = granted
    <3>1. Patient(g, level, m)
      BY <1>1, <1>2, <1>3, <1>4, <2>2, AttemptPatient
    <3>2. g = granted'[p] /\ granted' = [granted EXCEPT ![p] = g]
      BY <1>4, <1>5, <2>2
    <3> QED BY <1>4, <1>5, <1>6, <2>2, <3>1, <3>2
  <2> QED BY <1>2, <2>1, <2>2
<1>8. RateTypeOK'
  <2>1. [tokens |-> left, last |-> m] \in Buckets
    BY DEF Buckets
  <2> QED BY <1>2, <1>3, <1>5, <1>7, <2>1 DEF RateTypeOK
<1>9. /\ bucket'[p] # NoBucket /\ bucket'[p].tokens = left /\ bucket'[p].last = m /\ m <= now'
      /\ \A q \in Principals \ {p} : bucket'[q] = bucket[q] /\ granted'[q] = granted[q]
  BY <1>2, <1>3, <1>5, <1>7 DEF NoBucket
<1>10. BucketsOK'
  BY <1>2, <1>5, <1>7, <1>9 DEF BucketsOK
<1>11. WindowBound'
  <2>1. \A q \in Principals : Spaced(granted'[q])
    BY <1>5, <1>7, <1>9
  <2> QED BY <2>1, Zenon DEF WindowBound, Spaced
<1> QED BY <1>8, <1>10, <1>11 DEF RateInv

LEMMA StepInv == RateInv /\ [RateNext]_limiterVars => RateInv'
<1> SUFFICES ASSUME RateInv, [RateNext]_limiterVars PROVE RateInv'
  OBVIOUS
<1>1. CASE Tick \/ UNCHANGED limiterVars
  <2>1. /\ UNCHANGED <<bucket, granted>> /\ now \in Nat
        /\ now' \in 0..MaxTime /\ now <= now'
    BY <1>1, RateAssumption DEF Tick, limiterVars, RateInv, RateTypeOK
  <2>2. \A p \in Principals : bucket[p] # NoBucket => bucket[p].last \in Nat
    BY RateAssumption DEF RateInv, RateTypeOK, Buckets
  <2>3. RateTypeOK' /\ WindowBound'
    BY <2>1 DEF RateInv, RateTypeOK, WindowBound
  <2>4. BucketsOK'
    BY <2>1, <2>2 DEF RateInv, BucketsOK, Within, Patient, Held, Off
  <2> QED BY <2>3, <2>4 DEF RateInv
<1> QED BY <1>1, AttemptKeeps DEF RateNext, ClockStops

\* The invariant that joins what a bucket holds to the history of its grants.
THEOREM RateInvariance == RateSpec => []RateInv
BY InitInv, StepInv, PTL DEF RateSpec

\* No bucket holds less than nothing or more than its capacity (limits.py:43-53).
THEOREM RateTypes == RateSpec => []RateTypeOK
BY RateInvariance, PTL DEF RateInv

\* Lazy refill gives the least slack over all windows, up to the rounding of its
\* credits, for every schedule of attempts (limits.py:43-53).
THEOREM RateLevels == RateSpec => []LevelMatchesHistory
<1> USE RateAssumption
<1>1. ASSUME RateInv, NEW p \in Principals
      PROVE  /\ Available(p) <= Capacity
             /\ \A i \in 1..Len(granted[p]) : Available(p) <= Slack(p, i) + Drift(p, i)
             /\ \/ Available(p) >= Capacity - Slip
                \/ \E i \in 1..Len(granted[p]) : Available(p) >= Slack(p, i) - Drift(p, i) - Slip
  <2>1. PICK S \in 0..Capacity, t \in 0..MaxTime :
          BucketFor(p) = [tokens |-> S, last |-> t] /\ t <= now /\ Within(granted[p], S, t)
    BY <1>1, Found
  <2> DEFINE gained == Rate * (now - t)
  <2>2. /\ now \in Int /\ gained \in Nat /\ granted[p] \in Seq(0..MaxTime)
        /\ Available(p) = Least(Capacity, S + gained)
    <3>1. now - t \in Nat /\ now \in Int /\ granted[p] \in Seq(0..MaxTime)
      BY <1>1, <2>1 DEF RateInv, RateTypeOK
    <3>2. (now - t) * Rate = gained /\ gained \in Nat
      BY <3>1
    <3> QED BY <2>1, <3>1, <3>2 DEF Available
  <2>3. ASSUME NEW i \in 1..Len(granted[p])
        PROVE  /\ Held(granted[p], i, t) \in Int /\ Off(granted[p], i, t) \in Int
               /\ Slack(p, i) = Held(granted[p], i, t) + gained /\ Drift(p, i) = Off(granted[p], i, t)
    <3> DEFINE x == granted[p][i]
               spent == Unit * (Len(granted[p]) - i + 1)
               back == Rate * (t - x)
    <3>1. x \in Int /\ t \in Int /\ Rate \in Int /\ Slip \in Int
      BY <2>2
    <3>2. spent \in Int
      <4>1. Len(granted[p]) - i + 1 \in Int /\ Unit \in Int
        BY <2>2
      <4> QED BY <4>1, OneMore
    <3>3. /\ Slack(p, i) = Capacity + Rate * (now - x) - spent
          /\ Held(granted[p], i, t) = Capacity + back - spent
          /\ Drift(p, i) = Slip * (t - x) /\ Off(granted[p], i, t) = Slip * (t - x)
      BY <2>1 DEF Slack, Held, Drift, Off
    <3> HIDE DEF x, spent
    <3>4. Rate * (now - x) = back + gained /\ back \in Int /\ Slip * (t - x) \in Int
      BY <2>2, <3>1, Later
    <3> HIDE DEF back, gained
    <3>5. Slack(p, i) = Capacity + (back + gained) - spent
      BY <3>3, <3>4, Zenon
    <3> QED BY <2>2, <3>2, <3>3, <3>4, <3>5
  <2> HIDE DEF gained
  <2>4. ASSUME NEW i \in 1..Len(granted[p]) PROVE Available(p) <= Slack(p, i) + Drift(p, i)
    <3>1. S <= Held(granted[p], i, t) + Off(granted[p], i, t)
      BY <2>1 DEF Within
    <3> QED BY <2>2, <2>3, <3>1 DEF Least
  <2>5. CASE S >= Capacity - Slip
    BY <2>2, <2>4, <2>5 DEF Least
  <2>6. ASSUME NEW i \in 1..Len(granted[p]), S >= Held(granted[p], i, t) - Off(granted[p], i, t) - Slip
        PROVE  Available(p) >= Capacity - Slip \/ Available(p) >= Slack(p, i) - Drift(p, i) - Slip
    BY <2>2, <2>3, <2>6 DEF Least
  <2>7. Available(p) <= Capacity
    BY <2>2 DEF Least
  <2> QED BY <2>1, <2>4, <2>5, <2>6, <2>7 DEF Within
<1>2. RateInv => LevelMatchesHistory
  BY <1>1 DEF LevelMatchesHistory
<1> QED BY <1>2, RateInvariance, PTL

\* No window of time grants more than a burst and its refill (limits.py:22-29).
THEOREM RateWindows == RateSpec => []WindowBound
BY RateInvariance, PTL DEF RateInv
-----------------------------------------------------------------------------
\* Whole tokens: how parts divided by Unit behave.
LEMMA WholeTokens ==
  ASSUME NEW a \in 0..Capacity
  PROVE  /\ a \div Unit \in 0..(Capacity \div Unit)
         /\ a < Unit => a \div Unit = 0
         /\ a >= Unit => a \div Unit > 0 /\ (a - Unit) \div Unit = a \div Unit - 1
<1> USE RateAssumption
<1>1. \A x, u \in Nat : u # 0 => x \div u \in Nat /\ (x < u => x \div u = 0)
  OBVIOUS
<1>2. \A x, u \in Nat : u # 0 /\ x >= u => x \div u = ((x - u) \div u) + 1
  OBVIOUS
<1>3. \A x, y, u \in Nat : u # 0 /\ x <= y => x \div u <= y \div u
  OBVIOUS
<1>4. a \in Nat /\ a <= Capacity /\ Unit \in Nat /\ Unit # 0 /\ Capacity \in Nat
  OBVIOUS
<1>5. a >= Unit => a - Unit \in Nat
  BY <1>4
<1>6. /\ a \div Unit \in Nat /\ Capacity \div Unit \in Nat /\ a \div Unit <= Capacity \div Unit
      /\ a >= Unit => (a - Unit) \div Unit \in Nat
  BY <1>1, <1>3, <1>4, <1>5
<1>7. a < Unit => a \div Unit = 0
  BY <1>1, <1>4
<1>8. a >= Unit => a \div Unit = ((a - Unit) \div Unit) + 1
  BY <1>2, <1>4
<1>9. a >= Unit => a \div Unit > 0 /\ (a - Unit) \div Unit = a \div Unit - 1
  <2>1. \A x, y \in Nat : x = y + 1 => x > 0 /\ y = x - 1
    OBVIOUS
  <2> QED BY <1>6, <1>8, <2>1
<1>10. a \div Unit \in 0..(Capacity \div Unit)
  BY <1>6
<1> QED BY <1>7, <1>9, <1>10

LEMMA InitRefines == RateInit => Admission!TokensInit
BY DEF RateInit, Whole, Admission!TokensInit

\* An attempt is one of AdmissionTokens, with the same answer.
LEMMA AttemptRefines ==
  ASSUME RateInv, NEW p \in Principals, Attempt(p)
  PROVE  Admission!TryAcquire(p, granted'[p] # granted[p])
<1> USE RateAssumption
<1>1. PICK S \in 0..Capacity, t \in 0..MaxTime :
        BucketFor(p) = [tokens |-> S, last |-> t] /\ t <= now /\ Whole[p] = S \div Unit
  BY Found
<1>2. PICK c \in Credits(now - t), level \in 0..Capacity, left \in 0..Capacity :
        /\ level = Least(Capacity, S + c) /\ S <= level
        /\ \/ /\ level >= Unit /\ left = level - Unit
              /\ granted' = [granted EXCEPT ![p] = Append(@, now)]
           \/ /\ level < Unit /\ left = level
              /\ granted' = granted
        /\ bucket' = [bucket EXCEPT ![p] = [tokens |-> left, last |-> now]]
  BY <1>1, AttemptEffect
<1>3. granted'[p] # granted[p] <=> level >= Unit
  <2>1. granted \in [Principals -> Seq(0..MaxTime)] /\ now \in 0..MaxTime
    BY DEF RateInv, RateTypeOK
  <2>2. Len(Append(granted[p], now)) = Len(granted[p]) + 1 /\ Len(granted[p]) \in Nat
    BY <2>1
  <2>3. Append(granted[p], now) # granted[p]
    BY <2>2
  <2> QED BY <1>2, <2>1, <2>3
<1>4. Whole' = [Whole EXCEPT ![p] = left \div Unit]
  <2>1. /\ bucket'[p] = [tokens |-> left, last |-> now] /\ bucket'[p] # NoBucket
        /\ \A q \in Principals \ {p} : bucket'[q] = bucket[q]
    BY <1>2 DEF RateInv, RateTypeOK, NoBucket
  <2>2. bucket'[p].tokens = left
    BY <2>1
  <2> QED BY <2>1, <2>2 DEF Whole
<1> DEFINE credited == level \div Unit
<1>5. credited \in Whole[p]..(Capacity \div Unit)
  <2>1. \A x, y, u \in Nat : u # 0 /\ x <= y => x \div u <= y \div u
    OBVIOUS
  <2>2. S \in Nat /\ level \in Nat /\ Unit \in Nat /\ Unit # 0 /\ S <= level
    BY <1>2
  <2>3. S \div Unit <= level \div Unit
    BY <2>1, <2>2
  <2>4. level \div Unit \in 0..(Capacity \div Unit) /\ S \div Unit \in 0..(Capacity \div Unit)
    BY WholeTokens
  <2> QED BY <1>1, <2>3, <2>4
<1>6. CASE level >= Unit /\ left = level - Unit
  <2>1. credited > 0 /\ left \div Unit = credited - 1
    BY <1>6, WholeTokens
  <2> QED BY <1>3, <1>4, <1>5, <1>6, <2>1 DEF Admission!TryAcquire
<1>7. CASE level < Unit /\ left = level
  <2>1. credited = 0 /\ left \div Unit = credited
    BY <1>7, WholeTokens
  <2>2. (granted'[p] # granted[p]) = FALSE /\ (credited > 0) = FALSE
    BY <1>3, <1>7, <2>1
  <2>3. Whole' = [Whole EXCEPT ![p] = credited]
    BY <1>4, <2>1, Zenon
  <2> HIDE DEF credited
  <2> QED BY <1>5, <2>2, <2>3 DEF Admission!TryAcquire
<1> QED BY <1>2, <1>6, <1>7

LEMMA StepRefines == RateInv /\ [RateNext]_limiterVars => [Admission!TokensNext]_Whole
<1> SUFFICES ASSUME RateInv, [RateNext]_limiterVars PROVE [Admission!TokensNext]_Whole
  OBVIOUS
<1>1. ASSUME NEW p \in Principals, Attempt(p)
      PROVE  Admission!TokensNext
  <2>1. (granted'[p] # granted[p]) \in BOOLEAN
    OBVIOUS
  <2> QED BY <1>1, <2>1, AttemptRefines DEF Admission!TokensNext
<1>2. CASE Tick \/ UNCHANGED limiterVars
  BY <1>2 DEF Whole, limiterVars, Tick
<1> QED BY <1>1, <1>2 DEF RateNext, ClockStops

\* To a caller the limiter is a counter of whole tokens: every attempt and every tick
\* is a step of AdmissionTokens or changes nothing it shows (limits.py:43-53, 63-90).
THEOREM RateImplements == RateSpec => ImplementsAdmission
BY InitRefines, StepRefines, RateInvariance, PTL DEF RateSpec, ImplementsAdmission, Admission!TokensSpec

\* Every attempt, refused or granted, is answered as AdmissionTokens answers it
\* (limits.py:50-53).
THEOREM RateAnswers == RateSpec => AttemptsAgree
<1>1. RateInv => [\A p \in Principals : Attempt(p) => Admission!TryAcquire(p, granted'[p] # granted[p])]_limiterVars
  BY AttemptRefines
<1> QED BY <1>1, RateInvariance, PTL DEF AttemptsAgree

\* Refused attempts do not keep a principal from its token, whatever they round away
\* within Slip, for every capacity, rate and schedule of attempts (limits.py:43-53).
THEOREM RatePatience == RateSpec => PatienceIsRewarded
<1> USE RateAssumption
<1>1. ASSUME RateInv, NEW p \in Principals, Attempt(p), Rested(p)
      PROVE  granted'[p] # granted[p] <=> Capacity >= Unit
  <2>1. PICK S \in 0..Capacity, t \in 0..MaxTime :
          /\ BucketFor(p) = [tokens |-> S, last |-> t] /\ t <= now
          /\ S = Capacity \/ Patient(granted[p], S, t)
    BY <1>1, Found
  <2>2. PICK c \in Credits(now - t), level \in 0..Capacity, left \in 0..Capacity :
          /\ level = Least(Capacity, S + c)
          /\ \/ /\ level >= Unit /\ left = level - Unit
                /\ granted' = [granted EXCEPT ![p] = Append(@, now)]
             \/ /\ level < Unit /\ left = level
                /\ granted' = granted
    BY <1>1, <2>1, AttemptEffect
  <2>3. granted'[p] # granted[p] <=> level >= Unit
    <3>1. granted \in [Principals -> Seq(0..MaxTime)] /\ now \in 0..MaxTime
      BY <1>1 DEF RateInv, RateTypeOK
    <3>2. Len(Append(granted[p], now)) = Len(granted[p]) + 1 /\ Len(granted[p]) \in Nat
      BY <3>1
    <3>3. Append(granted[p], now) # granted[p]
      BY <3>2
    <3> QED BY <2>2, <3>1, <3>3
  <2>4. ASSUME Capacity >= Unit, level < Unit PROVE FALSE
    <3>1. Patient(granted[p], level, now)
      <4>1. granted[p] \in Seq(0..MaxTime) /\ now \in 0..MaxTime
        BY <1>1 DEF RateInv, RateTypeOK
      <4> QED BY <2>1, <2>2, <2>4, <4>1, AttemptPatient
    <3>2. level >= (Rate - Slip) * (now - granted[p][Len(granted[p])]) /\ granted[p] # <<>>
      BY <2>4, <3>1 DEF Patient
    <3>3. (Rate - Slip) * (now - granted[p][Len(granted[p])]) >= Unit
      BY <1>1, <3>2 DEF Rested
    <3> DEFINE due == (Rate - Slip) * (now - granted[p][Len(granted[p])])
    <3>4. due \in Int
      <4>1. granted[p] \in Seq(0..MaxTime) /\ now \in Int
        BY <1>1 DEF RateInv, RateTypeOK
      <4>2. now - granted[p][Len(granted[p])] \in Int
        BY <3>2, <4>1
      <4> QED BY <4>2, OneMore
    <3>5. level >= due /\ due >= Unit
      BY <3>2, <3>3
    <3> HIDE DEF due
    <3> QED BY <2>4, <3>4, <3>5
  <2> QED BY <2>2, <2>3, <2>4
<1>2. RateInv => [\A p \in Principals : Attempt(p) /\ Rested(p) =>
                    (granted'[p] # granted[p] <=> Capacity >= Unit)]_limiterVars
  BY <1>1
<1> QED BY <1>2, RateInvariance, PTL DEF PatienceIsRewarded
=============================================================================
