-------------------------- MODULE AdmissionTokens --------------------------
(***************************************************************************)
(* What RateLimiter.try_acquire (gateway/limits.py) promises a caller that *)
(* knows nothing of clocks and fractions: a principal has some whole       *)
(* number of tokens, at most Burst, and more of them may have come back by *)
(* the time it asks; an attempt is granted and costs one if there is one,  *)
(* and is refused and costs nothing otherwise.  RateLimiter implements it. *)
(***************************************************************************)
EXTENDS Integers

CONSTANTS Principals, Burst

VARIABLE tokens

TokensTypeOK == tokens \in [Principals -> 0..Burst]

TokensInit == tokens = [p \in Principals |-> Burst]

\* A mutant of TryAcquire: the bucket is never found empty.
TryAcquireUnchecked(p, granted) ==
  /\ granted
  /\ tokens' = [tokens EXCEPT ![p] = @ - 1]

\* The attempt credits what came back since the last one, then takes a token.
TryAcquire(p, granted) ==
  \E credited \in tokens[p]..Burst :
    /\ granted = (credited > 0)
    /\ tokens' = [tokens EXCEPT ![p] = IF granted THEN credited - 1 ELSE credited]

TokensNext == \E p \in Principals, granted \in BOOLEAN : TryAcquire(p, granted)

TokensSpec == TokensInit /\ [][TokensNext]_tokens
=============================================================================
