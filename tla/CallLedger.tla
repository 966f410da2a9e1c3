----------------------------- MODULE CallLedger -----------------------------
(***************************************************************************)
(* What the gateway promises whoever reads the audit file beside the       *)
(* replies of tools/call, without locks, threads, stages or slots.         *)
(*                                                                         *)
(* A ledger only grows.  A caller is told a reply after the one line of    *)
(* its call, which says what the reply says, and no line of that call      *)
(* follows.  A call may also be raised out of, and faults may hit it       *)
(* before and after.  One fault alone never costs the call its line, and   *)
(* only one that was cancelled may have two: of these one is the           *)
(* backstop's.  CallPipeline implements this.                              *)
(***************************************************************************)
EXTENDS Naturals, Sequences

CONSTANTS Calls, Outcomes, Replies

VARIABLES
  ledger,                   \* the audit file: the call and the outcome of each line
  told,                     \* what each caller has been told
  faults,                   \* how many things have gone wrong for each call
  cancelled                 \* the calls that a cancellation has hit

ledgerVars == <<ledger, told, faults, cancelled>>

\* The reply that goes with each recorded outcome.
AnswerFits(outcome, ans) ==
  CASE outcome = "RATE_LIMITED" -> ans = "rate_limited"
    [] outcome = "POLICY_DENIED" -> ans \in {"unknown_tool", "argument_denied"}
    [] outcome = "SCHEMA_REJECTED" -> ans = "schema_invalid"
    [] outcome = "CONCURRENCY_REJECTED" -> ans = "concurrency_rejected"
    [] outcome = "UPSTREAM_SUCCESS" -> ans = "result"
    [] outcome = "UPSTREAM_ERROR" -> ans = "upstream_failed"
    [] outcome = "UPSTREAM_TIMEOUT" -> ans = "timed_out"
    [] OTHER -> FALSE

ByBackstop(outcome) == outcome \in {"INTERNAL_ERROR", "CANCELLED"}

LinesOf(c) == {i \in DOMAIN ledger : ledger[i].call = c}

LedgerInit ==
  /\ ledger = <<>>
  /\ told = [c \in Calls |-> "nothing"]
  /\ faults = [c \in Calls |-> 0]
  /\ cancelled = {}

\* A line of c: its only one, or the second of a call that was cancelled.
Enter(c, outcome) ==
  /\ told[c] \in {"nothing", "raised"}
  /\ \A i \in LinesOf(c) :
       /\ c \in cancelled /\ LinesOf(c) = {i}
       /\ ByBackstop(ledger[i].outcome) \/ ByBackstop(outcome)
  /\ ledger' = Append(ledger, [call |-> c, outcome |-> outcome])
  /\ UNCHANGED <<told, faults, cancelled>>

\* The caller gets the reply that its one line announces.
Answer(c, ans) ==
  /\ told[c] = "nothing"
  /\ \E i \in LinesOf(c) : LinesOf(c) = {i} /\ AnswerFits(ledger[i].outcome, ans)
  /\ told' = [told EXCEPT ![c] = ans]
  /\ UNCHANGED <<ledger, faults, cancelled>>

\* A fault hits c: a cancellation or another one.
Hit(c) ==
  /\ faults' = [faults EXCEPT ![c] = @ + 1]
  /\ cancelled' \in {cancelled, cancelled \cup {c}}

\* An exception leaves the handler of c, a fault of this moment perhaps.
Raise(c) ==
  /\ told[c] = "nothing"
  /\ Hit(c) \/ UNCHANGED <<faults, cancelled>>
  /\ LinesOf(c) # {} \/ faults'[c] > 1
  /\ told' = [told EXCEPT ![c] = "raised"]
  /\ UNCHANGED ledger

LedgerNext ==
  \E c \in Calls :
    \/ \E outcome \in Outcomes : Enter(c, outcome)
    \/ \E ans \in Replies : Answer(c, ans)
    \/ Hit(c) /\ UNCHANGED <<ledger, told>>
    \/ Raise(c)

LedgerSpec == LedgerInit /\ [][LedgerNext]_ledgerVars
=============================================================================
