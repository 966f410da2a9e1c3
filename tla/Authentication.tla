--------------------------- MODULE Authentication ---------------------------
(***************************************************************************)
(* Requests to a running gateway (gateway/identity.py).  The middleware    *)
(* resolves the Authorization headers of each HTTP request to a principal  *)
(* or answers 401, and keeps the principal in a context variable while the *)
(* app handles the request.  A handler reads it, once, in a task of its    *)
(* own that runs in a copy of the context of the request that started it   *)
(* and may outlive that request.                                           *)
(*                                                                         *)
(* External: the server creates a task per request, in its own context or, *)
(* when a request was waiting behind another on a connection, in a copy of *)
(* the other's; the SDK hands the sender's context to the handler's task.  *)
(***************************************************************************)
EXTENDS Startup

CONSTANTS
  Requests,
  Headers,                  \* the lists of Authorization values a request may have
  NoPrincipal               \* None

ASSUME AuthenticationAssumption ==
  /\ NoPrincipal \notin Principals
  /\ Headers \subseteq Seq([scheme : STRING, token : Tokens])

VARIABLES
  authorization,            \* the Authorization values of each request
  task,                     \* where each request's task stands
  context,                  \* _principal_var in that task
  saved,                    \* the token of _principal_var.set
  handler,                  \* where the request's handler stands
  carried,                  \* _principal_var in the handler's task
  principal                 \* the handler's own `principal`

requestVars == <<authorization, task, context, saved, handler, carried, principal>>
vars == <<startupVars, requestVars>>

SomePrincipal == Principals \cup {NoPrincipal}

RequestTypeOK ==
  /\ authorization \in [Requests -> Headers \cup {<<>>}]
  /\ task \in [Requests -> {"new", "passed_by", "rejecting", "inside", "ended"}]
  /\ context \in [Requests -> SomePrincipal]
  /\ saved \in [Requests -> SomePrincipal]
  /\ handler \in [Requests -> {"none", "started", "acting", "failed"}]
  /\ carried \in [Requests -> SomePrincipal]
  /\ principal \in [Requests -> SomePrincipal]
  /\ \A r \in Requests : handler[r] = "acting" => principal[r] \in Principals

AuthTypeOK == StartupTypeOK /\ RequestTypeOK

Init ==
  /\ StartupInit
  /\ authorization = [r \in Requests |-> <<>>]
  /\ task = [r \in Requests |-> "new"]
  /\ context = [r \in Requests |-> NoPrincipal]
  /\ saved = [r \in Requests |-> NoPrincipal]
  /\ handler = [r \in Requests |-> "none"]
  /\ carried = [r \in Requests |-> NoPrincipal]
  /\ principal = [r \in Requests |-> NoPrincipal]

-----------------------------------------------------------------------------
\* A mutant of Resolve: the first of several values is taken.
ResolveFirst(values) ==
  IF /\ values # <<>> /\ values[1].scheme = "Bearer" /\ values[1].token # EmptyToken
     /\ Digest[values[1].token] \in DOMAIN digest_to_principal
  THEN digest_to_principal[Digest[values[1].token]]
  ELSE NoPrincipal

\* IdentityResolver.resolve: the principal of exactly one `Bearer <token>`.
Resolve(values) ==
  IF /\ Len(values) = 1
     /\ values[1].scheme = "Bearer" /\ values[1].token # EmptyToken
     /\ Digest[values[1].token] \in DOMAIN digest_to_principal
  THEN digest_to_principal[Digest[values[1].token]]
  ELSE NoPrincipal

\* The contexts a new task may be created in (external).
Inherited == {NoPrincipal} \cup {context[q] : q \in {s \in Requests : task[s] = "inside"}}

\* The request enters the middleware in a task whose context holds this value.
Enters(r, values, where, value, outer) ==
  /\ task[r] = "new" /\ stage = "serving"
  /\ authorization' = [authorization EXCEPT ![r] = values]
  /\ task' = [task EXCEPT ![r] = where]
  /\ context' = [context EXCEPT ![r] = value]
  /\ saved' = [saved EXCEPT ![r] = outer]
  /\ UNCHANGED <<startupVars, handler, carried, principal>>

\* A scope that is not HTTP goes to the app untouched, which has no handler for it.
PassBy(r) ==
  \E base \in Inherited : Enters(r, <<>>, "passed_by", base, NoPrincipal)

\* A mutant of Reject: no return after the 401, so the app gets the request too.
RejectFallingThrough(r) ==
  \E values \in Headers, base \in Inherited :
    /\ Resolve(values) = NoPrincipal
    /\ Enters(r, values, "inside", base, base)

Reject(r) ==
  \E values \in Headers, base \in Inherited :
    /\ Resolve(values) = NoPrincipal
    /\ Enters(r, values, "rejecting", base, NoPrincipal)

\* A mutant of Admit: the task keeps the principal it inherited.
AdmitUnlessSet(r) ==
  \E values \in Headers, base \in Inherited :
    /\ Resolve(values) # NoPrincipal
    /\ Enters(r, values, "inside", IF base = NoPrincipal THEN Resolve(values) ELSE base, base)

Admit(r) ==
  \E values \in Headers, base \in Inherited :
    /\ Resolve(values) # NoPrincipal
    /\ Enters(r, values, "inside", Resolve(values), base)

\* The response is sent, or the app is left: by returning, by an exception or by a
\* cancellation, each through `finally`.
Leave(r) ==
  /\ task[r] \in {"passed_by", "rejecting", "inside"}
  /\ task' = [task EXCEPT ![r] = "ended"]
  /\ context' = IF task[r] = "inside" THEN [context EXCEPT ![r] = saved[r]] ELSE context
  /\ UNCHANGED <<startupVars, authorization, saved, handler, carried, principal>>

\* The request's message reaches the server, which starts a task for it (external).
StartHandler(r) ==
  /\ task[r] = "inside" /\ handler[r] = "none"
  /\ handler' = [handler EXCEPT ![r] = "started"]
  /\ carried' = [carried EXCEPT ![r] = context[r]]
  /\ UNCHANGED <<startupVars, authorization, task, context, saved, principal>>

\* A mutant of CurrentPrincipal: the variable is the request's, and is not checked.
CurrentPrincipalUnchecked(r) ==
  /\ handler[r] = "started"
  /\ handler' = [handler EXCEPT ![r] = "acting"]
  /\ principal' = [principal EXCEPT ![r] = context[r]]
  /\ UNCHANGED <<startupVars, authorization, task, context, saved, carried>>

\* The handler's first line: principal = current_principal(), or its RuntimeError.
CurrentPrincipal(r) ==
  /\ handler[r] = "started"
  /\ handler' = [handler EXCEPT ![r] = IF carried[r] = NoPrincipal THEN "failed" ELSE "acting"]
  /\ principal' = [principal EXCEPT ![r] = carried[r]]
  /\ UNCHANGED <<startupVars, authorization, task, context, saved, carried>>

RequestStep(r) ==
  PassBy(r) \/ Reject(r) \/ Admit(r) \/ Leave(r) \/ StartHandler(r) \/ CurrentPrincipal(r)

\* The process has ended, or every request has.
Settled ==
  /\ \/ stage = "refused"
     \/ stage = "serving" /\ \A r \in Requests : task[r] = "ended" /\ handler[r] # "started"
  /\ UNCHANGED vars

Next ==
  \/ StartupStep /\ UNCHANGED requestVars
  \/ \E r \in Requests : RequestStep(r)
  \/ Settled

Spec == Init /\ [][Next]_vars

\* main() runs through, and a connection attempt ends.
FairSpec == Spec /\ WF_vars(StartupStep /\ UNCHANGED requestVars)
-----------------------------------------------------------------------------
\* values is exactly one Authorization header with the key of principal p.
Presents(values, p) ==
  \E i \in 1..Len(file.principals) :
    /\ file.principals[i] = p
    /\ Len(values) = 1 /\ values[1].scheme = "Bearer" /\ values[1].token = KeyOf(i)

\* A running gateway knows each principal by its key and by nothing else: no order of
\* the policy file, no shared or missing variable makes one principal stand for another
\* or lets an unknown or ambiguous header pass (identity.py:49-84).
ResolvesExactly ==
  stage = "serving" =>
    \A values \in Headers, p \in Principals : Resolve(values) = p <=> Presents(values, p)

\* A handler acts for whoever sent its own request, however requests interleave,
\* whatever context their tasks began with, and even after the request has ended; and
\* current_principal() never raises in one, for no request gets there without having
\* been authenticated (identity.py:103-141, bridge.py:173, 221).
HandlersActForTheirCaller ==
  \A r \in Requests :
    /\ handler[r] # "failed"
    /\ handler[r] = "acting" => Presents(authorization[r], principal[r])
=============================================================================
