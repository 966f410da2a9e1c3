------------------------ MODULE AuthenticationProofs ------------------------
(***************************************************************************)
(* Proofs that the gateway serves only under a sound configuration, that a *)
(* running gateway resolves each key to its principal and nothing else,    *)
(* and that every handler acts for the caller of its own request, for any  *)
(* policy files, environments, principals and requests.                    *)
(***************************************************************************)
EXTENDS Authentication, TLAPS

\* The first `bound` principals have their keys bound, and nothing else is bound.
BindingInv ==
  /\ StartupTypeOK
  /\ \A i \in 1..bound :
       /\ KeyOf(i) \in Tokens \ {EmptyToken}
       /\ Digest[KeyOf(i)] \in DOMAIN digest_to_principal
       /\ digest_to_principal[Digest[KeyOf(i)]] = file.principals[i]
  /\ \A d \in DOMAIN digest_to_principal : \E i \in 1..bound : d = Digest[KeyOf(i)]
  /\ stage \in {"building", "binding", "connecting", "serving"} => Validates(file)
  /\ stage \in {"binding", "connecting", "serving"} => max_concurrent > 0
  /\ stage \in {"connecting", "serving"} => bound = Len(file.principals)
  /\ stage = "serving" => upstream = "open"

\* What a request's task and its handler know is what its own headers resolve to, and
\* nobody is served before the configuration is complete.
ActsForItself(r) ==
  /\ task[r] # "new" => stage = "serving"
  /\ task[r] = "new" => handler[r] = "none"
  /\ task[r] = "inside" => context[r] = Resolve(authorization[r]) /\ context[r] # NoPrincipal
  /\ handler[r] \in {"started", "acting"} => /\ carried[r] = Resolve(authorization[r])
                                             /\ carried[r] # NoPrincipal
  /\ handler[r] = "acting" => principal[r] = carried[r]
  /\ handler[r] # "failed"

RequestInv == RequestTypeOK /\ \A r \in Requests : ActsForItself(r)

AuthInv == BindingInv /\ RequestInv

-----------------------------------------------------------------------------
LEMMA FileFacts ==
  ASSUME StartupTypeOK
  PROVE  /\ file.principals \in Seq(Principals)
         /\ Len(file.principals) \in Nat
         /\ \A i \in 1..Len(file.principals) : /\ file.principals[i] \in Principals
                                               /\ KeyOf(i) \in Tokens \cup {Unset, Undecoded}
         /\ \A i, j \in 1..Len(file.principals) :
              file.principals[i] = file.principals[j] => i = j
<1>1. /\ file.principals \in Seq(Principals)
      /\ \A i, j \in DOMAIN file.principals : file.principals[i] = file.principals[j] => i = j
      /\ file.api_key_env \in [Principals -> EnvVars]
  BY StartupAssumption DEF StartupTypeOK
<1>2. DOMAIN file.principals = 1..Len(file.principals) /\ Len(file.principals) \in Nat
  BY <1>1
<1>3. \A i \in 1..Len(file.principals) : file.principals[i] \in Principals
  BY <1>1, <1>2
<1>4. \A i \in 1..Len(file.principals) : KeyOf(i) \in Tokens \cup {Unset, Undecoded}
  BY <1>1, <1>3 DEF KeyOf, StartupTypeOK
<1> QED BY <1>1, <1>2, <1>3, <1>4

\* Two principals with one key would have one digest, bound to both.
LEMMA KeysAreDistinct ==
  ASSUME BindingInv
  PROVE  \A i, j \in 1..bound : KeyOf(i) = KeyOf(j) => i = j
<1>1. bound \in Nat /\ 1..bound \subseteq 1..Len(file.principals)
  BY FileFacts DEF BindingInv, StartupTypeOK
<1> QED BY <1>1, FileFacts DEF BindingInv

\* The resolver's table is the principals' keys, both ways.
LEMMA ResolveIsExact ==
  ASSUME BindingInv, stage = "serving",
         NEW values \in Seq([scheme : STRING, token : Tokens]), NEW p \in Principals
  PROVE  Resolve(values) = p <=> Presents(values, p)
<1>1. bound = Len(file.principals) /\ NoPrincipal # p
  BY AuthenticationAssumption DEF BindingInv
<1>2. ASSUME Presents(values, p) PROVE Resolve(values) = p
  <2>1. PICK i \in 1..Len(file.principals) :
          /\ file.principals[i] = p /\ Len(values) = 1
          /\ values[1].scheme = "Bearer" /\ values[1].token = KeyOf(i)
    BY <1>2 DEF Presents
  <2>2. /\ KeyOf(i) # EmptyToken
        /\ Digest[KeyOf(i)] \in DOMAIN digest_to_principal
        /\ digest_to_principal[Digest[KeyOf(i)]] = p
    BY <1>1, <2>1 DEF BindingInv
  <2> QED BY <2>1, <2>2 DEF Resolve
<1>3. ASSUME Resolve(values) = p PROVE Presents(values, p)
  <2>1. /\ Len(values) = 1 /\ values[1].scheme = "Bearer"
        /\ Digest[values[1].token] \in DOMAIN digest_to_principal
        /\ digest_to_principal[Digest[values[1].token]] = p
    BY <1>1, <1>3 DEF Resolve
  <2>2. PICK i \in 1..bound : Digest[values[1].token] = Digest[KeyOf(i)]
    BY <2>1 DEF BindingInv
  <2>3. KeyOf(i) \in Tokens /\ file.principals[i] = p
    BY <2>1, <2>2 DEF BindingInv
  <2>4. values[1].token \in Tokens
    <3>1. 1 \in 1..Len(values)
      BY <2>1
    <3> DEFINE Values == [scheme : STRING, token : Tokens]
    <3>2. values \in Seq(Values)
      OBVIOUS
    <3>3. values[1] \in Values
      <4> HIDE DEF Values
      <4> QED BY <3>1, <3>2
    <3> QED BY <3>3
  <2>5. values[1].token = KeyOf(i)
    BY <2>2, <2>3, <2>4, StartupAssumption
  <2> QED BY <1>1, <2>1, <2>3, <2>5 DEF Presents
<1> QED BY <1>2, <1>3

\* Whatever resolves resolves to a principal or to None.
LEMMA ResolveType ==
  ASSUME BindingInv, NEW values PROVE Resolve(values) \in SomePrincipal
BY DEF BindingInv, StartupTypeOK, Resolve, SomePrincipal

-----------------------------------------------------------------------------
LEMMA AuthInvInit == Init => AuthInv
<1> SUFFICES ASSUME Init PROVE AuthInv
  OBVIOUS
<1>1. StartupTypeOK
  <2>1. file.principals \in Seq(Principals)
    BY StartupAssumption DEF Init, StartupInit
  <2>2. 0 \in 0..Len(file.principals)
    BY <2>1
  <2>3. DOMAIN digest_to_principal = {}
    BY DEF Init, StartupInit
  <2> QED BY <2>2, <2>3 DEF Init, StartupInit, StartupTypeOK
<1>2. BindingInv
  BY <1>1 DEF Init, StartupInit, BindingInv
<1>3. RequestInv
  BY DEF Init, RequestInv, RequestTypeOK, ActsForItself, SomePrincipal
<1> QED BY <1>2, <1>3 DEF AuthInv

\* The table is right as long as it, its file and its environment stay.
LEMMA BindingStays ==
  ASSUME BindingInv,
         UNCHANGED <<file, environ, max_concurrent, bound, digest_to_principal>>,
         stage' \in {"loading", "building", "binding", "connecting", "serving", "refused"},
         error' \in Errors \cup {"none"}, upstream' \in {"closed", "open"},
         stage' \in {"building", "binding", "connecting", "serving"} => Validates(file),
         stage' \in {"binding", "connecting", "serving"} => max_concurrent > 0,
         stage' \in {"connecting", "serving"} => bound = Len(file.principals),
         stage' = "serving" => upstream' = "open"
  PROVE  BindingInv'
<1>1. \A i : KeyOf(i)' = KeyOf(i)
  BY DEF KeyOf
<1>2. Validates(file)' = Validates(file)
  BY DEF Validates
<1>3. StartupTypeOK'
  BY DEF BindingInv, StartupTypeOK
<1>4. \A i \in 1..bound' : /\ KeyOf(i)' \in Tokens \ {EmptyToken}
                           /\ Digest[KeyOf(i)'] \in DOMAIN digest_to_principal'
                           /\ digest_to_principal'[Digest[KeyOf(i)']] = file'.principals[i]
  BY <1>1 DEF BindingInv
<1>5. \A d \in DOMAIN digest_to_principal' : \E i \in 1..bound' : d = Digest[KeyOf(i)']
  BY <1>1 DEF BindingInv
<1> QED BY <1>2, <1>3, <1>4, <1>5 DEF BindingInv

LEMMA RefuseKeeps == ASSUME BindingInv, NEW e \in Errors, Refuse(e) PROVE BindingInv'
<1>1. upstream \in {"closed", "open"}
  BY DEF BindingInv, StartupTypeOK
<1> QED BY <1>1, BindingStays DEF Refuse

\* A startup step binds at most one key, in the policy's order.
LEMMA StartupKeeps == ASSUME BindingInv, StartupStep PROVE BindingInv'
<1>0. error \in Errors \cup {"none"} /\ upstream \in {"closed", "open"}
  BY DEF BindingInv, StartupTypeOK
<1>1. ASSUME NEW e \in Errors, Refuse(e) PROVE BindingInv'
  BY <1>1, RefuseKeeps
<1>2. ASSUME LoadPolicy PROVE BindingInv'
  <2>1. CASE \E e \in Errors : Refuse(e)
    BY <2>1, <1>1
  <2>2. CASE /\ Validates(file) /\ stage' = "building"
             /\ UNCHANGED <<file, environ, max_concurrent, error, bound,
                            digest_to_principal, upstream>>
    BY <2>2, <1>0, BindingStays
  <2> QED BY <1>2, <2>1, <2>2 DEF LoadPolicy, Errors
<1>3. ASSUME BuildLimiters PROVE BindingInv'
  <2>1. CASE Refuse("ValueError")
    BY <2>1, <1>1 DEF Errors
  <2>2. CASE /\ stage = "building" /\ max_concurrent > 0 /\ stage' = "binding"
             /\ UNCHANGED <<file, environ, max_concurrent, error, bound,
                            digest_to_principal, upstream>>
    <3>1. Validates(file)
      BY <2>2 DEF BindingInv
    <3> QED BY <2>2, <3>1, <1>0, BindingStays
  <2> QED BY <1>3, <2>1, <2>2 DEF BuildLimiters
<1>4. ASSUME BindKey PROVE BindingInv'
  <2> DEFINE n == bound + 1
             key == KeyOf(n)
  <2>1. CASE \E e \in Errors : Refuse(e)
    BY <2>1, <1>1
  <2>2. CASE ~\E e \in Errors : Refuse(e)
    <3>1. /\ Usable(key) /\ bound' = n /\ bound < Len(file.principals)
          /\ stage = "binding"
          /\ UNCHANGED <<file, environ, max_concurrent, stage, error, upstream>>
      BY <1>4, <2>2 DEF BindKey, Errors
    <3>2. digest_to_principal' =
            [d \in DOMAIN digest_to_principal \cup {Digest[key]} |->
               IF d = Digest[key] THEN file.principals[n] ELSE digest_to_principal[d]]
      BY <1>4, <2>2 DEF BindKey, Errors
    <3>3. bound \in Nat /\ n \in 1..Len(file.principals) /\ 1..n = 1..bound \cup {n}
      BY <3>1, FileFacts DEF BindingInv, StartupTypeOK
    <3>4. key \in Tokens \ {EmptyToken} /\ Digest[key] \in Digests
      BY <3>1, <3>3, FileFacts, StartupAssumption DEF BindingInv, Usable
    <3>5. \A i : KeyOf(i)' = KeyOf(i)
      BY <3>1 DEF KeyOf
    <3>6. StartupTypeOK'
      <4>1. file.principals[n] \in Principals
        BY <3>3, FileFacts DEF BindingInv
      <4>2. \A d \in DOMAIN digest_to_principal' : digest_to_principal'[d] \in Principals
        BY <3>2, <4>1 DEF BindingInv, StartupTypeOK
      <4>3. DOMAIN digest_to_principal' \subseteq Digests
        BY <3>2, <3>4 DEF BindingInv, StartupTypeOK
      <4>4. bound' \in 0..Len(file.principals)
        BY <3>1, <3>3
      <4> QED BY <3>1, <4>2, <4>3, <4>4 DEF BindingInv, StartupTypeOK
    <3>7. \A i \in 1..n : /\ KeyOf(i) \in Tokens \ {EmptyToken}
                          /\ Digest[KeyOf(i)] \in DOMAIN digest_to_principal'
                          /\ digest_to_principal'[Digest[KeyOf(i)]] = file.principals[i]
      <4> SUFFICES ASSUME NEW i \in 1..n
                   PROVE  /\ KeyOf(i) \in Tokens \ {EmptyToken}
                          /\ Digest[KeyOf(i)] \in DOMAIN digest_to_principal'
                          /\ digest_to_principal'[Digest[KeyOf(i)]] = file.principals[i]
        OBVIOUS
      <4>1. CASE i = n
        BY <4>1, <3>2, <3>4
      <4>2. CASE i \in 1..bound
        <5>1. /\ KeyOf(i) \in Tokens \ {EmptyToken}
              /\ Digest[KeyOf(i)] \in DOMAIN digest_to_principal
              /\ digest_to_principal[Digest[KeyOf(i)]] = file.principals[i]
          BY <4>2 DEF BindingInv
        <5>2. Digest[KeyOf(i)] # Digest[key]
          BY <5>1, <3>1 DEF Usable
        <5> HIDE DEF key, n
        <5> QED BY <5>1, <5>2, <3>2
      <4> QED BY <4>1, <4>2, <3>3
    <3>8. \A d \in DOMAIN digest_to_principal' : \E i \in 1..n : d = Digest[KeyOf(i)]
      <4> SUFFICES ASSUME NEW d \in DOMAIN digest_to_principal'
                   PROVE  \E i \in 1..n : d = Digest[KeyOf(i)]
        OBVIOUS
      <4>1. d = Digest[key] \/ d \in DOMAIN digest_to_principal
        BY <3>2
      <4> QED BY <4>1, <3>3 DEF BindingInv
    <3>9. Validates(file)' = Validates(file) /\ stage' = "binding"
      BY <3>1 DEF Validates
    <3>10. \A i \in 1..bound' : /\ KeyOf(i)' \in Tokens \ {EmptyToken}
                               /\ Digest[KeyOf(i)'] \in DOMAIN digest_to_principal'
                               /\ digest_to_principal'[Digest[KeyOf(i)']] = file'.principals[i]
      BY <3>1, <3>5, <3>7
    <3>11. \A d \in DOMAIN digest_to_principal' : \E i \in 1..bound' : d = Digest[KeyOf(i)']
      BY <3>1, <3>5, <3>8
    <3> HIDE DEF key, n
    <3> QED BY <3>1, <3>6, <3>9, <3>10, <3>11 DEF BindingInv
  <2> QED BY <2>1, <2>2
<1>5. ASSUME BuildApp PROVE BindingInv'
  <2>1. Validates(file) /\ max_concurrent > 0
    BY <1>5 DEF BuildApp, BindingInv
  <2> QED BY <1>0, <1>5, <2>1, BindingStays DEF BuildApp
<1>6. ASSUME OpenUpstream PROVE BindingInv'
  <2>1. CASE Refuse("ConnectionError")
    BY <2>1, <1>1 DEF Errors
  <2>2. CASE /\ stage = "connecting" /\ stage' = "serving" /\ upstream' = "open"
             /\ UNCHANGED <<file, environ, max_concurrent, error, bound, digest_to_principal>>
    <3>1. Validates(file) /\ max_concurrent > 0 /\ bound = Len(file.principals)
      BY <2>2 DEF BindingInv
    <3> QED BY <2>2, <3>1, <1>0, BindingStays
  <2> QED BY <1>6, <2>1, <2>2 DEF OpenUpstream
<1> QED BY <1>2, <1>3, <1>4, <1>5, <1>6 DEF StartupStep

\* Startup is over before the first request, so no request sees it move.
LEMMA StartupBeforeRequests ==
  ASSUME BindingInv, RequestInv, StartupStep, UNCHANGED requestVars
  PROVE  RequestInv'
<1>1. stage # "serving"
  BY DEF StartupStep, LoadPolicy, BuildLimiters, BindKey, BuildApp, OpenUpstream
<1>2. \A r \in Requests : task[r] = "new" /\ handler[r] = "none"
  BY <1>1 DEF RequestInv, ActsForItself
<1>3. RequestTypeOK'
  BY DEF RequestInv, RequestTypeOK, requestVars
<1>4. \A r \in Requests : ActsForItself(r)'
  BY <1>2 DEF requestVars, ActsForItself
<1> QED BY <1>3, <1>4 DEF RequestInv

LEMMA BindingStands == ASSUME BindingInv, UNCHANGED startupVars PROVE BindingInv'
<1>1. /\ stage \in {"loading", "building", "binding", "connecting", "serving", "refused"}
      /\ error \in Errors \cup {"none"} /\ upstream \in {"closed", "open"}
      /\ stage \in {"building", "binding", "connecting", "serving"} => Validates(file)
      /\ stage \in {"binding", "connecting", "serving"} => max_concurrent > 0
      /\ stage \in {"connecting", "serving"} => bound = Len(file.principals)
      /\ stage = "serving" => upstream = "open"
  BY DEF BindingInv, StartupTypeOK
<1> QED BY <1>1, BindingStays DEF startupVars

\* While startup stands still, headers resolve to what they did.
LEMMA ResolveStays ==
  ASSUME UNCHANGED startupVars, NEW q
  PROVE  Resolve(authorization[q])' = Resolve(authorization'[q])
BY DEF startupVars, Resolve

LEMMA InheritedType == ASSUME RequestInv PROVE Inherited \subseteq SomePrincipal
BY DEF RequestInv, RequestTypeOK, Inherited, SomePrincipal

\* A step that leaves a request alone leaves it right.
LEMMA Untouched ==
  ASSUME RequestInv, UNCHANGED startupVars, NEW q \in Requests,
         authorization'[q] = authorization[q], task'[q] = task[q],
         context'[q] = context[q], handler'[q] = handler[q],
         carried'[q] = carried[q], principal'[q] = principal[q]
  PROVE  ActsForItself(q)'
<1>1. Resolve(authorization[q])' = Resolve(authorization[q])
  BY ResolveStays
<1>2. stage' = stage
  BY DEF startupVars
<1> QED BY <1>1, <1>2 DEF RequestInv, ActsForItself

\* A request enters with the principal its headers resolve to, or stays outside.
LEMMA EnterKeeps ==
  ASSUME RequestInv, NEW r \in Requests, NEW values \in Headers \cup {<<>>},
         NEW where \in {"passed_by", "rejecting", "inside"},
         NEW value \in SomePrincipal, NEW outer \in SomePrincipal,
         where = "inside" => value = Resolve(values) /\ value # NoPrincipal,
         Enters(r, values, where, value, outer)
  PROVE  RequestInv'
<1>1. /\ stage = "serving" /\ task[r] = "new" /\ UNCHANGED startupVars
      /\ authorization' = [authorization EXCEPT ![r] = values]
      /\ task' = [task EXCEPT ![r] = where]
      /\ context' = [context EXCEPT ![r] = value]
      /\ saved' = [saved EXCEPT ![r] = outer]
      /\ UNCHANGED <<handler, carried, principal>>
  BY DEF Enters
<1>2. RequestTypeOK'
  BY <1>1 DEF RequestInv, RequestTypeOK
<1>3. ActsForItself(r)'
  <2>1. /\ authorization'[r] = values /\ task'[r] = where /\ context'[r] = value
    BY <1>1 DEF RequestInv, RequestTypeOK
  <2>2. handler[r] = "none" /\ stage' = "serving"
    BY <1>1 DEF RequestInv, ActsForItself, startupVars
  <2>3. Resolve(authorization[r])' = Resolve(values)
    BY <1>1, <2>1, ResolveStays
  <2> QED BY <1>1, <2>1, <2>2, <2>3 DEF ActsForItself
<1>4. ASSUME NEW q \in Requests, q # r PROVE ActsForItself(q)'
  <2>1. /\ authorization'[q] = authorization[q] /\ task'[q] = task[q]
        /\ context'[q] = context[q]
    BY <1>1, <1>4 DEF RequestInv, RequestTypeOK
  <2> QED BY <1>1, <1>4, <2>1, Untouched
<1> QED BY <1>2, <1>3, <1>4 DEF RequestInv

\* A task that ends, a handler that starts or reads its principal: each keeps to the
\* principal of its request.
LEMMA LeaveKeeps == ASSUME RequestInv, NEW r \in Requests, Leave(r) PROVE RequestInv'
<1>1. /\ task[r] \in {"passed_by", "rejecting", "inside"}
      /\ task' = [task EXCEPT ![r] = "ended"]
      /\ context' = IF task[r] = "inside" THEN [context EXCEPT ![r] = saved[r]] ELSE context
      /\ UNCHANGED <<startupVars, authorization, saved, handler, carried, principal>>
  BY DEF Leave
<1>2. RequestTypeOK'
  BY <1>1 DEF RequestInv, RequestTypeOK
<1>3. ActsForItself(r)'
  <2>1. task'[r] = "ended"
    BY <1>1 DEF RequestInv, RequestTypeOK
  <2>2. stage' = "serving"
    BY <1>1 DEF RequestInv, ActsForItself, startupVars
  <2>3. Resolve(authorization[r])' = Resolve(authorization[r])
    BY <1>1, ResolveStays
  <2> QED BY <1>1, <2>1, <2>2, <2>3 DEF RequestInv, ActsForItself
<1>4. ASSUME NEW q \in Requests, q # r PROVE ActsForItself(q)'
  <2>1. task'[q] = task[q] /\ context'[q] = context[q]
    BY <1>1, <1>4 DEF RequestInv, RequestTypeOK
  <2> QED BY <1>1, <1>4, <2>1, Untouched
<1> QED BY <1>2, <1>3, <1>4 DEF RequestInv

LEMMA StartKeeps == ASSUME RequestInv, NEW r \in Requests, StartHandler(r) PROVE RequestInv'
<1>1. /\ task[r] = "inside" /\ handler[r] = "none"
      /\ handler' = [handler EXCEPT ![r] = "started"]
      /\ carried' = [carried EXCEPT ![r] = context[r]]
      /\ UNCHANGED <<startupVars, authorization, task, context, saved, principal>>
  BY DEF StartHandler
<1>2. RequestTypeOK'
  BY <1>1 DEF RequestInv, RequestTypeOK
<1>3. ActsForItself(r)'
  <2>1. handler'[r] = "started" /\ carried'[r] = context[r]
    BY <1>1 DEF RequestInv, RequestTypeOK
  <2>2. Resolve(authorization[r])' = Resolve(authorization[r]) /\ stage' = stage
    BY <1>1, ResolveStays DEF startupVars
  <2> QED BY <1>1, <2>1, <2>2 DEF RequestInv, ActsForItself
<1>4. ASSUME NEW q \in Requests, q # r PROVE ActsForItself(q)'
  <2>1. handler'[q] = handler[q] /\ carried'[q] = carried[q]
    BY <1>1, <1>4 DEF RequestInv, RequestTypeOK
  <2> QED BY <1>1, <1>4, <2>1, Untouched
<1> QED BY <1>2, <1>3, <1>4 DEF RequestInv

LEMMA CurrentKeeps ==
  ASSUME RequestInv, NEW r \in Requests, CurrentPrincipal(r) PROVE RequestInv'
<1>1. /\ handler[r] = "started"
      /\ handler' = [handler EXCEPT ![r] = IF carried[r] = NoPrincipal THEN "failed"
                                           ELSE "acting"]
      /\ principal' = [principal EXCEPT ![r] = carried[r]]
      /\ UNCHANGED <<startupVars, authorization, task, context, saved, carried>>
  BY DEF CurrentPrincipal
<1>2. carried[r] # NoPrincipal /\ carried[r] \in SomePrincipal
  BY <1>1 DEF RequestInv, RequestTypeOK, ActsForItself
<1>3. handler'[r] = "acting" /\ principal'[r] = carried[r]
  BY <1>1, <1>2 DEF RequestInv, RequestTypeOK
<1>4. RequestTypeOK'
  BY <1>1, <1>2, <1>3 DEF RequestInv, RequestTypeOK, SomePrincipal
<1>5. ActsForItself(r)'
  <2>1. Resolve(authorization[r])' = Resolve(authorization[r]) /\ stage' = stage
    BY <1>1, ResolveStays DEF startupVars
  <2> QED BY <1>1, <1>3, <2>1 DEF RequestInv, ActsForItself
<1>6. ASSUME NEW q \in Requests, q # r PROVE ActsForItself(q)'
  <2>1. handler'[q] = handler[q] /\ principal'[q] = principal[q]
    BY <1>1, <1>6 DEF RequestInv, RequestTypeOK
  <2> QED BY <1>1, <1>6, <2>1, Untouched
<1> QED BY <1>4, <1>5, <1>6 DEF RequestInv

-----------------------------------------------------------------------------
LEMMA AuthInvStep == AuthInv /\ [Next]_vars => AuthInv'
<1> SUFFICES ASSUME AuthInv, [Next]_vars PROVE AuthInv'
  OBVIOUS
<1>0. BindingInv /\ RequestInv
  BY DEF AuthInv
<1>1. CASE StartupStep /\ UNCHANGED requestVars
  BY <1>0, <1>1, StartupKeeps, StartupBeforeRequests DEF AuthInv
<1>2. ASSUME NEW r \in Requests, RequestStep(r) PROVE AuthInv'
  <2>1. UNCHANGED startupVars
    BY <1>2 DEF RequestStep, PassBy, Reject, Admit, Enters, Leave, StartHandler, CurrentPrincipal
  <2>2. BindingInv'
    BY <1>0, <2>1, BindingStands
  <2>3. NoPrincipal \in SomePrincipal /\ Inherited \subseteq SomePrincipal
    BY <1>0, InheritedType DEF SomePrincipal
  <2>4. CASE PassBy(r)
    BY <1>0, <2>2, <2>3, <2>4, EnterKeeps DEF PassBy, AuthInv
  <2>5. CASE Reject(r)
    BY <1>0, <2>2, <2>3, <2>5, EnterKeeps DEF Reject, AuthInv
  <2>6. CASE Admit(r)
    BY <1>0, <2>2, <2>3, <2>6, ResolveType, EnterKeeps DEF Admit, AuthInv
  <2>7. CASE Leave(r)
    BY <1>0, <2>2, <2>7, LeaveKeeps DEF AuthInv
  <2>8. CASE StartHandler(r)
    BY <1>0, <2>2, <2>8, StartKeeps DEF AuthInv
  <2>9. CASE CurrentPrincipal(r)
    BY <1>0, <2>2, <2>9, CurrentKeeps DEF AuthInv
  <2> QED BY <1>2, <2>4, <2>5, <2>6, <2>7, <2>8, <2>9 DEF RequestStep
<1>3. CASE UNCHANGED vars
  <2>1. BindingInv'
    BY <1>0, <1>3, BindingStands DEF vars
  <2>2. RequestTypeOK'
    BY <1>0, <1>3 DEF RequestInv, RequestTypeOK, vars, requestVars
  <2>3. \A r \in Requests : ActsForItself(r)'
    BY <1>0, <1>3, Untouched DEF vars, requestVars
  <2> QED BY <2>1, <2>2, <2>3 DEF RequestInv, AuthInv
<1> QED BY <1>1, <1>2, <1>3 DEF Next, Settled

\* In every reachable state the table of keys and the requests agree.
THEOREM AuthInvariance == Spec => []AuthInv
BY AuthInvInit, AuthInvStep, PTL DEF Spec

\* Every variable keeps its type, whatever is configured and whoever calls.
THEOREM AuthTypes == Spec => []AuthTypeOK
<1>1. AuthInv => AuthTypeOK
  BY DEF AuthInv, BindingInv, RequestInv, AuthTypeOK
<1> QED BY <1>1, AuthInvariance, PTL

\* A gateway that serves has understood every field of its policy and tells its
\* principals apart by their keys.
THEOREM SoundConfiguration == Spec => []ServesSoundConfiguration
<1>1. ASSUME AuthInv, stage = "serving" PROVE ServesSoundConfiguration
  <2>1. BindingInv /\ Validates(file) /\ bound = Len(file.principals)
    BY <1>1 DEF AuthInv, BindingInv
  <2>2. \A l \in Levels : \A section \in file.sections[l] : section \subseteq KnownFields[l]
    BY <2>1 DEF Validates
  <2>3. \A i \in 1..Len(file.principals) : KeyOf(i) \in Tokens \ {EmptyToken}
    BY <2>1 DEF BindingInv
  <2>4. \A i, j \in 1..Len(file.principals) : KeyOf(i) = KeyOf(j) => i = j
    BY <2>1, KeysAreDistinct
  <2>5. max_concurrent > 0 /\ upstream = "open"
    BY <1>1, <2>1 DEF BindingInv
  <2> QED BY <2>2, <2>3, <2>4, <2>5 DEF ServesSoundConfiguration
<1>2. AuthInv => ServesSoundConfiguration
  BY <1>1 DEF ServesSoundConfiguration
<1> QED BY <1>2, AuthInvariance, PTL

\* For every set of texts, every header list and every order of principals, a header
\* resolves to a principal exactly when it is that principal's one key.
THEOREM ExactResolution == Spec => []ResolvesExactly
<1>1. AuthInv => ResolvesExactly
  <2> SUFFICES ASSUME AuthInv, stage = "serving", NEW values \in Headers, NEW p \in Principals
               PROVE  Resolve(values) = p <=> Presents(values, p)
    BY DEF ResolvesExactly
  <2>1. BindingInv /\ values \in Seq([scheme : STRING, token : Tokens])
    BY AuthenticationAssumption DEF AuthInv
  <2> QED BY <2>1, ResolveIsExact
<1> QED BY <1>1, AuthInvariance, PTL

\* A handler's principal is the one whose key its own request presented.
THEOREM CallersAreTheirOwn == Spec => []HandlersActForTheirCaller
<1>1. AuthInv => HandlersActForTheirCaller
  <2> SUFFICES ASSUME AuthInv, NEW r \in Requests
               PROVE  /\ handler[r] # "failed"
                      /\ handler[r] = "acting" => Presents(authorization[r], principal[r])
    BY DEF HandlersActForTheirCaller
  <2>0. handler[r] # "failed"
    BY DEF AuthInv, RequestInv, ActsForItself
  <2> SUFFICES ASSUME handler[r] = "acting"
               PROVE  Presents(authorization[r], principal[r])
    BY <2>0
  <2>1. /\ BindingInv /\ RequestTypeOK /\ ActsForItself(r)
    BY DEF AuthInv, RequestInv
  <2>2. /\ stage = "serving" /\ principal[r] = Resolve(authorization[r])
        /\ principal[r] \in Principals
    BY <2>1 DEF ActsForItself, RequestTypeOK
  <2>3. authorization[r] \in Seq([scheme : STRING, token : Tokens])
    <3>1. <<>> \in Seq([scheme : STRING, token : Tokens])
      OBVIOUS
    <3> QED BY <2>1, <3>1, AuthenticationAssumption DEF RequestTypeOK
  <2> QED BY <2>1, <2>2, <2>3, ResolveIsExact
<1> QED BY <1>1, AuthInvariance, PTL
=============================================================================
