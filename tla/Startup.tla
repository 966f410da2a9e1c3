------------------------------ MODULE Startup ------------------------------
(***************************************************************************)
(* How the gateway's process comes up (gateway/server.py): it loads the    *)
(* policy file (policy/models.py), builds its limiters, binds each         *)
(* principal's key from the environment (IdentityResolver, identity.py),   *)
(* builds the server and opens its one upstream connection.  Any problem   *)
(* on the way ends the process before it has served anybody.               *)
(*                                                                         *)
(* A policy file is what can be wrong with it: whether it can be read and  *)
(* parsed, the field names of each of its sections, its effects, whether   *)
(* its patterns compile and its values have their types; and the           *)
(* principals in their order, with the variables that hold their keys.     *)
(***************************************************************************)
EXTENDS Integers, Sequences

CONSTANTS
  Principals, EnvVars,
  Tokens,                   \* texts that may be keys or be presented as keys
  EmptyToken,               \* the empty text
  Unset,                    \* an environment variable that is not set
  Undecoded,                \* one that is set to bytes that are not UTF-8
  Digests,
  Digest,                   \* SHA-256 of a text's UTF-8 form
  PolicyFiles,
  Ceilings                  \* values of --max-concurrent-per-principal

Levels == {"policy", "principal", "tool", "constraint"}

KnownFields ==
  [policy |-> {"principals"},
   principal |-> {"api_key_env", "tools"},
   tool |-> {"effect", "required", "forbidden", "deny_unknown_arguments", "arguments"},
   constraint |-> {"equals", "in", "in_", "min", "max", "min_length", "max_length",
                   "min_items", "max_items", "pattern"}]

MandatoryFields ==
  [policy |-> {"principals"}, principal |-> {"api_key_env"}, tool |-> {"effect"},
   constraint |-> {}]

ASSUME StartupAssumption ==
  /\ EmptyToken \in Tokens /\ Unset \notin Tokens /\ Undecoded \notin Tokens
  /\ Unset # Undecoded /\ Ceilings \subseteq Int
  /\ Digest \in [Tokens -> Digests]
  /\ \A t, u \in Tokens : Digest[t] = Digest[u] => t = u
  /\ \A f \in PolicyFiles :
       /\ f.principals \in Seq(Principals)
       /\ \A i, j \in DOMAIN f.principals : f.principals[i] = f.principals[j] => i = j
       /\ f.api_key_env \in [Principals -> EnvVars]

VARIABLES
  file,                     \* the policy file named on the command line
  environ,                  \* os.environ
  max_concurrent,           \* the ceiling the command line asks for
  stage,                    \* how far main() has come
  error,                    \* the exception that ended it
  bound,                    \* how many principals have their keys bound
  digest_to_principal,      \* IdentityResolver._digest_to_principal
  upstream                  \* the Client of the server's lifespan

startupVars ==
  <<file, environ, max_concurrent, stage, error, bound, digest_to_principal, upstream>>

Errors ==
  {"PolicyLoadError", "UnicodeDecodeError", "ValueError", "UnicodeEncodeError",
   "IdentityConfigError", "ConnectionError"}

StartupTypeOK ==
  /\ file \in PolicyFiles
  /\ environ \in [EnvVars -> Tokens \cup {Unset, Undecoded}]
  /\ max_concurrent \in Ceilings
  /\ stage \in {"loading", "building", "binding", "connecting", "serving", "refused"}
  /\ error \in Errors \cup {"none"}
  /\ bound \in 0..Len(file.principals)
  /\ DOMAIN digest_to_principal \subseteq Digests
  /\ \A d \in DOMAIN digest_to_principal : digest_to_principal[d] \in Principals
  /\ upstream \in {"closed", "open"}

StartupInit ==
  /\ file \in PolicyFiles
  /\ environ \in [EnvVars -> Tokens \cup {Unset, Undecoded}]
  /\ max_concurrent \in Ceilings
  /\ stage = "loading" /\ error = "none"
  /\ bound = 0 /\ digest_to_principal = [d \in {} |-> d]
  /\ upstream = "closed"

-----------------------------------------------------------------------------
\* The process ends with this exception.
Refuse(e) ==
  /\ stage' = "refused" /\ error' = e
  /\ UNCHANGED <<file, environ, max_concurrent, bound, digest_to_principal, upstream>>

\* PolicyConfig.model_validate: extra="forbid" in every model.
Validates(f) ==
  /\ \A l \in Levels : \A section \in f.sections[l] :
       MandatoryFields[l] \subseteq section /\ section \subseteq KnownFields[l]
  /\ f.effects \subseteq {"allow", "deny"}
  /\ f.patternsCompile /\ f.wellTyped

\* load_policy.  Text that is not UTF-8 raises neither OSError nor YAMLError.
LoadPolicy ==
  /\ stage = "loading"
  /\ \/ file.content \in {"unreadable", "malformed", "no_mapping"} /\ Refuse("PolicyLoadError")
     \/ file.content = "undecodable" /\ Refuse("UnicodeDecodeError")
     \/ file.content = "mapping" /\ ~Validates(file) /\ Refuse("PolicyLoadError")
     \/ /\ file.content = "mapping" /\ Validates(file)
        /\ stage' = "building"
        /\ UNCHANGED <<file, environ, max_concurrent, error, bound, digest_to_principal, upstream>>

\* main()'s RateLimiter, ConcurrencyLimiter and AuditLogger, new and empty; only the
\* second looks at its arguments.
BuildLimiters ==
  /\ stage = "building"
  /\ \/ max_concurrent <= 0 /\ Refuse("ValueError")
     \/ /\ max_concurrent > 0
        /\ stage' = "binding"
        /\ UNCHANGED <<file, environ, max_concurrent, error, bound, digest_to_principal, upstream>>

\* The i-th principal's key: os.environ.get(env_var).
KeyOf(i) == environ[file.api_key_env[file.principals[i]]]

\* Mutants of Usable: a later principal takes over the key of an earlier one; any
\* earlier principal is a conflict.
UsableTwice(key) == key \notin {Unset, Undecoded, EmptyToken}

UsableOnce(key) == key \in Tokens \ {EmptyToken} /\ DOMAIN digest_to_principal = {}

\* The key is there and nobody else's.
Usable(key) ==
  /\ key \notin {Unset, Undecoded, EmptyToken}
  /\ Digest[key] \notin DOMAIN digest_to_principal

\* One turn of the loop of IdentityResolver.__init__: the digest of the next
\* principal's key becomes the principal's.
BindKey ==
  /\ stage = "binding" /\ bound < Len(file.principals)
  /\ LET key == KeyOf(bound + 1)
     IN  \/ key = Undecoded /\ Refuse("UnicodeEncodeError")
         \/ key # Undecoded /\ ~Usable(key) /\ Refuse("IdentityConfigError")
         \/ /\ Usable(key)
            /\ bound' = bound + 1
            /\ digest_to_principal' =
                 [d \in DOMAIN digest_to_principal \cup {Digest[key]} |->
                    IF d = Digest[key] THEN file.principals[bound + 1]
                    ELSE digest_to_principal[d]]
            /\ UNCHANGED <<file, environ, max_concurrent, stage, error, upstream>>

\* The rest of build_gateway_app, and uvicorn.run: the shared tool cache is new and
\* empty, the app is wrapped.
BuildApp ==
  /\ stage = "binding" /\ bound = Len(file.principals)
  /\ stage' = "connecting"
  /\ UNCHANGED <<file, environ, max_concurrent, error, bound, digest_to_principal, upstream>>

\* The server's lifespan opens the Client, or the server does not start.
OpenUpstream ==
  /\ stage = "connecting"
  /\ \/ /\ stage' = "serving" /\ upstream' = "open"
        /\ UNCHANGED <<file, environ, max_concurrent, error, bound, digest_to_principal>>
     \/ Refuse("ConnectionError")

StartupStep == LoadPolicy \/ BuildLimiters \/ BindKey \/ BuildApp \/ OpenUpstream

-----------------------------------------------------------------------------
\* Whoever is served is served under a configuration that has been understood to the
\* last field and tells all principals apart: every principal has a key of its own,
\* the ceiling lets some call through, and the upstream is there (models.py:77-93,
\* identity.py:51-69, limits.py:106, server.py:60-63, 142-152).
ServesSoundConfiguration ==
  stage = "serving" =>
    /\ \A l \in Levels : \A section \in file.sections[l] : section \subseteq KnownFields[l]
    /\ \A i \in 1..Len(file.principals) : KeyOf(i) \in Tokens \ {EmptyToken}
    /\ \A i, j \in 1..Len(file.principals) : KeyOf(i) = KeyOf(j) => i = j
    /\ max_concurrent > 0 /\ upstream = "open"

\* Nothing else is refused: a valid file whose principals have distinct keys comes up,
\* unless the ceiling is no ceiling or the upstream does not answer
\* (policy-semantics.md:114-123, limits.py:106 name the reasons).
SoundFile ==
  /\ file.content = "mapping" /\ Validates(file)
  /\ \A i \in 1..Len(file.principals) : KeyOf(i) \in Tokens \ {EmptyToken}
  /\ \A i, j \in 1..Len(file.principals) : KeyOf(i) = KeyOf(j) => i = j

StartupEnds ==
  (stage = "loading") ~> \/ stage = "serving"
                         \/ /\ stage = "refused"
                            /\ SoundFile /\ max_concurrent > 0 => error = "ConnectionError"
=============================================================================
