----------------------------- MODULE RequestData -----------------------------
(***************************************************************************)
(* What handle_call_tool (gateway/bridge.py) does with the data of a call: *)
(* the principal, the tool and the arguments meet a policy, the schema of  *)
(* the upstream's tool, and the audit record that represents them.         *)
(* CallPipeline has the same stages with their suspensions, and the        *)
(* verdicts reached here as inputs.                                        *)
(***************************************************************************)
EXTENDS PolicyEngine, Redaction

CONSTANTS
  Policies,                 \* the loaded policies tried: principal -> tool -> rule
  Callers, Tools,
  ArgumentValues,           \* the arguments callers send, each a dict
  Schemas,                  \* subset of {"absent", "usable", "broken"}
  Modes                     \* subset of RedactionModes

ASSUME DataAssumption ==
  /\ ArgumentValues \subseteq {v \in Values : v.type = "dict"}
  /\ Schemas \subseteq {"absent", "usable", "broken"} /\ Modes \subseteq RedactionModes
  /\ \A pol \in Policies : \A p \in DOMAIN pol : \A t \in DOMAIN pol[p] : IsToolRule(pol[p][t])

VARIABLES
  policy, mode,             \* fixed when the gateway starts
  call,                     \* the request
  answer,                   \* what the caller is told
  record                    \* the part of the audit record that is data

dataVars == <<policy, mode, call, answer, record>>

Asks == [principal : Callers, tool : Tools, arguments : ArgumentValues,
         listed : BOOLEAN, schema : Schemas, conforms : BOOLEAN]

NoDataRecord == [matched |-> FALSE]

DataInit ==
  /\ policy \in Policies /\ mode \in Modes
  /\ call \in {a \in Asks : a.conforms => a.schema = "usable" /\ a.listed}
  /\ answer = "pending" /\ record = NoDataRecord

-----------------------------------------------------------------------------
MatchedRule(principal, tool) ==
  {p \in DOMAIN policy \cap {principal} : tool \in DOMAIN policy[p]} # {}

\* The stages between the rate limit and the concurrency limit.
Judgement(ask) ==
  LET rules == ResolveToolPolicy(policy, ask.principal, ask.tool)
      Refuses(rule) == EvaluateArgumentPolicy(rule, ask.arguments) # "none"
  IN  IF rules = {} \/ ~ask.listed THEN "unknown_tool"
      ELSE IF ~ConformsToSchema(ask.schema, ask.conforms) THEN "schema_invalid"
      ELSE IF \E rule \in rules : Refuses(rule) THEN "argument_denied"
      ELSE "forwarded"

\* A call from its arrival to its record.
Handle ==
  /\ answer = "pending"
  /\ answer' = Judgement(call)
  /\ record' = [matched |-> MatchedRule(call.principal, call.tool),
                arguments |-> RepresentArguments(call.arguments, mode)]
  /\ UNCHANGED <<policy, mode, call>>

Handled == answer # "pending" /\ UNCHANGED dataVars

DataNext == Handle \/ Handled

DataSpec == DataInit /\ [][DataNext]_dataVars

-----------------------------------------------------------------------------
Admits(rule, arguments) == EvaluateArgumentPolicy(rule, arguments) = "none"

\* The rule that judged the arguments of the call, if they were judged.
RuleApplied ==
  IF answer \in {"argument_denied", "forwarded"}
  THEN ResolveToolPolicy(policy, call.principal, call.tool) ELSE {}

\* The rules of the policies tried, with their constraints and constrained paths.
SomeRules ==
  UNION {UNION {{pol[p][t] : t \in DOMAIN pol[p]} : p \in DOMAIN pol} : pol \in Policies}
SomePaths == UNION {DOMAIN rule.arguments : rule \in SomeRules}
SomeConstraints == UNION {{rule.arguments[path] : path \in DOMAIN rule.arguments} : rule \in SomeRules}

\* Rule with the operators of c on a path, beside those it has there.
Constrained(rule, path, c) ==
  LET old == IF path \in DOMAIN rule.arguments THEN rule.arguments[path] ELSE Unconstrained
      both == [operator \in DOMAIN c |-> old[operator] \cup c[operator]]
  IN  [rule EXCEPT !.arguments =
         [q \in DOMAIN @ \cup {path} |-> IF q = path THEN both ELSE rule.arguments[q]]]

\* Rule with one more constraint on a path it has or a new one, required name or
\* forbidden name. All start at names it already knows: a new one would become
\* known, which lets through a field that deny_unknown_arguments refused.
Tightened(rule) ==
  LET known == KnownTopLevelFields(rule)
  IN  {Constrained(rule, path, c) :
         path \in {path \in SomePaths \cup DOMAIN rule.arguments : Head(path) \in known},
         c \in SomeConstraints}
      \cup {[rule EXCEPT !.required = @ \cup {n}] : n \in known}
      \cup {[rule EXCEPT !.forbidden = @ \cup {n}] : n \in known}
      \cup {[rule EXCEPT !.deny_unknown_arguments = TRUE]}

\* Also: every record but those of mode "none" has the names of the arguments, and
\* whatever was judged by a rule names it.
DataTypeOK ==
  /\ call \in Asks /\ mode \in RedactionModes
  /\ answer \in {"pending", "unknown_tool", "schema_invalid", "argument_denied", "forwarded"}
  /\ answer = "pending" <=> record = NoDataRecord
  /\ answer # "pending" =>
       /\ record.matched \/ answer = "unknown_tool"
       /\ mode = "none" \/ Names(record.arguments) = Names(call.arguments)

\* Whoever tightens a rule, by an operator, a path, a name or deny_unknown, never
\* lets through what it refused: the checks are joined by "and", and passing one
\* never makes up for failing another (engine.py:105-158).
TighteningNeverAdmits ==
  answer = "argument_denied" =>
    \A rule \in RuleApplied : \A tighter \in Tightened(rule) : ~Admits(tighter, call.arguments)

\* A constraint applies only to what is present: leaving out a field that is not
\* required, or a field nested in one that is not itself constrained, never turns a
\* call that is let through into one that is not (engine.py:83-96, 150-153).
OmittingNeverDenies ==
  answer = "forwarded" =>
    \A rule \in RuleApplied, n \in Names(call.arguments) :
      /\ n \notin rule.required => Admits(rule, Without(call.arguments, n))
      /\ <<n>> \notin DOMAIN rule.arguments =>
           \A m \in Names(call.arguments.parts[n]) :
             Admits(rule, With(call.arguments, n, Without(call.arguments.parts[n], m)))

\* Under deny_unknown_arguments whatever goes upstream at the top level is required
\* by name or has a constraint on it or below it (engine.py:99-102, 144-148).
ForwardedFieldsAreCovered ==
  answer = "forwarded" =>
    \A rule \in RuleApplied : rule.deny_unknown_arguments =>
      \A n \in Names(call.arguments) :
        n \in rule.required \/ \E path \in DOMAIN rule.arguments : Head(path) = n

\* Types are never crossed: a scalar let through by `equals` or `in` is the configured
\* value itself, and an operator refuses, rather than skips, a value of a type that
\* it does not speak of: no list passes `max`, no number `pattern` (engine.py:69-80,
\* 105-126).
ScalarsAreStrict ==
  answer = "forwarded" =>
    \A rule \in RuleApplied : \A path \in DOMAIN rule.arguments :
      LET c == rule.arguments[path]
      IN  \A v \in ResolvePath(call.arguments, path) :
            /\ ~IsContainer(v) => (\A w \in c.equals : v = w) /\ \A s \in c.in : v \in s
            /\ c.min \cup c.max # {} => v.type \in {"int", "float"}
            /\ c.min_length \cup c.max_length \cup c.pattern # {} => v.type = "str"
            /\ c.min_items \cup c.max_items # {} => v.type = "list"

\* In the redacted mode the record shows every value that no sensitive name leads
\* to, where it was, and nothing else of the arguments (audit.py:78-88).
RedactionIsExact ==
  answer # "pending" /\ mode = "redacted" =>
    LET secret(l) == \E i \in DOMAIN l.path : l.path[i] \in Sensitive
        sent == Leaves(call.arguments)
        shown == Leaves(record.arguments)
    IN  /\ {l \in shown : ~secret(l)} = {l \in sent : ~secret(l)}
        /\ \A l \in shown : secret(l) => l.value = Redacted

\* In the mode "keys_only" whatever the record ends in, at any depth, is a placeholder
\* or an empty container, never a value of the arguments (audit.py:91-97).
KeysOnlyShowsNoValue ==
  answer # "pending" /\ mode = "keys_only" =>
    \A l \in Leaves(record.arguments) :
      l.value \in {AnItem, AValue, ListOf(NoParts), DictOf(NoParts)}

\* What docs/policy-semantics.md says of `equals`: JSON's types are distinct, even
\* where Python's == would not tell them apart.
EqualsIsStrict ==
  answer = "forwarded" =>
    \A rule \in RuleApplied : \A path \in DOMAIN rule.arguments :
      \A v \in ResolvePath(call.arguments, path) :
        \A w \in rule.arguments[path].equals : v = w
=============================================================================
