---------------------------- MODULE PolicyEngine ----------------------------
(***************************************************************************)
(* The decisions of policy/engine.py, over the rules of policy/models.py.  *)
(*                                                                         *)
(* An optional operand of a constraint is a set of at most one element, so *)
(* that `equals: null` is not the absence of `equals`.  A pattern is the   *)
(* set of strings it fully matches.  A path is the sequence of its         *)
(* segments.                                                               *)
(***************************************************************************)
EXTENDS JsonValues

\* ArgumentConstraint with no operator set.
Unconstrained ==
  [equals |-> {}, in |-> {}, min |-> {}, max |-> {}, min_length |-> {}, max_length |-> {},
   min_items |-> {}, max_items |-> {}, pattern |-> {}]

\* ToolPolicy with its defaults.
ToolRule(effect) ==
  [effect |-> effect, required |-> {}, forbidden |-> {}, deny_unknown_arguments |-> TRUE,
   arguments |-> [path \in {} |-> Unconstrained]]

\* What a loaded policy holds: rules with their types, a path of one segment or more.
ArgumentConstraints ==
  [equals : SUBSET Values, in : SUBSET SUBSET Values, min : SUBSET Int, max : SUBSET Int,
   min_length : SUBSET Int, max_length : SUBSET Int, min_items : SUBSET Int,
   max_items : SUBSET Int, pattern : SUBSET SUBSET Int]

IsToolRule(r) ==
  /\ r = [effect |-> r.effect, required |-> r.required, forbidden |-> r.forbidden,
          deny_unknown_arguments |-> r.deny_unknown_arguments, arguments |-> r.arguments]
  /\ r.effect \in {"allow", "deny"} /\ r.deny_unknown_arguments \in BOOLEAN
  /\ r.required \subseteq Fields /\ r.forbidden \subseteq Fields
  /\ DOMAIN r.arguments \subseteq Seq(Fields) \ {<<>>}
  /\ r.arguments \in [DOMAIN r.arguments -> ArgumentConstraints]

-----------------------------------------------------------------------------
\* resolve_tool_policy: the rule that lets the principal go on, if there is one.
\* A policy gives each of its principals a function from tools to rules.
ResolveToolPolicy(policy, principal, tool) ==
  {policy[p][tool] : p \in {p \in DOMAIN policy \cap {principal} :
                              tool \in DOMAIN policy[p] /\ policy[p][tool].effect = "allow"}}

\* validate_input_schema: no schema passes; one that is invalid, or that cannot
\* be evaluated, refuses.
ConformsToSchema(schema, conforms) == schema = "absent" \/ (schema = "usable" /\ conforms)

\* A mutant of StrictEqual: == alone.
StrictEqualLoosely(a, b) == PyEqual(a, b)

StrictEqual(a, b) == a.type = b.type /\ PyEqual(a, b)

StrictIn(v, candidates) == \E w \in candidates : StrictEqual(v, w)

IsNumber(v) == v.type \in {"int", "float"}

-----------------------------------------------------------------------------
\* A mutant of CheckConstraint: the operators are alternatives.
CheckConstraintAny(v, c) ==
  \/ c = Unconstrained
  \/ \E w \in c.equals : StrictEqual(v, w)
  \/ \E candidates \in c.in : StrictIn(v, candidates)
  \/ \E n \in c.min : IsNumber(v) /\ v.num >= n
  \/ \E n \in c.max : IsNumber(v) /\ v.num <= n

\* Another: an operator is skipped for the types it does not speak of.
CheckConstraintOfType(v, c) ==
  /\ \A w \in c.equals : StrictEqual(v, w)
  /\ \A candidates \in c.in : StrictIn(v, candidates)
  /\ IsNumber(v) => (\A n \in c.min : v.num >= n) /\ (\A n \in c.max : v.num <= n)
  /\ v.type = "str" => /\ \A n \in c.min_length : v.num >= n
                       /\ \A n \in c.max_length : v.num <= n
                       /\ \A matches \in c.pattern : v.num \in matches
  /\ v.type = "list" => /\ \A n \in c.min_items : Len(v.parts) >= n
                        /\ \A n \in c.max_items : Len(v.parts) <= n

\* _check_constraint: whether it returns None.
CheckConstraint(v, c) ==
  /\ \A w \in c.equals : StrictEqual(v, w)
  /\ \A candidates \in c.in : StrictIn(v, candidates)
  /\ \A n \in c.min : IsNumber(v) /\ v.num >= n
  /\ \A n \in c.max : IsNumber(v) /\ v.num <= n
  /\ \A n \in c.min_length : v.type = "str" /\ v.num >= n
  /\ \A n \in c.max_length : v.type = "str" /\ v.num <= n
  /\ \A n \in c.min_items : v.type = "list" /\ Len(v.parts) >= n
  /\ \A n \in c.max_items : v.type = "list" /\ Len(v.parts) <= n
  /\ \A matches \in c.pattern : v.type = "str" /\ v.num \in matches

\* A mutant of ResolvePath: a path that ends early resolves to null.
ResolvePathToNull(v, path) ==
  LET current[i \in 0..Len(path)] ==
        IF i = 0 THEN {v}
        ELSE {IF path[i] \in Names(w) THEN w.parts[path[i]] ELSE Null : w \in current[i - 1]}
  IN  current[Len(path)]

\* _resolve_path: the value at the end of the path, or none if a segment is
\* missing or what it is looked up in is no dict.
ResolvePath(v, path) ==
  LET current[i \in 0..Len(path)] ==
        IF i = 0 THEN {v}
        ELSE {w.parts[path[i]] : w \in {w \in current[i - 1] : path[i] \in Names(w)}}
  IN  current[Len(path)]

\* A mutant of KnownTopLevelFields: a nested path makes every field known.
KnownEverywhere(rule) ==
  rule.required \cup rule.forbidden \cup UNION {{path[i] : i \in DOMAIN path} : path \in DOMAIN rule.arguments}

KnownTopLevelFields(rule) ==
  rule.required \cup rule.forbidden \cup {Head(path) : path \in DOMAIN rule.arguments}

\* evaluate_argument_policy: the first check the arguments fail, or "none".
EvaluateArgumentPolicy(rule, arguments) ==
  LET present == Names(arguments)
      unknown == present \ KnownTopLevelFields(rule)
      Satisfied(path) ==
        \A v \in ResolvePath(arguments, path) : CheckConstraint(v, rule.arguments[path])
  IN  IF ~(rule.required \subseteq present) THEN "missing"
      ELSE IF rule.forbidden \cap present # {} THEN "forbidden"
      ELSE IF rule.deny_unknown_arguments /\ unknown # {} THEN "unknown"
      ELSE IF \E path \in DOMAIN rule.arguments : ~Satisfied(path) THEN "constraint"
      ELSE "none"
=============================================================================
