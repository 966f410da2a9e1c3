--------------------------- MODULE MCRequestData ---------------------------
(* Small policies and arguments for RequestData. *)
EXTENDS RequestData, FiniteSets

CONSTANTS alice, bob, query, other, limit, options, password

\* TLC compares records by the field names it has met first: the type comes before
\* the parts, for it cannot compare the parts of a list with those of a dict.
One(name, v) == [type |-> "dict", num |-> 0, parts |-> [n \in {name} |-> v]]

Constraints ==
  {[Unconstrained EXCEPT !.equals = {IntOf(1)}],
   [Unconstrained EXCEPT !.equals = {Null}],
   [Unconstrained EXCEPT !.equals = {ListOf(<<IntOf(1)>>)}],
   [Unconstrained EXCEPT !.in = {{IntOf(2), StrOf(1), BoolOf(FALSE)}}],
   [Unconstrained EXCEPT !.in = {{}}],
   [Unconstrained EXCEPT !.min = {1}, !.max = {2}],
   [Unconstrained EXCEPT !.min = {2}],
   [Unconstrained EXCEPT !.min_length = {1}, !.max_length = {2}],
   [Unconstrained EXCEPT !.min_items = {1}, !.max_items = {1}],
   [Unconstrained EXCEPT !.pattern = {{0, 2}}]}

\* A constraint on one argument, or on a value nested in another, or on both.
Constraining ==
  {[path \in {<<limit>>} |-> c] : c \in Constraints}
  \cup {[path \in {<<options, limit>>} |-> c] : c \in Constraints}
  \cup {[path \in {<<limit>>, <<options, limit>>} |-> c] : c \in Constraints}
  \cup {[path \in {} |-> Unconstrained]}

Rules ==
  {ToolRule("deny")} \cup
  {[ToolRule("allow") EXCEPT !.required = r, !.forbidden = f, !.arguments = a,
                             !.deny_unknown_arguments = d] :
     r \in {{}, {limit}}, f \in {{}, {password}}, a \in Constraining, d \in BOOLEAN}

OneRule == {[p \in {alice} |-> [t \in {query} |-> rule]] : rule \in Rules}

Scalars == {Null, IntOf(1), IntOf(2), FloatOf(1), BoolOf(TRUE), BoolOf(FALSE), StrOf(0), StrOf(1), StrOf(2)}
Lists == {ListOf(<<>>), ListOf(<<IntOf(1)>>), ListOf(<<BoolOf(TRUE)>>), ListOf(<<StrOf(1), Null>>)}

\* Arguments for the constraints, and arguments with something to hide.
Arguments ==
  {DictOf(NoParts)}
  \cup {One(limit, v) : v \in Scalars \cup Lists}
  \cup {One(options, One(limit, v)) : v \in Scalars \cup Lists}
  \cup {With(One(limit, IntOf(1)), options, v) : v \in {IntOf(1), One(limit, StrOf(1)), One(password, IntOf(1))}}
  \cup {One(password, StrOf(1)),
        One(options, ListOf(<<One(password, StrOf(2)), One(limit, StrOf(2))>>)),
        One(options, One(password, ListOf(<<One(limit, StrOf(1))>>)))}

\* The values with all their parts, and how deep each nests.
RECURSIVE PartsOf(_), Levels(_)
PartsOf(v) == {v} \cup UNION {PartsOf(v.parts[s]) : s \in DOMAIN v.parts}
Levels(v) ==
  IF DOMAIN v.parts = {} THEN 0
  ELSE CHOOSE k \in 1..MaxDepth :
         /\ \A s \in DOMAIN v.parts : Levels(v.parts[s]) < k
         /\ \E s \in DOMAIN v.parts : Levels(v.parts[s]) = k - 1

AllValues ==
  UNION {PartsOf(v) : v \in Arguments \cup UNION {c.equals \cup UNION c.in : c \in Constraints}}
DepthOfAll == [v \in AllValues |-> Levels(v)]
=============================================================================
