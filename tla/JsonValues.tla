----------------------------- MODULE JsonValues -----------------------------
(***************************************************************************)
(* JSON values as Python holds them, and Python's ==.  Every value is a    *)
(* record of one shape:                                                    *)
(*                                                                         *)
(*   type    the Python type                                               *)
(*   num     a number's value (True is 1); a string's length, a string     *)
(*           being one letter repeated; 0 in every other type              *)
(*   parts   a list's items by position, a dict's values by name           *)
(*                                                                         *)
(* Values is the set of those that calls and policies hold.  They nest, so *)
(* what the code does by recursion is a recursive function on it.          *)
(***************************************************************************)
EXTENDS Integers, Sequences

CONSTANTS
  Fields,                   \* the names in dicts
  Values,                   \* every value with all its parts
  Depth,                    \* how deep each of them nests
  MaxDepth                  \* bound: the parser's recursion limit

NoParts == <<>>

Scalar(type, num) == [type |-> type, num |-> num, parts |-> NoParts]

Null == Scalar("null", 0)
IntOf(n) == Scalar("int", n)
FloatOf(n) == Scalar("float", n)
BoolOf(b) == Scalar("bool", IF b THEN 1 ELSE 0)
StrOf(length) == Scalar("str", length)
ListOf(items) == [type |-> "list", num |-> 0, parts |-> items]
DictOf(fields) == [type |-> "dict", num |-> 0, parts |-> fields]

ASSUME ValuesAssumption ==
  /\ MaxDepth \in Nat /\ Depth \in [Values -> 0..MaxDepth]
  /\ Fields \cap Int = {}
  /\ \A v \in Values :
       /\ v = [type |-> v.type, num |-> v.num, parts |-> v.parts]
       /\ v.num \in Int
       /\ v.parts \in [DOMAIN v.parts -> Values]
       /\ \A s \in DOMAIN v.parts : Depth[v.parts[s]] < Depth[v]
       /\ \/ v.type \in {"null", "int", "float", "bool", "str"} /\ v.parts = NoParts
          \/ v.type = "list" /\ v.num = 0 /\ v.parts \in Seq(Values)
          \/ v.type = "dict" /\ v.num = 0 /\ DOMAIN v.parts \subseteq Fields

Names(v) == IF v.type = "dict" THEN DOMAIN v.parts ELSE {}
IsContainer(v) == v.type \in {"list", "dict"}

\* Dict v without the field n, or with it set to w.
Without(v, n) == [v EXCEPT !.parts = [m \in Names(v) \ {n} |-> v.parts[m]]]
With(v, n, w) == [v EXCEPT !.parts = [m \in Names(v) \cup {n} |-> IF m = n THEN w ELSE v.parts[m]]]

\* Python's ==: across the numeric types, bool among them, and so inside lists
\* and dicts.
PyEqual(a, b) ==
  LET equal[v \in Values] ==
        [w \in Values |->
           /\ v.type = w.type \/ {v.type, w.type} \subseteq {"int", "float", "bool"}
           /\ v.num = w.num
           /\ DOMAIN v.parts = DOMAIN w.parts
           /\ \A s \in DOMAIN v.parts : equal[v.parts[s]][w.parts[s]]]
  IN  equal[a][b]

\* What is k steps below v, each with the names and positions that lead to it.
NodesAt(v) ==
  LET at[k \in 0..MaxDepth] ==
        IF k = 0 THEN {[path |-> <<>>, value |-> v]}
        ELSE UNION {{[path |-> Append(l.path, s), value |-> l.value.parts[s]] :
                       s \in DOMAIN l.value.parts} : l \in at[k - 1]}
  IN  at

\* The ends of v.
Leaves(v) == {l \in UNION {NodesAt(v)[k] : k \in 0..MaxDepth} : DOMAIN l.value.parts = {}}
=============================================================================
