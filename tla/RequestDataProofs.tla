------------------------- MODULE RequestDataProofs -------------------------
(***************************************************************************)
(* Proofs about RequestData, for every set of JSON values of bounded       *)
(* depth and every policy.                                                 *)
(*                                                                         *)
(* The operators are recursive functions, so each of them first needs to   *)
(* be shown to satisfy the equation that defines it (the lemmas ...Unfolds *)
(* and ...Steps): a function that satisfies it on the values of depth less *)
(* than n gives one for n + 1.  What a recursion computes is then shown by *)
(* induction over the natural numbers, which the lemma NumbersInduct takes *)
(* from the well-foundedness of < on them.                                 *)
(***************************************************************************)
EXTENDS RequestData, WellFoundedInduction, TLAPS

-----------------------------------------------------------------------------
\* < on the natural numbers, as a set of pairs.
Below == {ss \in Nat \X Nat : ss[1] < ss[2]}

\* It is well-founded.
LEMMA BelowIsWellFounded == IsWellFoundedOn(Below, Nat)
BY NatLessThanWellFounded, Zenon DEF OpToRel, Below

\* A set of natural numbers that is not empty has a least element.
LEMMA LeastNumber ==
  ASSUME NEW T, T \subseteq Nat, T # {}
  PROVE  \E x \in T : \A y \in T : x <= y
<1>1. PICK x \in T : \A y \in T : ~ (<<y, x>> \in Below)
  BY BelowIsWellFounded, WFMin
<1>2. ASSUME NEW y \in T PROVE x <= y
  <2>1. x \in Nat /\ y \in Nat
    OBVIOUS
  <2>2. ~(y < x)
    BY <1>1, <2>1 DEF Below
  <2> QED BY <2>1, <2>2
<1> QED BY <1>2

\* Induction, with the set of the numbers that have the property.
LEMMA NumbersInduct ==
  ASSUME NEW T, 0 \in T, \A n \in T \cap Nat : n + 1 \in T
  PROVE  Nat \subseteq T
<1> SUFFICES ASSUME Nat \ T # {} PROVE FALSE
  OBVIOUS
<1>1. PICK x \in Nat \ T : \A y \in Nat \ T : x <= y
  BY LeastNumber
<1>2. x # 0 /\ x - 1 \in Nat /\ ~(x <= x - 1)
  BY <1>1
<1>3. x - 1 \in T
  BY <1>1, <1>2
<1>4. (x - 1) + 1 = x
  BY <1>2
<1> QED BY <1>1, <1>2, <1>3, <1>4

-----------------------------------------------------------------------------
\* The values that nest less than n deep.
Shallow(n) == {v \in Values : Depth[v] < n}

\* No value is shallower than 0, every one is shallower than MaxDepth + 1, and what
\* is part of a value that is shallower than n + 1 is shallower than n.
LEMMA ShallowValues ==
  /\ Shallow(0) = {}
  /\ Shallow(MaxDepth + 1) = Values /\ MaxDepth + 1 \in Nat
  /\ \A n \in Nat :
       /\ Shallow(n) \subseteq Shallow(n + 1)
       /\ \A v \in Shallow(n + 1) : \A s \in DOMAIN v.parts : v.parts[s] \in Shallow(n)
BY ValuesAssumption DEF Shallow

\* The parts of a value are values.
LEMMA PartsAreValues ==
  ASSUME NEW v \in Values, NEW s \in DOMAIN v.parts
  PROVE  v.parts[s] \in Values
BY ValuesAssumption

\* A value is its type, its number and its parts.
LEMMA ValueShape ==
  ASSUME NEW v \in Values
  PROVE  /\ v = [type |-> v.type, num |-> v.num, parts |-> v.parts]
         /\ v.parts = [s \in DOMAIN v.parts |-> v.parts[s]]
         /\ ~IsContainer(v) => v.parts = NoParts
         /\ DOMAIN v.parts = {} => v.parts = NoParts
<1>1. /\ v = [type |-> v.type, num |-> v.num, parts |-> v.parts]
      /\ v.parts \in [DOMAIN v.parts -> Values]
      /\ ~IsContainer(v) => v.parts = NoParts
  BY ValuesAssumption DEF IsContainer
<1>2. DOMAIN v.parts = {} => v.parts = NoParts
  BY <1>1 DEF NoParts
<1> QED BY <1>1, <1>2

\* A value with other parts.
LEMMA PartsReplaced ==
  ASSUME NEW v \in Values, NEW other
  PROVE  /\ [v EXCEPT !.parts = other].type = v.type
         /\ [v EXCEPT !.parts = other].num = v.num
         /\ [v EXCEPT !.parts = other].parts = other
<1>1. PICK t, k, p : v = [type |-> t, num |-> k, parts |-> p]
  BY ValueShape
<1> QED BY <1>1

\* Redact satisfies the equation that defines it.
LEMMA RedactUnfolds ==
  ASSUME NEW v \in Values
  PROVE  Redact(v) =
           [v EXCEPT !.parts = [s \in DOMAIN v.parts |-> IF s \in Sensitive THEN Redacted
                                                         ELSE Redact(v.parts[s])]]
<1> DEFINE Level(f, w) ==
             [w EXCEPT !.parts = [s \in DOMAIN w.parts |-> IF s \in Sensitive THEN Redacted
                                                           ELSE f[w.parts[s]]]]
           Works(f, D) == f = [w \in D |-> Level(f, w)]
           T == {n \in Nat : \E f : Works(f, Shallow(n))}
<1>1. 0 \in T
  <2>1. \E f : f = [w \in {} |-> w]
    OBVIOUS
  <2>2. \E f : Works(f, {})
    BY <2>1
  <2> QED BY <2>2, ShallowValues
<1>2. ASSUME NEW n \in T PROVE n + 1 \in T
  <2>1. n \in Nat
    OBVIOUS
  <2>2. PICK f : Works(f, Shallow(n))
    OBVIOUS
  <2> DEFINE g == [w \in Shallow(n + 1) |-> Level(f, w)]
  <2>3. \A w \in Shallow(n) : g[w] = f[w]
    BY <2>1, <2>2, ShallowValues
  <2>4. ASSUME NEW w \in Shallow(n + 1) PROVE Level(f, w) = Level(g, w)
    BY <2>1, <2>3, ShallowValues
  <2>5. Works(g, Shallow(n + 1))
    BY <2>4
  <2>6. \E h : Works(h, Shallow(n + 1))
    BY <2>5
  <2> HIDE DEF Works
  <2> QED BY <2>1, <2>6
<1>3. MaxDepth + 1 \in T
  BY <1>1, <1>2, NumbersInduct, ShallowValues
<1>4. \E f : Works(f, Values)
  BY <1>3, ShallowValues
<1> DEFINE redact == CHOOSE f : Works(f, Values)
<1>5. Works(redact, Values)
  BY <1>4
<1>6. \A w : Redact(w) = redact[w]
  BY DEF Redact
<1> HIDE DEF redact
<1>7. Redact(v) = Level(redact, v)
  BY <1>5, <1>6
<1>8. [s \in DOMAIN v.parts |-> IF s \in Sensitive THEN Redacted ELSE Redact(v.parts[s])]
        = [s \in DOMAIN v.parts |-> IF s \in Sensitive THEN Redacted ELSE redact[v.parts[s]]]
  BY <1>6
<1> QED BY <1>7, <1>8

\* KeysOnly satisfies the equation that defines it.
LEMMA KeysOnlyUnfolds ==
  ASSUME NEW v \in Values
  PROVE  KeysOnly(v) =
           CASE v.type = "dict" -> DictOf([n \in Names(v) |-> KeysOnly(v.parts[n])])
             [] v.type = "list" -> ListOf([i \in DOMAIN v.parts |-> AnItem])
             [] OTHER -> AValue
<1> DEFINE Level(f, w) ==
             CASE w.type = "dict" -> DictOf([n \in Names(w) |-> f[w.parts[n]]])
               [] w.type = "list" -> ListOf([i \in DOMAIN w.parts |-> AnItem])
               [] OTHER -> AValue
           Works(f, D) == f = [w \in D |-> Level(f, w)]
           T == {n \in Nat : \E f : Works(f, Shallow(n))}
<1>0. \A w : \A n \in Names(w) : n \in DOMAIN w.parts
  BY DEF Names
<1>1. 0 \in T
  <2>1. \E f : f = [w \in {} |-> w]
    OBVIOUS
  <2>2. \E f : Works(f, {})
    BY <2>1
  <2> QED BY <2>2, ShallowValues
<1>2. ASSUME NEW n \in T PROVE n + 1 \in T
  <2>1. n \in Nat
    OBVIOUS
  <2>2. PICK f : Works(f, Shallow(n))
    OBVIOUS
  <2> DEFINE g == [w \in Shallow(n + 1) |-> Level(f, w)]
  <2>3. \A w \in Shallow(n) : g[w] = f[w]
    BY <2>1, <2>2, ShallowValues
  <2>4. ASSUME NEW w \in Shallow(n + 1) PROVE Level(f, w) = Level(g, w)
    <3>1. [m \in Names(w) |-> f[w.parts[m]]] = [m \in Names(w) |-> g[w.parts[m]]]
      BY <1>0, <2>1, <2>3, ShallowValues
    <3> QED BY <3>1
  <2>5. Works(g, Shallow(n + 1))
    BY <2>4
  <2>6. \E h : Works(h, Shallow(n + 1))
    BY <2>5
  <2> HIDE DEF Works
  <2> QED BY <2>1, <2>6
<1>3. MaxDepth + 1 \in T
  BY <1>1, <1>2, NumbersInduct, ShallowValues
<1>4. \E f : Works(f, Values)
  BY <1>3, ShallowValues
<1> DEFINE keys == CHOOSE f : Works(f, Values)
<1>5. Works(keys, Values)
  BY <1>4
<1>6. \A w : KeysOnly(w) = keys[w]
  BY DEF KeysOnly
<1> HIDE DEF keys
<1>7. KeysOnly(v) = Level(keys, v)
  BY <1>5, <1>6
<1>8. [n \in Names(v) |-> KeysOnly(v.parts[n])] = [n \in Names(v) |-> keys[v.parts[n]]]
  BY <1>6
<1> QED BY <1>7, <1>8

\* PyEqual satisfies the equation that defines it.
LEMMA PyEqualUnfolds ==
  ASSUME NEW a \in Values, NEW b \in Values
  PROVE  PyEqual(a, b) <=>
           /\ a.type = b.type \/ {a.type, b.type} \subseteq {"int", "float", "bool"}
           /\ a.num = b.num
           /\ DOMAIN a.parts = DOMAIN b.parts
           /\ \A s \in DOMAIN a.parts : PyEqual(a.parts[s], b.parts[s])
<1> DEFINE Agree(f, v, w) ==
             /\ v.type = w.type \/ {v.type, w.type} \subseteq {"int", "float", "bool"}
             /\ v.num = w.num
             /\ DOMAIN v.parts = DOMAIN w.parts
             /\ \A s \in DOMAIN v.parts : f[v.parts[s]][w.parts[s]]
           Level(f, v) == [w \in Values |-> Agree(f, v, w)]
           Works(f, D) == f = [v \in D |-> Level(f, v)]
           T == {n \in Nat : \E f : Works(f, Shallow(n))}
<1>1. 0 \in T
  <2>1. \E f : f = [w \in {} |-> w]
    OBVIOUS
  <2>2. \E f : Works(f, {})
    BY <2>1
  <2> QED BY <2>2, ShallowValues
<1>2. ASSUME NEW n \in T PROVE n + 1 \in T
  <2>1. n \in Nat
    OBVIOUS
  <2>2. PICK f : Works(f, Shallow(n))
    OBVIOUS
  <2> DEFINE g == [v \in Shallow(n + 1) |-> Level(f, v)]
  <2>3. \A v \in Shallow(n) : g[v] = f[v]
    BY <2>1, <2>2, ShallowValues
  <2>4. ASSUME NEW v \in Shallow(n + 1) PROVE Level(f, v) = Level(g, v)
    <3>1. \A s \in DOMAIN v.parts : g[v.parts[s]] = f[v.parts[s]]
      BY <2>1, <2>3, ShallowValues
    <3> HIDE DEF g
    <3>2. \A w \in Values : Agree(f, v, w) = Agree(g, v, w)
      BY <3>1
    <3> HIDE DEF Agree
    <3> QED BY <3>2
  <2>5. Works(g, Shallow(n + 1))
    BY <2>4
  <2>6. \E h : Works(h, Shallow(n + 1))
    BY <2>5
  <2> HIDE DEF Works
  <2> QED BY <2>1, <2>6
<1>3. MaxDepth + 1 \in T
  BY <1>1, <1>2, NumbersInduct, ShallowValues
<1>4. \E f : Works(f, Values)
  BY <1>3, ShallowValues
<1> DEFINE equal == CHOOSE f : Works(f, Values)
<1>5. Works(equal, Values)
  BY <1>4
<1>6. \A v, w : PyEqual(v, w) = equal[v][w]
  BY DEF PyEqual
<1> HIDE DEF equal
<1>7. PyEqual(a, b) = Agree(equal, a, b)
  <2>1. equal[a] = Level(equal, a)
    BY <1>5
  <2> HIDE DEF Agree
  <2>2. Level(equal, a)[b] = Agree(equal, a, b)
    OBVIOUS
  <2> QED BY <1>6, <2>1, <2>2
<1> QED BY <1>6, <1>7

-----------------------------------------------------------------------------
\* ResolvePath walks down the path, one segment at a time.
Walk(v, path, current) ==
  current = [i \in 0..Len(path) |->
               IF i = 0 THEN {v}
               ELSE {w.parts[path[i]] : w \in {w \in current[i - 1] : path[i] \in Names(w)}}]

LEMMA ResolvePathSteps ==
  ASSUME NEW v, NEW path, Len(path) \in Nat
  PROVE  \E current : Walk(v, path, current) /\ ResolvePath(v, path) = current[Len(path)]
<1> DEFINE Level(f, i) ==
             IF i = 0 THEN {v} ELSE {w.parts[path[i]] : w \in {w \in f[i - 1] : path[i] \in Names(w)}}
           Works(f, n) == f = [i \in 0..n |-> Level(f, i)]
           T == {n \in Nat : \E f : Works(f, n)}
<1>1. 0 \in T
  <2>1. PICK f : f = [i \in 0..0 |-> {v}]
    OBVIOUS
  <2>2. \A i \in 0..0 : Level(f, i) = {v}
    OBVIOUS
  <2>3. Works(f, 0)
    BY <2>1, <2>2
  <2>4. \E h : Works(h, 0)
    BY <2>3
  <2> HIDE DEF Works
  <2> QED BY <2>4
<1>2. ASSUME NEW n \in T PROVE n + 1 \in T
  <2>1. n \in Nat
    OBVIOUS
  <2>2. PICK f : Works(f, n)
    OBVIOUS
  <2> DEFINE g == [i \in 0..(n + 1) |-> Level(f, i)]
  <2>3. ASSUME NEW i \in 0..n PROVE g[i] = f[i]
    <3>1. i \in 0..(n + 1)
      BY <2>1
    <3> HIDE DEF Level
    <3> QED BY <2>2, <3>1
  <2>4. ASSUME NEW i \in 0..(n + 1) PROVE Level(f, i) = Level(g, i)
    <3>1. i = 0 \/ i - 1 \in 0..n
      BY <2>1
    <3> QED BY <2>3, <3>1
  <2>5. Works(g, n + 1)
    BY <2>4
  <2>6. \E h : Works(h, n + 1)
    BY <2>5
  <2> HIDE DEF Works
  <2> QED BY <2>1, <2>6
<1>3. Len(path) \in T
  BY <1>1, <1>2, NumbersInduct
<1>4. \E f : Works(f, Len(path))
  BY <1>3
<1> DEFINE current == CHOOSE f : Works(f, Len(path))
<1>5. Works(current, Len(path))
  BY <1>4
<1>6. ResolvePath(v, path) = current[Len(path)]
  BY DEF ResolvePath
<1> QED BY <1>5, <1>6 DEF Walk

\* NodesAt goes down from v, one level at a time.
Descent(v, at) ==
  at = [k \in 0..MaxDepth |->
          IF k = 0 THEN {[path |-> <<>>, value |-> v]}
          ELSE UNION {{[path |-> Append(l.path, s), value |-> l.value.parts[s]] :
                         s \in DOMAIN l.value.parts} : l \in at[k - 1]}]

LEMMA NodesAtSteps ==
  ASSUME NEW v
  PROVE  Descent(v, NodesAt(v))
<1> DEFINE Level(f, k) ==
             IF k = 0 THEN {[path |-> <<>>, value |-> v]}
             ELSE UNION {{[path |-> Append(l.path, s), value |-> l.value.parts[s]] :
                            s \in DOMAIN l.value.parts} : l \in f[k - 1]}
           Works(f, n) == f = [k \in 0..n |-> Level(f, k)]
           T == {n \in Nat : \E f : Works(f, n)}
<1>1. 0 \in T
  <2>1. PICK f : f = [k \in 0..0 |-> {[path |-> <<>>, value |-> v]}]
    OBVIOUS
  <2>2. \A k \in 0..0 : Level(f, k) = {[path |-> <<>>, value |-> v]}
    OBVIOUS
  <2>3. Works(f, 0)
    BY <2>1, <2>2
  <2>4. \E h : Works(h, 0)
    BY <2>3
  <2> HIDE DEF Works
  <2> QED BY <2>4
<1>2. ASSUME NEW n \in T PROVE n + 1 \in T
  <2>1. n \in Nat
    OBVIOUS
  <2>2. PICK f : Works(f, n)
    OBVIOUS
  <2> DEFINE g == [k \in 0..(n + 1) |-> Level(f, k)]
  <2>3. ASSUME NEW k \in 0..n PROVE g[k] = f[k]
    <3>1. k \in 0..(n + 1)
      BY <2>1
    <3> HIDE DEF Level
    <3> QED BY <2>2, <3>1
  <2>4. ASSUME NEW k \in 0..(n + 1) PROVE Level(f, k) = Level(g, k)
    <3>1. k = 0 \/ k - 1 \in 0..n
      BY <2>1
    <3> QED BY <2>3, <3>1
  <2>5. Works(g, n + 1)
    BY <2>4
  <2>6. \E h : Works(h, n + 1)
    BY <2>5
  <2> HIDE DEF Works
  <2> QED BY <2>1, <2>6
<1>3. MaxDepth \in T
  BY <1>1, <1>2, NumbersInduct, ValuesAssumption
<1>4. \E f : Works(f, MaxDepth)
  BY <1>3
<1>5. NodesAt(v) = CHOOSE f : Works(f, MaxDepth)
  BY DEF NodesAt
<1>6. Works(NodesAt(v), MaxDepth)
  BY <1>4, <1>5
<1> QED BY <1>6 DEF Descent

-----------------------------------------------------------------------------
\* Whatever a path leads to in a value is a value.
LEMMA ResolvedAreValues ==
  ASSUME NEW v \in Values, NEW path, Len(path) \in Nat
  PROVE  ResolvePath(v, path) \subseteq Values
<1>1. PICK current : Walk(v, path, current) /\ ResolvePath(v, path) = current[Len(path)]
  BY ResolvePathSteps
<1> DEFINE T == {n \in Nat : n <= Len(path) => current[n] \subseteq Values}
<1>2. 0 \in T
  BY <1>1 DEF Walk
<1>3. ASSUME NEW n \in T \cap Nat PROVE n + 1 \in T
  <2>1. CASE n + 1 <= Len(path)
    <3>1. n + 1 \in 0..Len(path) /\ n + 1 # 0 /\ (n + 1) - 1 = n /\ n <= Len(path)
      BY <2>1
    <3>2. current[n + 1] =
            {w.parts[path[n + 1]] : w \in {w \in current[n] : path[n + 1] \in Names(w)}}
      BY <1>1, <3>1 DEF Walk
    <3>3. current[n] \subseteq Values
      BY <3>1
    <3>4. current[n + 1] \subseteq Values
      BY <3>2, <3>3, PartsAreValues DEF Names
    <3> QED BY <3>4
  <2> QED BY <2>1
<1>4. Len(path) \in T
  BY <1>2, <1>3, NumbersInduct
<1> QED BY <1>1, <1>4

\* Two walks down one path: the one that has no more at one segment has no more at
\* the end.
LEMMA WalkShrinks ==
  ASSUME NEW v, NEW w, NEW path, Len(path) \in Nat, NEW c, NEW d,
         Walk(v, path, c), Walk(w, path, d),
         NEW k \in 0..Len(path), d[k] \subseteq c[k]
  PROVE  d[Len(path)] \subseteq c[Len(path)]
<1> DEFINE T == {n \in Nat : k <= n /\ n <= Len(path) => d[n] \subseteq c[n]}
<1>1. 0 \in T
  BY k \in 0..Len(path)
<1>2. ASSUME NEW n \in T \cap Nat PROVE n + 1 \in T
  <2>1. CASE k <= n /\ n + 1 <= Len(path)
    <3>1. n + 1 \in 0..Len(path) /\ n + 1 # 0 /\ (n + 1) - 1 = n /\ n <= Len(path)
      BY <2>1
    <3>2. d[n] \subseteq c[n]
      BY <2>1, <3>1
    <3>3. /\ c[n + 1] = {x.parts[path[n + 1]] : x \in {x \in c[n] : path[n + 1] \in Names(x)}}
          /\ d[n + 1] = {x.parts[path[n + 1]] : x \in {x \in d[n] : path[n + 1] \in Names(x)}}
      BY <3>1 DEF Walk
    <3>4. d[n + 1] \subseteq c[n + 1]
      BY <3>2, <3>3
    <3> QED BY <3>4
  <2>2. CASE k = n + 1
    BY <2>2
  <2> QED BY <2>1, <2>2
<1>3. Len(path) \in T
  BY <1>1, <1>2, NumbersInduct
<1> QED BY <1>3

\* What the first segment of a path leads to.
LEMMA FirstSegment ==
  ASSUME NEW v, NEW path \in Seq(Fields), path # <<>>, NEW c, Walk(v, path, c)
  PROVE  /\ Len(path) \in Nat /\ 1 \in 0..Len(path)
         /\ c[1] = IF path[1] \in Names(v) THEN {v.parts[path[1]]} ELSE {}
<1>1. Len(path) \in Nat /\ Len(path) # 0
  OBVIOUS
<1>2. 1 \in 0..Len(path) /\ 0 \in 0..Len(path)
  BY <1>1
<1>3. c[0] = {v} /\ c[1] = {x.parts[path[1]] : x \in {x \in c[0] : path[1] \in Names(x)}}
  BY <1>2 DEF Walk
<1> QED BY <1>1, <1>2, <1>3

\* A dict without a field, or with one set.
LEMMA WithoutShape ==
  ASSUME NEW v \in Values, v.type = "dict", NEW n
  PROVE  /\ Names(Without(v, n)) = Names(v) \ {n}
         /\ \A m \in Names(v) \ {n} : Without(v, n).parts[m] = v.parts[m]
<1>1. /\ Without(v, n).type = "dict"
      /\ Without(v, n).parts = [m \in Names(v) \ {n} |-> v.parts[m]]
  BY PartsReplaced DEF Without
<1> QED BY <1>1 DEF Names

LEMMA WithShape ==
  ASSUME NEW v \in Values, v.type = "dict", NEW n \in Names(v), NEW w
  PROVE  /\ Names(With(v, n, w)) = Names(v)
         /\ With(v, n, w).parts[n] = w
         /\ \A m \in Names(v) \ {n} : With(v, n, w).parts[m] = v.parts[m]
<1>1. /\ With(v, n, w).type = "dict"
      /\ With(v, n, w).parts =
           [m \in Names(v) \cup {n} |-> IF m = n THEN w ELSE v.parts[m]]
  BY PartsReplaced DEF With
<1> QED BY <1>1 DEF Names

\* A path leads to nothing new in a dict without one of its fields.
LEMMA OmittingResolvesLess ==
  ASSUME NEW v \in Values, v.type = "dict", NEW n, NEW path \in Seq(Fields), path # <<>>
  PROVE  ResolvePath(Without(v, n), path) \subseteq ResolvePath(v, path)
<1> DEFINE w == Without(v, n)
<1>1. Len(path) \in Nat
  OBVIOUS
<1>2. PICK c : Walk(v, path, c) /\ ResolvePath(v, path) = c[Len(path)]
  BY <1>1, ResolvePathSteps
<1>3. PICK d : Walk(w, path, d) /\ ResolvePath(w, path) = d[Len(path)]
  BY <1>1, ResolvePathSteps
<1>4. /\ c[1] = IF path[1] \in Names(v) THEN {v.parts[path[1]]} ELSE {}
      /\ d[1] = IF path[1] \in Names(w) THEN {w.parts[path[1]]} ELSE {}
      /\ 1 \in 0..Len(path)
  BY <1>2, <1>3, FirstSegment
<1>5. d[1] \subseteq c[1]
  BY <1>4, WithoutShape
<1> HIDE DEF w
<1>6. d[Len(path)] \subseteq c[Len(path)]
  BY <1>1, <1>2, <1>3, <1>4, <1>5, WalkShrinks
<1> QED BY <1>2, <1>3, <1>6 DEF w

\* Nor in one without a field nested in one of its fields, unless the path ends at
\* the latter.
LEMMA NestedOmittingResolvesLess ==
  ASSUME NEW v \in Values, v.type = "dict", NEW n \in Names(v), NEW m \in Names(v.parts[n]),
         NEW path \in Seq(Fields), path # <<>>, path # <<n>>
  PROVE  ResolvePath(With(v, n, Without(v.parts[n], m)), path) \subseteq ResolvePath(v, path)
<1> DEFINE x == v.parts[n]
           y == Without(x, m)
           w == With(v, n, y)
<1>0. Len(path) \in Nat /\ x \in Values /\ x.type = "dict"
  BY PartsAreValues DEF Names
<1>1. /\ Names(w) = Names(v) /\ w.parts[n] = y
      /\ \A k \in Names(v) \ {n} : w.parts[k] = v.parts[k]
  BY WithShape
<1>2. /\ Names(y) = Names(x) \ {m}
      /\ \A k \in Names(x) \ {m} : y.parts[k] = x.parts[k]
  BY <1>0, WithoutShape
<1> HIDE DEF w, y
<1>3. PICK c : Walk(v, path, c) /\ ResolvePath(v, path) = c[Len(path)]
  BY <1>0, ResolvePathSteps
<1>4. PICK d : Walk(w, path, d) /\ ResolvePath(w, path) = d[Len(path)]
  BY <1>0, ResolvePathSteps
<1>5. /\ c[1] = IF path[1] \in Names(v) THEN {v.parts[path[1]]} ELSE {}
      /\ d[1] = IF path[1] \in Names(w) THEN {w.parts[path[1]]} ELSE {}
  BY <1>3, <1>4, FirstSegment
<1>8. 1 \in 0..Len(path)
  BY <1>3, FirstSegment
<1>6. CASE path[1] # n
  <2>1. d[1] \subseteq c[1]
    BY <1>1, <1>5, <1>6
  <2>2. d[Len(path)] \subseteq c[Len(path)]
    BY <1>0, <1>3, <1>4, <1>8, <2>1, WalkShrinks
  <2> QED BY <1>3, <1>4, <2>2 DEF w, y
<1>7. CASE path[1] = n
  <2>1. c[1] = {x} /\ d[1] = {y}
    BY <1>1, <1>5, <1>7
  <2>2. Len(path) # 1
    <3> SUFFICES ASSUME Len(path) = 1 PROVE FALSE
      OBVIOUS
    <3>1. path = <<path[1]>>
      OBVIOUS
    <3> QED BY <1>7, <3>1
  <2>3. 2 \in 0..Len(path)
    <3>1. \A length \in Nat : 1 \in 0..length /\ length # 1 => 2 \in 0..length
      OBVIOUS
    <3> QED BY <1>0, <1>8, <2>2, <3>1
  <2>4. /\ c[2] = {z.parts[path[2]] : z \in {z \in c[1] : path[2] \in Names(z)}}
        /\ d[2] = {z.parts[path[2]] : z \in {z \in d[1] : path[2] \in Names(z)}}
    <3>1. 2 # 0 /\ 2 - 1 = 1
      OBVIOUS
    <3> QED BY <1>3, <1>4, <2>3, <3>1 DEF Walk
  <2>5. d[2] \subseteq c[2]
    BY <1>2, <2>1, <2>4
  <2>6. d[Len(path)] \subseteq c[Len(path)]
    BY <1>0, <1>3, <1>4, <2>3, <2>5, WalkShrinks
  <2> QED BY <1>3, <1>4, <2>6 DEF w, y
<1> QED BY <1>6, <1>7

-----------------------------------------------------------------------------
\* What a rule admits, check by check.
LEMMA AdmitsShape ==
  ASSUME NEW rule, NEW arguments
  PROVE  Admits(rule, arguments) <=>
           /\ rule.required \subseteq Names(arguments)
           /\ rule.forbidden \cap Names(arguments) = {}
           /\ ~(rule.deny_unknown_arguments /\ Names(arguments) \ KnownTopLevelFields(rule) # {})
           /\ \A path \in DOMAIN rule.arguments : \A v \in ResolvePath(arguments, path) :
                CheckConstraint(v, rule.arguments[path])
BY DEF Admits, EvaluateArgumentPolicy

\* A constraint with more operators is satisfied by no more values.
LEMMA MoreOperatorsAdmitLess ==
  ASSUME NEW c \in ArgumentConstraints, NEW d \in ArgumentConstraints, NEW v,
         CheckConstraint(v, [operator \in DOMAIN c |-> c[operator] \cup d[operator]])
  PROVE  CheckConstraint(v, c)
<1> DEFINE both == [operator \in DOMAIN c |-> c[operator] \cup d[operator]]
<1>1. DOMAIN c = {"equals", "in", "min", "max", "min_length", "max_length", "min_items",
                  "max_items", "pattern"}
  BY DEF ArgumentConstraints
<1>2. /\ c.equals \subseteq both.equals /\ c.in \subseteq both.in
      /\ c.min \subseteq both.min /\ c.max \subseteq both.max
      /\ c.min_length \subseteq both.min_length /\ c.max_length \subseteq both.max_length
      /\ c.min_items \subseteq both.min_items /\ c.max_items \subseteq both.max_items
      /\ c.pattern \subseteq both.pattern
  BY <1>1
<1>3. CheckConstraint(v, both)
  OBVIOUS
<1> HIDE DEF both
<1> QED BY <1>2, <1>3 DEF CheckConstraint

\* The constraints of the policies are constraints.
LEMMA ConstraintsTyped == SomeConstraints \subseteq ArgumentConstraints
BY DataAssumption DEF SomeConstraints, SomeRules, IsToolRule

\* A rule that is tightened admits no more.
LEMMA TighterAdmitsLess ==
  ASSUME NEW rule, IsToolRule(rule), NEW tighter \in Tightened(rule), NEW arguments,
         Admits(tighter, arguments)
  PROVE  Admits(rule, arguments)
<1> DEFINE known == KnownTopLevelFields(rule)
<1>1. PICK e, r, f, u, a : rule = [effect |-> e, required |-> r, forbidden |-> f,
                                   deny_unknown_arguments |-> u, arguments |-> a]
  BY DEF IsToolRule
<1>2. u \in BOOLEAN /\ a \in [DOMAIN a -> ArgumentConstraints]
  BY <1>1 DEF IsToolRule
<1>3. known = r \cup f \cup {Head(path) : path \in DOMAIN a}
  BY <1>1 DEF KnownTopLevelFields
<1>4. Admits(rule, arguments) <=>
        /\ r \subseteq Names(arguments) /\ f \cap Names(arguments) = {}
        /\ ~(u /\ Names(arguments) \ known # {})
        /\ \A path \in DOMAIN a : \A v \in ResolvePath(arguments, path) : CheckConstraint(v, a[path])
  BY <1>1, <1>2, AdmitsShape
<1>5. ASSUME NEW path, Head(path) \in known, NEW c \in SomeConstraints,
             tighter = Constrained(rule, path, c)
      PROVE  Admits(rule, arguments)
  <2> DEFINE old == IF path \in DOMAIN a THEN a[path] ELSE Unconstrained
             both == [operator \in DOMAIN c |-> old[operator] \cup c[operator]]
             b == [q \in DOMAIN a \cup {path} |-> IF q = path THEN both ELSE a[q]]
  <2>1. tighter = [rule EXCEPT !.arguments = b]
    BY <1>1, <1>5 DEF Constrained
  <2>2. /\ tighter.required = r /\ tighter.forbidden = f
        /\ tighter.deny_unknown_arguments = u /\ tighter.arguments = b
    <3> HIDE DEF b
    <3> QED BY <1>1, <2>1
  <2>3. DOMAIN b = DOMAIN a \cup {path} /\ b[path] = both /\ \A q \in DOMAIN a : q # path => b[q] = a[q]
    OBVIOUS
  <2>4. path \in DOMAIN a => \A v : CheckConstraint(v, both) => CheckConstraint(v, a[path])
    <3> SUFFICES ASSUME path \in DOMAIN a, NEW v, CheckConstraint(v, both)
                 PROVE  CheckConstraint(v, a[path])
      OBVIOUS
    <3>1. a[path] \in ArgumentConstraints /\ c \in ArgumentConstraints
      BY <1>2, ConstraintsTyped
    <3>2. DOMAIN c = DOMAIN a[path]
      BY <3>1 DEF ArgumentConstraints
    <3>3. both = [operator \in DOMAIN a[path] |-> a[path][operator] \cup c[operator]]
      BY <3>2
    <3> HIDE DEF both
    <3> QED BY <3>1, <3>3, MoreOperatorsAdmitLess
  <2> HIDE DEF b, both
  <2>5. KnownTopLevelFields(tighter) = known
    BY <1>3, <1>5, <2>2, <2>3 DEF KnownTopLevelFields
  <2>6. /\ r \subseteq Names(arguments) /\ f \cap Names(arguments) = {}
        /\ ~(u /\ Names(arguments) \ known # {})
        /\ \A q \in DOMAIN a \cup {path} : \A v \in ResolvePath(arguments, q) : CheckConstraint(v, b[q])
    BY <1>2, <2>2, <2>3, <2>5, AdmitsShape
  <2> HIDE DEF known
  <2> QED BY <1>4, <2>3, <2>4, <2>6
<1>6. ASSUME NEW n \in known, \/ tighter = [rule EXCEPT !.required = @ \cup {n}]
                              \/ tighter = [rule EXCEPT !.forbidden = @ \cup {n}]
      PROVE  Admits(rule, arguments)
  <2>1. /\ r \subseteq tighter.required /\ f \subseteq tighter.forbidden
        /\ tighter.required \subseteq r \cup {n} /\ tighter.forbidden \subseteq f \cup {n}
        /\ tighter.deny_unknown_arguments = u /\ tighter.arguments = a
    BY <1>1, <1>6
  <2>2. KnownTopLevelFields(tighter) = known
    BY <1>3, <1>6, <2>1 DEF KnownTopLevelFields
  <2>3. /\ tighter.required \subseteq Names(arguments) /\ tighter.forbidden \cap Names(arguments) = {}
        /\ ~(u /\ Names(arguments) \ known # {})
        /\ \A path \in DOMAIN a : \A v \in ResolvePath(arguments, path) : CheckConstraint(v, a[path])
    BY <1>2, <2>1, <2>2, AdmitsShape
  <2>4. r \subseteq Names(arguments) /\ f \cap Names(arguments) = {}
    BY <2>1, <2>3
  <2> HIDE DEF known
  <2> QED BY <1>4, <2>3, <2>4
<1>7. ASSUME tighter = [rule EXCEPT !.deny_unknown_arguments = TRUE]
      PROVE  Admits(rule, arguments)
  <2>1. /\ tighter.required = r /\ tighter.forbidden = f
        /\ tighter.deny_unknown_arguments = TRUE /\ tighter.arguments = a
    BY <1>1, <1>7
  <2>2. KnownTopLevelFields(tighter) = known
    BY <1>3, <2>1 DEF KnownTopLevelFields
  <2>3. /\ r \subseteq Names(arguments) /\ f \cap Names(arguments) = {}
        /\ Names(arguments) \subseteq known
        /\ \A path \in DOMAIN a : \A v \in ResolvePath(arguments, path) : CheckConstraint(v, a[path])
    BY <2>1, <2>2, AdmitsShape
  <2> HIDE DEF known
  <2> QED BY <1>4, <2>3
<1>8. rule.arguments = a
  BY <1>1
<1> QED BY <1>5, <1>6, <1>7, <1>8 DEF Tightened

\* Leaving out a field that is not required is admitted.
LEMMA OmittingAdmitted ==
  ASSUME NEW rule, IsToolRule(rule), NEW v \in Values, v.type = "dict",
         NEW n, n \notin rule.required, Admits(rule, v)
  PROVE  Admits(rule, Without(v, n))
<1>1. Names(Without(v, n)) = Names(v) \ {n}
  BY WithoutShape
<1>2. \A path \in DOMAIN rule.arguments :
        ResolvePath(Without(v, n), path) \subseteq ResolvePath(v, path)
  BY OmittingResolvesLess DEF IsToolRule
<1> QED BY <1>1, <1>2, AdmitsShape

LEMMA NestedOmittingAdmitted ==
  ASSUME NEW rule, IsToolRule(rule), NEW v \in Values, v.type = "dict",
         NEW n \in Names(v), <<n>> \notin DOMAIN rule.arguments,
         NEW m \in Names(v.parts[n]), Admits(rule, v)
  PROVE  Admits(rule, With(v, n, Without(v.parts[n], m)))
<1> DEFINE w == With(v, n, Without(v.parts[n], m))
<1>1. Names(w) = Names(v)
  BY WithShape
<1>2. \A path \in DOMAIN rule.arguments : ResolvePath(w, path) \subseteq ResolvePath(v, path)
  BY NestedOmittingResolvesLess DEF IsToolRule
<1> HIDE DEF w
<1>3. Admits(rule, w)
  BY <1>1, <1>2, AdmitsShape
<1> QED BY <1>3 DEF w

\* A scalar that is strictly equal to a value is that value.
LEMMA StrictScalars ==
  ASSUME NEW v \in Values, NEW w \in Values, ~IsContainer(v), StrictEqual(v, w)
  PROVE  v = w
<1>1. v.type = w.type /\ v.num = w.num
  BY PyEqualUnfolds DEF StrictEqual
<1>2. v.parts = NoParts /\ w.parts = NoParts
  BY <1>1, ValueShape DEF IsContainer
<1> QED BY <1>1, <1>2, ValueShape

-----------------------------------------------------------------------------
\* The inductive invariant: a call that has been handled has its judgement and its
\* record.
DataInv ==
  /\ policy \in Policies /\ mode \in Modes /\ call \in Asks
  /\ \/ answer = "pending" /\ record = NoDataRecord
     \/ /\ answer = Judgement(call)
        /\ record = [matched |-> MatchedRule(call.principal, call.tool),
                     arguments |-> RepresentArguments(call.arguments, mode)]

\* It holds in every state.
THEOREM DataInvariance == DataSpec => []DataInv
<1>1. DataInit => DataInv
  BY DEF DataInit, DataInv
<1>2. DataInv /\ [DataNext]_dataVars => DataInv'
  <2> SUFFICES ASSUME DataInv, [DataNext]_dataVars PROVE DataInv'
    OBVIOUS
  <2> USE DEF DataInv
  <2>1. CASE Handle
    BY <2>1 DEF Handle, Judgement, MatchedRule
  <2>2. CASE Handled
    BY <2>2 DEF Handled, dataVars, Judgement, MatchedRule
  <2>3. CASE UNCHANGED dataVars
    BY <2>3 DEF dataVars, Judgement, MatchedRule
  <2> QED BY <2>1, <2>2, <2>3 DEF DataNext
<1> QED BY <1>1, <1>2, PTL DEF DataSpec

\* The arguments of a call are a dict.
LEMMA ArgumentsTyped ==
  ASSUME DataInv
  PROVE  call.arguments \in Values /\ call.arguments.type = "dict" /\ mode \in RedactionModes
BY DataAssumption DEF DataInv, Asks

\* What resolve_tool_policy finds is a rule of the policy.
LEMMA ResolvedRules ==
  ASSUME DataInv, NEW rule \in ResolveToolPolicy(policy, call.principal, call.tool)
  PROVE  IsToolRule(rule) /\ MatchedRule(call.principal, call.tool)
BY DataAssumption DEF DataInv, ResolveToolPolicy, MatchedRule

\* What each answer says of the rule that was applied.
LEMMA AnswersJudged ==
  ASSUME DataInv
  PROVE  /\ answer \in {"pending", "unknown_tool", "schema_invalid", "argument_denied", "forwarded"}
         /\ answer # "pending" => answer = Judgement(call)
         /\ answer \notin {"pending", "unknown_tool"} => MatchedRule(call.principal, call.tool)
         /\ \A rule \in RuleApplied : IsToolRule(rule)
         /\ answer = "forwarded" => \A rule \in RuleApplied : Admits(rule, call.arguments)
         /\ answer = "argument_denied" => \E rule \in RuleApplied : ~Admits(rule, call.arguments)
<1> DEFINE rules == ResolveToolPolicy(policy, call.principal, call.tool)
<1>1. \/ answer = "pending"
      \/ answer = Judgement(call) /\ answer # "pending"
  BY DEF DataInv, Judgement
<1>2. CASE answer = "pending"
  BY <1>2 DEF RuleApplied
<1>3. CASE answer = Judgement(call) /\ answer # "pending"
  <2>1. \A rule \in rules : IsToolRule(rule) /\ MatchedRule(call.principal, call.tool)
    BY ResolvedRules
  <2> HIDE DEF rules
  <2>2. \/ answer = "unknown_tool"
        \/ answer = "schema_invalid" /\ rules # {}
        \/ /\ answer = "argument_denied" /\ rules # {}
           /\ \E rule \in rules : EvaluateArgumentPolicy(rule, call.arguments) # "none"
        \/ /\ answer = "forwarded" /\ rules # {}
           /\ \A rule \in rules : EvaluateArgumentPolicy(rule, call.arguments) = "none"
    BY <1>3 DEF Judgement, rules
  <2>3. RuleApplied = IF answer \in {"argument_denied", "forwarded"} THEN rules ELSE {}
    BY DEF RuleApplied, rules
  <2> QED BY <1>3, <2>1, <2>2, <2>3 DEF Admits
<1> QED BY <1>1, <1>2, <1>3

\* Redaction keeps the names of a dict.
LEMMA RepresentationKeepsNames ==
  ASSUME NEW v \in Values, v.type = "dict", NEW how \in RedactionModes \ {"none"}
  PROVE  Names(RepresentArguments(v, how)) = Names(v)
<1>1. Redact(v).type = "dict" /\ DOMAIN Redact(v).parts = DOMAIN v.parts
  <2> DEFINE parts == [s \in DOMAIN v.parts |-> IF s \in Sensitive THEN Redacted
                                                 ELSE Redact(v.parts[s])]
  <2>1. Redact(v) = [v EXCEPT !.parts = parts]
    BY RedactUnfolds
  <2>2. DOMAIN parts = DOMAIN v.parts
    OBVIOUS
  <2> HIDE DEF parts
  <2> QED BY <2>1, <2>2, PartsReplaced
<1>2. KeysOnly(v) = DictOf([n \in Names(v) |-> KeysOnly(v.parts[n])])
  BY KeysOnlyUnfolds
<1>3. KeysOnly(v).type = "dict" /\ DOMAIN KeysOnly(v).parts = DOMAIN v.parts
  BY <1>2 DEF DictOf, Names
<1> QED BY <1>1, <1>3 DEF RepresentArguments, RedactionModes, Names

\* Every record names a rule that judged its call, and in every mode but "none" shows
\* the names of the arguments (represent_arguments, audit.py:100-121).
THEOREM DataTypes == DataSpec => []DataTypeOK
<1>1. DataInv => DataTypeOK
  <2> SUFFICES ASSUME DataInv PROVE DataTypeOK
    OBVIOUS
  <2>1. call \in Asks /\ mode \in RedactionModes
    BY ArgumentsTyped DEF DataInv
  <2>2. answer = "pending" => record = NoDataRecord
    BY AnswersJudged DEF DataInv, Judgement
  <2>3. ASSUME answer # "pending"
        PROVE  /\ record # NoDataRecord
               /\ record.matched \/ answer = "unknown_tool"
               /\ mode = "none" \/ Names(record.arguments) = Names(call.arguments)
    <3>1. record = [matched |-> MatchedRule(call.principal, call.tool),
                    arguments |-> RepresentArguments(call.arguments, mode)]
      BY <2>3 DEF DataInv
    <3>2. record # NoDataRecord
      <4>1. "arguments" \in DOMAIN record /\ "arguments" \notin DOMAIN NoDataRecord
        BY <3>1 DEF NoDataRecord
      <4> QED BY <4>1
    <3>3. record.matched = MatchedRule(call.principal, call.tool)
          /\ record.arguments = RepresentArguments(call.arguments, mode)
      BY <3>1
    <3> QED BY <2>3, <3>2, <3>3, AnswersJudged, ArgumentsTyped, RepresentationKeepsNames
  <2> QED BY <2>1, <2>2, <2>3, AnswersJudged DEF DataTypeOK
<1> QED BY <1>1, DataInvariance, PTL

\* One more operator, constrained path, required name or forbidden name, over names
\* the rule already knows, or deny_unknown_arguments, never lets a call through that
\* the rule refused (engine.py:105-158).
THEOREM Tightening == DataSpec => []TighteningNeverAdmits
<1>1. DataInv => TighteningNeverAdmits
  <2> SUFFICES ASSUME DataInv, answer = "argument_denied",
                      NEW rule \in RuleApplied, NEW tighter \in Tightened(rule),
                      Admits(tighter, call.arguments)
               PROVE  FALSE
    BY DEF TighteningNeverAdmits
  <2>1. IsToolRule(rule)
    BY AnswersJudged
  <2>2. Admits(rule, call.arguments)
    BY <2>1, TighterAdmitsLess
  <2>3. \A other \in RuleApplied : other = rule
    BY DEF RuleApplied, ResolveToolPolicy
  <2> QED BY <2>2, <2>3, AnswersJudged
<1> QED BY <1>1, DataInvariance, PTL

\* Leaving out a top-level field that is not required, or a field nested in an argument
\* that is not itself constrained, never turns a call that is let through into one that
\* is not (engine.py:83-96, 150-153).
THEOREM Omitting == DataSpec => []OmittingNeverDenies
<1>1. DataInv => OmittingNeverDenies
  <2> SUFFICES ASSUME DataInv, answer = "forwarded",
                      NEW rule \in RuleApplied, NEW n \in Names(call.arguments)
               PROVE  /\ n \notin rule.required => Admits(rule, Without(call.arguments, n))
                      /\ <<n>> \notin DOMAIN rule.arguments =>
                           \A m \in Names(call.arguments.parts[n]) :
                             Admits(rule, With(call.arguments, n, Without(call.arguments.parts[n], m)))
    BY DEF OmittingNeverDenies
  <2>1. IsToolRule(rule) /\ Admits(rule, call.arguments)
    BY AnswersJudged
  <2> QED BY <2>1, ArgumentsTyped, OmittingAdmitted, NestedOmittingAdmitted
<1> QED BY <1>1, DataInvariance, PTL

\* Under deny_unknown_arguments every top-level field that goes upstream is required by
\* name, or some constraint's path starts at it (engine.py:99-102, 144-148).
THEOREM Coverage == DataSpec => []ForwardedFieldsAreCovered
<1>1. DataInv => ForwardedFieldsAreCovered
  <2> SUFFICES ASSUME DataInv, answer = "forwarded", NEW rule \in RuleApplied,
                      rule.deny_unknown_arguments, NEW n \in Names(call.arguments)
               PROVE  n \in rule.required \/ \E path \in DOMAIN rule.arguments : Head(path) = n
    BY DEF ForwardedFieldsAreCovered
  <2>1. IsToolRule(rule) /\ Admits(rule, call.arguments)
    BY AnswersJudged
  <2>2. /\ Names(call.arguments) \subseteq KnownTopLevelFields(rule)
        /\ rule.forbidden \cap Names(call.arguments) = {}
    BY <2>1, AdmitsShape
  <2> QED BY <2>2 DEF KnownTopLevelFields
<1> QED BY <1>1, DataInvariance, PTL

\* A scalar let through by `equals` or `in` is the configured value, and every other
\* operator refuses the values of a type it does not speak of (engine.py:69-80, 105-126).
THEOREM Strictness == DataSpec => []ScalarsAreStrict
<1>1. DataInv => ScalarsAreStrict
  <2> SUFFICES ASSUME DataInv, answer = "forwarded", NEW rule \in RuleApplied,
                      NEW path \in DOMAIN rule.arguments,
                      NEW v \in ResolvePath(call.arguments, path)
               PROVE  LET c == rule.arguments[path]
                      IN  /\ ~IsContainer(v) => (\A w \in c.equals : v = w) /\ \A s \in c.in : v \in s
                          /\ c.min \cup c.max # {} => v.type \in {"int", "float"}
                          /\ c.min_length \cup c.max_length \cup c.pattern # {} => v.type = "str"
                          /\ c.min_items \cup c.max_items # {} => v.type = "list"
    BY DEF ScalarsAreStrict
  <2> DEFINE c == rule.arguments[path]
  <2>1. IsToolRule(rule) /\ Admits(rule, call.arguments)
    BY AnswersJudged
  <2>2. c \in ArgumentConstraints /\ path \in Seq(Fields)
    BY <2>1 DEF IsToolRule
  <2>3. CheckConstraint(v, c)
    BY <2>1, <2>2, AdmitsShape
  <2>4. v \in Values
    BY <2>2, ArgumentsTyped, ResolvedAreValues
  <2> HIDE DEF c
  <2>5. c.equals \subseteq Values /\ c.in \subseteq SUBSET Values
    BY <2>2 DEF ArgumentConstraints
  <2>6. /\ \A w \in c.equals : StrictEqual(v, w)
        /\ \A s \in c.in : \E w \in s : StrictEqual(v, w)
        /\ c.min \cup c.max # {} => IsNumber(v)
        /\ c.min_length \cup c.max_length \cup c.pattern # {} => v.type = "str"
        /\ c.min_items \cup c.max_items # {} => v.type = "list"
    BY <2>3 DEF CheckConstraint, StrictIn
  <2>7. c.min \cup c.max # {} => v.type \in {"int", "float"}
    BY <2>6 DEF IsNumber
  <2>8. ASSUME ~IsContainer(v) PROVE (\A w \in c.equals : v = w) /\ \A s \in c.in : v \in s
    BY <2>4, <2>5, <2>6, <2>8, StrictScalars
  <2> QED BY <2>6, <2>7, <2>8 DEF c
<1> QED BY <1>1, DataInvariance, PTL

-----------------------------------------------------------------------------
\* The steps from a value to its parts: names and positions.
Steps == UNION {DOMAIN v.parts : v \in Values}

Secret(path) == \E i \in DOMAIN path : path[i] \in Sensitive

\* A longer path is secret if the shorter one is or the last step is.
LEMMA SecretSteps ==
  ASSUME NEW S, NEW path \in Seq(S), NEW s \in S
  PROVE  /\ Append(path, s) \in Seq(S)
         /\ Secret(Append(path, s)) <=> Secret(path) \/ s \in Sensitive
<1>1. /\ Append(path, s) \in Seq(S) /\ Len(path) \in Nat
      /\ DOMAIN path = 1..Len(path) /\ DOMAIN Append(path, s) = 1..(Len(path) + 1)
      /\ \A i \in 1..Len(path) : Append(path, s)[i] = path[i]
      /\ Append(path, s)[Len(path) + 1] = s
  OBVIOUS
<1>2. \A i : i \in 1..(Len(path) + 1) <=> i \in 1..Len(path) \/ i = Len(path) + 1
  BY <1>1
<1> QED BY <1>1, <1>2 DEF Secret

\* The nodes one level down.
LEMMA DescentStep ==
  ASSUME NEW v, NEW k \in Nat, k + 1 <= MaxDepth, NEW l
  PROVE  l \in NodesAt(v)[k + 1] <=>
           \E o \in NodesAt(v)[k] : \E s \in DOMAIN o.value.parts :
             l = [path |-> Append(o.path, s), value |-> o.value.parts[s]]
<1>1. k + 1 \in 0..MaxDepth /\ k + 1 # 0 /\ (k + 1) - 1 = k
  BY ValuesAssumption
<1>2. NodesAt(v)[k + 1] =
        UNION {{[path |-> Append(o.path, s), value |-> o.value.parts[s]] :
                  s \in DOMAIN o.value.parts} : o \in NodesAt(v)[k]}
  <2>1. \A i \in 0..MaxDepth : i # 0 =>
          NodesAt(v)[i] =
            UNION {{[path |-> Append(o.path, s), value |-> o.value.parts[s]] :
                      s \in DOMAIN o.value.parts} : o \in NodesAt(v)[i - 1]}
    BY NodesAtSteps DEF Descent
  <2> QED BY <1>1, <2>1
<1> QED BY <1>2

\* The nodes at the top.
LEMMA DescentStart ==
  ASSUME NEW v
  PROVE  NodesAt(v)[0] = {[path |-> <<>>, value |-> v]}
<1>1. 0 \in 0..MaxDepth
  BY ValuesAssumption
<1> QED BY <1>1, NodesAtSteps DEF Descent

\* Nodes of a value: their paths are sequences of steps, and they are values.
Nodes == [path : Seq(Steps), value : Values]

LEMMA NodesTyped ==
  ASSUME NEW v \in Values, NEW k \in 0..MaxDepth
  PROVE  NodesAt(v)[k] \subseteq Nodes
<1> DEFINE T == {n \in Nat : n <= MaxDepth => NodesAt(v)[n] \subseteq Nodes}
<1>1. 0 \in T
  <2>1. [path |-> <<>>, value |-> v] \in Nodes
    BY DEF Nodes
  <2> QED BY <2>1, DescentStart
<1>2. ASSUME NEW n \in T \cap Nat PROVE n + 1 \in T
  <2> SUFFICES ASSUME n + 1 <= MaxDepth, NEW l \in NodesAt(v)[n + 1] PROVE l \in Nodes
    OBVIOUS
  <2>0. n \in Nat /\ (n <= MaxDepth => NodesAt(v)[n] \subseteq Nodes)
    OBVIOUS
  <2> HIDE DEF T
  <2>1. PICK o \in NodesAt(v)[n] : \E s \in DOMAIN o.value.parts :
          l = [path |-> Append(o.path, s), value |-> o.value.parts[s]]
    BY <2>0, DescentStep
  <2>2. PICK s \in DOMAIN o.value.parts :
          l = [path |-> Append(o.path, s), value |-> o.value.parts[s]]
    BY <2>1
  <2>3. n <= MaxDepth
    BY <2>0, ValuesAssumption
  <2>4. o.path \in Seq(Steps) /\ o.value \in Values
    BY <2>0, <2>3 DEF Nodes
  <2>5. s \in Steps /\ o.value.parts[s] \in Values
    BY <2>4, PartsAreValues DEF Steps
  <2>6. Append(o.path, s) \in Seq(Steps)
    BY <2>4, <2>5, SecretSteps
  <2> QED BY <2>2, <2>5, <2>6 DEF Nodes
<1>3. Nat \subseteq T
  <2> HIDE DEF T
  <2> QED BY <1>1, <1>2, NumbersInduct
<1> QED BY <1>3

\* What redaction does to the parts of a value.
LEMMA RedactedParts ==
  ASSUME NEW v \in Values
  PROVE  /\ DOMAIN Redact(v).parts = DOMAIN v.parts
         /\ \A s \in DOMAIN v.parts :
              Redact(v).parts[s] = IF s \in Sensitive THEN Redacted ELSE Redact(v.parts[s])
         /\ DOMAIN v.parts = {} => Redact(v) = v
<1> DEFINE parts == [s \in DOMAIN v.parts |-> IF s \in Sensitive THEN Redacted
                                              ELSE Redact(v.parts[s])]
<1>1. Redact(v) = [v EXCEPT !.parts = parts]
  BY RedactUnfolds
<1>2. Redact(v).parts = parts
  <2> HIDE DEF parts
  <2> QED BY <1>1, PartsReplaced
<1>3. ASSUME DOMAIN v.parts = {} PROVE Redact(v) = v
  <2>1. parts = v.parts
    BY <1>3, ValueShape
  <2> HIDE DEF parts
  <2>2. PICK t, k, p : v = [type |-> t, num |-> k, parts |-> p]
    BY ValueShape
  <2>3. [v EXCEPT !.parts = v.parts] = v
    BY <2>2
  <2> QED BY <1>1, <2>1, <2>3
<1> QED BY <1>2, <1>3

\* A node of a redacted value is a node of the value, redacted, if no sensitive name
\* leads to it, and else a placeholder.
LEMMA ShownNodes ==
  ASSUME NEW v \in Values, NEW k \in 0..MaxDepth
  PROVE  \A l \in NodesAt(Redact(v))[k] :
           /\ l.path \in Seq(Steps) /\ l = [path |-> l.path, value |-> l.value]
           /\ IF Secret(l.path) THEN l.value = Redacted
              ELSE \E o \in NodesAt(v)[k] : o.path = l.path /\ l.value = Redact(o.value)
<1> DEFINE Shown(n, l) ==
             /\ l.path \in Seq(Steps) /\ l = [path |-> l.path, value |-> l.value]
             /\ IF Secret(l.path) THEN l.value = Redacted
                ELSE \E o \in NodesAt(v)[n] : o.path = l.path /\ l.value = Redact(o.value)
           T == {n \in Nat : n <= MaxDepth => \A l \in NodesAt(Redact(v))[n] : Shown(n, l)}
<1>1. 0 \in T
  <2> SUFFICES ASSUME NEW l \in NodesAt(Redact(v))[0] PROVE Shown(0, l)
    OBVIOUS
  <2>1. l = [path |-> <<>>, value |-> Redact(v)]
    BY DescentStart
  <2>2. l.path = <<>> /\ l.value = Redact(v)
    BY <2>1
  <2>3. ~Secret(<<>>)
    BY DEF Secret
  <2>4. \E o \in NodesAt(v)[0] : o.path = <<>> /\ o.value = v
    <3>1. [path |-> <<>>, value |-> v] \in NodesAt(v)[0]
      BY DescentStart
    <3> QED BY <3>1
  <2> QED BY <2>1, <2>2, <2>3, <2>4
<1>2. ASSUME NEW n \in T \cap Nat PROVE n + 1 \in T
  <2> SUFFICES ASSUME n + 1 <= MaxDepth, NEW l \in NodesAt(Redact(v))[n + 1] PROVE Shown(n + 1, l)
    OBVIOUS
  <2>1. PICK q \in NodesAt(Redact(v))[n] : \E s \in DOMAIN q.value.parts :
          l = [path |-> Append(q.path, s), value |-> q.value.parts[s]]
    BY DescentStep
  <2>2. PICK s \in DOMAIN q.value.parts :
          l = [path |-> Append(q.path, s), value |-> q.value.parts[s]]
    BY <2>1
  <2>3. n <= MaxDepth /\ n \in 0..MaxDepth
    BY ValuesAssumption
  <2>4. Shown(n, q)
    BY <2>3
  <2>5. ~Secret(q.path)
    <3>1. DOMAIN Redacted.parts = {}
      BY DEF Redacted, Scalar, NoParts
    <3> QED BY <2>2, <2>4, <3>1
  <2>6. PICK o \in NodesAt(v)[n] : o.path = q.path /\ q.value = Redact(o.value)
    BY <2>4, <2>5
  <2>7. o.value \in Values
    BY <2>3, NodesTyped DEF Nodes
  <2>8. /\ s \in DOMAIN o.value.parts /\ s \in Steps
        /\ q.value.parts[s] = IF s \in Sensitive THEN Redacted ELSE Redact(o.value.parts[s])
    BY <2>2, <2>6, <2>7, RedactedParts DEF Steps
  <2>9. /\ l.path = Append(q.path, s) /\ l.value = q.value.parts[s]
        /\ l.path \in Seq(Steps)
        /\ Secret(l.path) <=> s \in Sensitive
    BY <2>2, <2>4, <2>5, <2>8, SecretSteps
  <2>10. [path |-> Append(o.path, s), value |-> o.value.parts[s]] \in NodesAt(v)[n + 1]
    BY <2>8, DescentStep
  <2>11. \E p \in NodesAt(v)[n + 1] : p.path = l.path /\ p.value = o.value.parts[s]
    BY <2>6, <2>9, <2>10
  <2> QED BY <2>2, <2>8, <2>9, <2>11
<1>3. Nat \subseteq T
  <2> HIDE DEF T
  <2> QED BY <1>1, <1>2, NumbersInduct
<1> QED BY <1>3

\* A node of a value that no sensitive name leads to is shown, redacted.
LEMMA OpenNodes ==
  ASSUME NEW v \in Values, NEW k \in 0..MaxDepth
  PROVE  \A o \in NodesAt(v)[k] : ~Secret(o.path) =>
           [path |-> o.path, value |-> Redact(o.value)] \in NodesAt(Redact(v))[k]
<1> DEFINE Open(n, o) == ~Secret(o.path) =>
             [path |-> o.path, value |-> Redact(o.value)] \in NodesAt(Redact(v))[n]
           T == {n \in Nat : n <= MaxDepth => \A o \in NodesAt(v)[n] : Open(n, o)}
<1>1. 0 \in T
  BY DescentStart
<1>2. ASSUME NEW n \in T \cap Nat PROVE n + 1 \in T
  <2> SUFFICES ASSUME n + 1 <= MaxDepth, NEW o \in NodesAt(v)[n + 1], ~Secret(o.path)
               PROVE  [path |-> o.path, value |-> Redact(o.value)] \in NodesAt(Redact(v))[n + 1]
    OBVIOUS
  <2>1. PICK q \in NodesAt(v)[n] : \E s \in DOMAIN q.value.parts :
          o = [path |-> Append(q.path, s), value |-> q.value.parts[s]]
    BY DescentStep
  <2>2. PICK s \in DOMAIN q.value.parts :
          o = [path |-> Append(q.path, s), value |-> q.value.parts[s]]
    BY <2>1
  <2>3. n <= MaxDepth /\ n \in 0..MaxDepth
    BY ValuesAssumption
  <2>4. q.path \in Seq(Steps) /\ q.value \in Values
    BY <2>3, NodesTyped DEF Nodes
  <2>5. s \in Steps
    BY <2>4 DEF Steps
  <2>6. o.path = Append(q.path, s) /\ o.value = q.value.parts[s]
    BY <2>2
  <2>7. ~Secret(q.path) /\ s \notin Sensitive
    BY <2>4, <2>5, <2>6, SecretSteps
  <2>8. [path |-> q.path, value |-> Redact(q.value)] \in NodesAt(Redact(v))[n]
    BY <2>3, <2>7
  <2>9. s \in DOMAIN Redact(q.value).parts /\ Redact(q.value).parts[s] = Redact(o.value)
    BY <2>4, <2>6, <2>7, RedactedParts
  <2>10. \E x \in NodesAt(Redact(v))[n] : \E t \in DOMAIN x.value.parts :
           [path |-> o.path, value |-> Redact(o.value)]
           = [path |-> Append(x.path, t), value |-> x.value.parts[t]]
    <3> DEFINE x == [path |-> q.path, value |-> Redact(q.value)]
    <3>1. x.path = q.path /\ x.value = Redact(q.value)
      OBVIOUS
    <3> QED BY <2>6, <2>8, <2>9, <3>1
  <2> QED BY <2>10, DescentStep
<1>3. Nat \subseteq T
  <2> HIDE DEF T
  <2> QED BY <1>1, <1>2, NumbersInduct
<1> QED BY <1>3

\* In the redacted mode the record shows exactly what no sensitive name leads to, at any
\* depth, and placeholders for the rest (audit.py:78-88).
THEOREM ExactRedaction == DataSpec => []RedactionIsExact
<1>1. DataInv => RedactionIsExact
  <2> SUFFICES ASSUME DataInv, answer # "pending", mode = "redacted"
               PROVE  LET secret(l) == \E i \in DOMAIN l.path : l.path[i] \in Sensitive
                          sent == Leaves(call.arguments)
                          shown == Leaves(record.arguments)
                      IN  /\ {l \in shown : ~secret(l)} = {l \in sent : ~secret(l)}
                          /\ \A l \in shown : secret(l) => l.value = Redacted
    BY DEF RedactionIsExact
  <2> DEFINE v == call.arguments
             sent == Leaves(v)
             shown == Leaves(record.arguments)
  <2>1. v \in Values
    BY ArgumentsTyped
  <2>2. record.arguments = Redact(v)
    BY DEF DataInv, RepresentArguments
  <2>3. ASSUME NEW l \in shown, Secret(l.path) PROVE l.value = Redacted
    BY <2>1, <2>2, <2>3, ShownNodes DEF Leaves
  <2>4. ASSUME NEW l \in shown, ~Secret(l.path) PROVE l \in sent
    <3>1. PICK k \in 0..MaxDepth : l \in NodesAt(Redact(v))[k] /\ DOMAIN l.value.parts = {}
      BY <2>2, <2>4 DEF Leaves
    <3>2. PICK o \in NodesAt(v)[k] : o.path = l.path /\ l.value = Redact(o.value)
      BY <2>1, <2>4, <3>1, ShownNodes
    <3>3. o \in Nodes
      BY <2>1, <3>2, NodesTyped
    <3>4. DOMAIN o.value.parts = {} /\ l.value = o.value
      BY <3>1, <3>2, <3>3, RedactedParts DEF Nodes
    <3>5. l = o
      <4>1. l = [path |-> l.path, value |-> l.value]
        BY <2>1, <3>1, ShownNodes
      <4>2. o = [path |-> o.path, value |-> o.value]
        BY <3>3 DEF Nodes
      <4> QED BY <3>2, <3>4, <4>1, <4>2
    <3> QED BY <3>4, <3>5 DEF Leaves
  <2>5. ASSUME NEW l \in sent, ~Secret(l.path) PROVE l \in shown
    <3>1. PICK k \in 0..MaxDepth : l \in NodesAt(v)[k] /\ DOMAIN l.value.parts = {}
      BY <2>5 DEF Leaves
    <3>2. l \in Nodes
      BY <2>1, <3>1, NodesTyped
    <3>3. Redact(l.value) = l.value
      BY <3>1, <3>2, RedactedParts DEF Nodes
    <3>4. [path |-> l.path, value |-> l.value] \in NodesAt(Redact(v))[k]
      BY <2>1, <2>5, <3>1, <3>3, OpenNodes
    <3>5. l = [path |-> l.path, value |-> l.value]
      BY <3>2 DEF Nodes
    <3> QED BY <2>2, <3>1, <3>4, <3>5 DEF Leaves
  <2> HIDE DEF sent, shown
  <2>6. {l \in shown : ~Secret(l.path)} = {l \in sent : ~Secret(l.path)}
    BY <2>4, <2>5
  <2> QED BY <2>3, <2>6 DEF sent, shown, Secret
<1> QED BY <1>1, DataInvariance, PTL

\* The nodes of what the mode "keys_only" records.
LEMMA KeysOnlyNodes ==
  ASSUME NEW v \in Values, NEW k \in 0..MaxDepth
  PROVE  \A l \in NodesAt(KeysOnly(v))[k] :
           l.value = AnItem \/ \E w \in Values : l.value = KeysOnly(w)
<1> DEFINE Bare(l) == l.value = AnItem \/ \E w \in Values : l.value = KeysOnly(w)
           T == {n \in Nat : n <= MaxDepth => \A l \in NodesAt(KeysOnly(v))[n] : Bare(l)}
<1>1. 0 \in T
  BY DescentStart
<1>2. ASSUME NEW n \in T \cap Nat PROVE n + 1 \in T
  <2> SUFFICES ASSUME n + 1 <= MaxDepth, NEW l \in NodesAt(KeysOnly(v))[n + 1] PROVE Bare(l)
    OBVIOUS
  <2>0. n \in Nat /\ (n <= MaxDepth => \A q \in NodesAt(KeysOnly(v))[n] : Bare(q))
    OBVIOUS
  <2> HIDE DEF T
  <2>1. PICK q \in NodesAt(KeysOnly(v))[n] : \E s \in DOMAIN q.value.parts :
          l = [path |-> Append(q.path, s), value |-> q.value.parts[s]]
    <3> DEFINE bare == KeysOnly(v)
    <3>1. l \in NodesAt(bare)[n + 1]
      OBVIOUS
    <3> HIDE DEF bare, Bare
    <3>2. \E q \in NodesAt(bare)[n] : \E s \in DOMAIN q.value.parts :
            l = [path |-> Append(q.path, s), value |-> q.value.parts[s]]
      BY <2>0, <3>1, DescentStep
    <3> QED BY <3>2 DEF bare
  <2>2. PICK s \in DOMAIN q.value.parts : l.value = q.value.parts[s]
    BY <2>1
  <2>3. Bare(q)
    <3>1. n <= MaxDepth
      BY <2>0, ValuesAssumption
    <3> QED BY <2>0, <3>1
  <2>4. DOMAIN AnItem.parts = {} /\ DOMAIN AValue.parts = {}
    BY DEF AnItem, AValue, Scalar, NoParts
  <2>5. PICK w \in Values : q.value = KeysOnly(w)
    BY <2>2, <2>3, <2>4
  <2>6. CASE w.type = "dict"
    <3>1. q.value = DictOf([m \in Names(w) |-> KeysOnly(w.parts[m])])
      BY <2>5, <2>6, KeysOnlyUnfolds
    <3>2. q.value.parts = [m \in Names(w) |-> KeysOnly(w.parts[m])]
      BY <3>1 DEF DictOf
    <3>3. s \in DOMAIN w.parts /\ l.value = KeysOnly(w.parts[s])
      BY <2>2, <2>6, <3>2 DEF Names
    <3> QED BY <3>3, PartsAreValues
  <2>7. CASE w.type = "list"
    <3>1. q.value = ListOf([i \in DOMAIN w.parts |-> AnItem])
      BY <2>5, <2>7, KeysOnlyUnfolds
    <3>2. q.value.parts = [i \in DOMAIN w.parts |-> AnItem]
      BY <3>1 DEF ListOf
    <3> QED BY <2>2, <3>2
  <2>8. CASE w.type \notin {"dict", "list"}
    <3>1. q.value = AValue
      BY <2>5, <2>8, KeysOnlyUnfolds
    <3> QED BY <2>2, <2>4, <3>1
  <2> QED BY <2>6, <2>7, <2>8
<1>3. Nat \subseteq T
  <2> HIDE DEF T
  <2> QED BY <1>1, <1>2, NumbersInduct
<1> QED BY <1>3

\* In the mode "keys_only" every end of the record, at any depth, is a placeholder or an
\* empty container: none is a value of the arguments (audit.py:91-97).
THEOREM BareKeys == DataSpec => []KeysOnlyShowsNoValue
<1>1. DataInv => KeysOnlyShowsNoValue
  <2> SUFFICES ASSUME DataInv, answer # "pending", mode = "keys_only",
                      NEW l \in Leaves(record.arguments)
               PROVE  l.value \in {AnItem, AValue, ListOf(NoParts), DictOf(NoParts)}
    BY DEF KeysOnlyShowsNoValue
  <2>1. call.arguments \in Values /\ record.arguments = KeysOnly(call.arguments)
    BY ArgumentsTyped DEF DataInv, RepresentArguments
  <2>2. DOMAIN l.value.parts = {} /\ \E k \in 0..MaxDepth : l \in NodesAt(record.arguments)[k]
    BY DEF Leaves
  <2>3. CASE l.value = AnItem
    BY <2>3
  <2>4. CASE \E w \in Values : l.value = KeysOnly(w)
    <3>1. PICK w \in Values : l.value = KeysOnly(w)
      BY <2>4
    <3>2. CASE w.type = "dict"
      <4> DEFINE parts == [m \in Names(w) |-> KeysOnly(w.parts[m])]
      <4>1. l.value = DictOf(parts)
        BY <3>1, <3>2, KeysOnlyUnfolds
      <4>2. l.value.parts = parts
        BY <4>1 DEF DictOf
      <4>3. parts = NoParts
        BY <2>2, <4>2 DEF NoParts
      <4> QED BY <4>1, <4>3
    <3>3. CASE w.type = "list"
      <4> DEFINE parts == [i \in DOMAIN w.parts |-> AnItem]
      <4>1. l.value = ListOf(parts)
        BY <3>1, <3>3, KeysOnlyUnfolds
      <4>2. l.value.parts = parts
        BY <4>1 DEF ListOf
      <4>3. parts = NoParts
        BY <2>2, <4>2 DEF NoParts
      <4> QED BY <4>1, <4>3
    <3>4. CASE w.type \notin {"dict", "list"}
      BY <3>1, <3>4, KeysOnlyUnfolds
    <3> QED BY <3>2, <3>3, <3>4
  <2> QED BY <2>1, <2>2, <2>3, <2>4, KeysOnlyNodes
<1> QED BY <1>1, DataInvariance, PTL
=============================================================================
