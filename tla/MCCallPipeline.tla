--------------------------- MODULE MCCallPipeline ---------------------------
(* Small instances of CallPipeline. *)
EXTENDS CallPipeline, TLC

CONSTANTS c1, c2, c3, l1, alice, bob, read, write

OnePrincipal == [r \in Calls \cup Listers |-> alice]
TwoPrincipals == [r \in Calls \cup Listers |-> IF r = c2 THEN bob ELSE alice]

AllowRead == [p \in Principals |-> {read}]

Ask(tool, conforms, permitted) ==
  [tool |-> tool, conforms |-> conforms, permitted |-> permitted]

GoodRequest == {Ask(read, TRUE, TRUE)}
EveryRequest == {Ask(read, TRUE, TRUE), Ask(read, FALSE, TRUE), Ask(read, TRUE, FALSE),
                 Ask(write, TRUE, TRUE)}

ReadOnly == {{read}}
MayLackRead == {{read, write}, {write}}

\* c1 and c3 are the calls of one principal.
CallSymmetry == Permutations({c1, c3})
=============================================================================
