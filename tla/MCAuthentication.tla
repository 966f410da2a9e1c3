-------------------------- MODULE MCAuthentication --------------------------
(* A small instance of Authentication. *)
EXTENDS Authentication, TLC

CONSTANTS alice, bob, KEY_A, KEY_B, k1, k2

\* A text stands for its digest.
Identity == [t \in Tokens |-> t]

Sections(policy, who, tool, constraint) ==
  [policy |-> policy, principal |-> who, tool |-> tool, constraint |-> constraint]

Usual == Sections({{"principals"}}, {{"api_key_env", "tools"}, {"api_key_env"}},
                  {{"effect"}, {"effect", "required", "arguments"}}, {{}, {"equals", "max"}})

OwnKeys == (alice :> KEY_A) @@ (bob :> KEY_B)
SameKey == (alice :> KEY_A) @@ (bob :> KEY_A)

File(content, sections, order, env) ==
  [content |-> content, sections |-> sections, effects |-> {"allow", "deny"},
   patternsCompile |-> TRUE, wellTyped |-> TRUE, principals |-> order, api_key_env |-> env]

Good == File("mapping", Usual, <<alice, bob>>, OwnKeys)

Files ==
  {Good, [Good EXCEPT !.principals = <<bob, alice>>], [Good EXCEPT !.principals = <<bob>>],
   [Good EXCEPT !.api_key_env = SameKey],
   [Good EXCEPT !.effects = {"allow", "permit"}],
   [Good EXCEPT !.patternsCompile = FALSE],
   [Good EXCEPT !.wellTyped = FALSE]}
  \cup {[Good EXCEPT !.content = c] : c \in {"unreadable", "undecodable", "malformed", "no_mapping"}}
  \cup {[Good EXCEPT !.sections.policy = {{"principals", "version"}}],
        [Good EXCEPT !.sections.principal = {{"api_key_env"}, {"tools"}}],
        [Good EXCEPT !.sections.tool = {{"effect", "require"}}],
        [Good EXCEPT !.sections.constraint = {{"maximum"}}]}

Bearer(t) == [scheme |-> "Bearer", token |-> t]

SomeHeaders ==
  {<<>>, <<Bearer(k1)>>, <<Bearer(k2)>>, <<Bearer(EmptyToken)>>,
   <<Bearer(k1), Bearer(k1)>>, <<Bearer(k1), Bearer(k2)>>,
   <<[scheme |-> "bearer", token |-> k1]>>, <<[scheme |-> "Basic", token |-> k2]>>}
=============================================================================
