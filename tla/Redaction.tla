------------------------------ MODULE Redaction ------------------------------
(***************************************************************************)
(* How an audit record represents a call's arguments                       *)
(* (telemetry/audit.py).  Sensitive is the set of names that, normalized,  *)
(* contain one of SENSITIVE_NAME_FRAGMENTS.                                *)
(***************************************************************************)
EXTENDS JsonValues

CONSTANT Sensitive

ASSUME SensitiveAssumption == Sensitive \subseteq Fields

\* The three strings that stand for a value.
Redacted == Scalar("str", -1)
AnItem == Scalar("str", -2)
AValue == Scalar("str", -3)

\* A mutant of Redact: lists are passed through.
RedactDictsOnly(v) ==
  LET redact[w \in Values] ==
        IF w.type # "dict" THEN w
        ELSE DictOf([n \in Names(w) |-> IF n \in Sensitive THEN Redacted ELSE redact[w.parts[n]]])
  IN  redact[v]

\* A mutant of Redact: sensitive fields are left out.
RedactDropping(v) ==
  LET redact[w \in Values] ==
        [w EXCEPT !.parts = [s \in DOMAIN w.parts \ Sensitive |-> redact[w.parts[s]]]]
  IN  redact[v]

\* _redact.  The position of an item is no name.
Redact(v) ==
  LET redact[w \in Values] ==
        [w EXCEPT !.parts = [s \in DOMAIN w.parts |-> IF s \in Sensitive THEN Redacted
                                                      ELSE redact[w.parts[s]]]]
  IN  redact[v]

\* A mutant of KeysOnly: lists keep their items.
KeysOnlyOfDicts(v) ==
  LET keys[w \in Values] ==
        CASE w.type = "dict" -> DictOf([n \in Names(w) |-> keys[w.parts[n]]])
          [] w.type = "list" -> w
          [] OTHER -> AValue
  IN  keys[v]

\* _keys_only.
KeysOnly(v) ==
  LET keys[w \in Values] ==
        CASE w.type = "dict" -> DictOf([n \in Names(w) |-> keys[w.parts[n]]])
          [] w.type = "list" -> ListOf([i \in DOMAIN w.parts |-> AnItem])
          [] OTHER -> AValue
  IN  keys[v]

RedactionModes == {"none", "keys_only", "redacted", "full"}

RepresentArguments(arguments, mode) ==
  CASE mode = "none" -> Null
    [] mode = "keys_only" -> KeysOnly(arguments)
    [] mode = "redacted" -> Redact(arguments)
    [] mode = "full" -> arguments
=============================================================================
