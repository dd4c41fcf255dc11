------------------------- MODULE CompletionParsing -------------------------
(* parse_turn, parse_intent and parse_work_order                           *)
(* (siphonophore_harness/intent_parsing.py, work_order.py): what a         *)
(* completion of the model becomes.  A completion is a record that says    *)
(* what the checks tell apart: how its text is wrapped, whether it names a *)
(* field that is not in the schema, and the two objects it may name.       *)
(* A check that cannot even be made, because a value that has to be looked *)
(* up in a set is a JSON array or object, raises TypeError, which is no    *)
(* IntentParseError.                                                       *)
EXTENDS Naturals

CONSTANTS
  Absent,      \* a field that is missing or, but for an operation's kind, null
  Null,        \* an operation's kind that is null: it names no kind, and is not missing
  Scalar,      \* a JSON value that is not of the type the schema wants
  Unhashable,  \* a JSON array or object where a string is wanted
  Empty,       \* the empty string
  Kinds, Payloads, Consequences, Artifacts,
  CODE_BEARING_KINDS,
  consequence_is_load_bearing,  \* of the profile: Policy reads intent.consequence
  Completions  \* the completions a model may give

Texts == {"bare", "fenced", "open_fence", "prose"}

Operation ==
  [unknown : BOOLEAN, kind : Kinds \cup {Absent, Null, Unhashable}, payload : Payloads \cup {Scalar},
   consequence : Consequences, artifact_code : Artifacts \cup {Absent, Empty}]

WorkOrder ==
  [unknown : BOOLEAN, status : {"draft", "final", "other"} \cup {Absent, Unhashable},
   objective : {"text", Absent, Scalar}, prompt : {"text", Absent, Scalar},
   lists : BOOLEAN,  \* every list field that is named is a list of strings
   resource_expectations : {"text", Absent, Scalar}]

Completion ==
  [text : Texts, object : BOOLEAN, unknown : BOOLEAN,
   operation : Operation \cup {Absent, Scalar}, work_order : WorkOrder \cup {Absent, Scalar}]

ASSUME CompletionsAssumption ==
  /\ Completions \subseteq Completion
  /\ CODE_BEARING_KINDS \subseteq Kinds /\ Null \notin Kinds
  /\ consequence_is_load_bearing \in BOOLEAN

-----------------------------------------------------------------------------

\* One well-formed fence is stripped; a fence that is not closed stays, and is no JSON.
strip_code_fence(text) == IF text = "fenced" THEN "bare" ELSE text

\* The envelope: one JSON object of known fields that names at most one of the two.
Envelope(c) ==
  /\ strip_code_fence(c.text) = "bare" /\ c.object
  /\ ~c.unknown
  /\ c.operation = Absent \/ c.work_order = Absent

\* What is looked at before "kind in CODE_BEARING_KINDS".
OperationFields(o) ==
  /\ o # Scalar
  /\ ~o.unknown /\ o.kind # Absent /\ o.payload # Scalar

\* Code is required where it is the behavior, and forbidden, even "", where it is not.
CodeAsDeclared(o) ==
  IF o.kind \in CODE_BEARING_KINDS THEN o.artifact_code \notin {Absent, Empty}
                                   ELSE o.artifact_code = Absent

\* What is looked at before "status not in _VALID_STATUSES".
WorkOrderFields(w) ==
  /\ w # Scalar
  /\ ~w.unknown
  /\ Absent \notin {w.status, w.objective, w.prompt}

WorkOrderValues(w) ==
  /\ w.status \in {"draft", "final"}
  /\ Scalar \notin {w.objective, w.prompt, w.resource_expectations}
  /\ w.lists

\* TypeError: the value cannot be looked up.
ParseRaises(c) ==
  /\ Envelope(c)
  /\ \/ c.operation # Absent /\ OperationFields(c.operation) /\ c.operation.kind = Unhashable
     \/ /\ c.work_order # Absent /\ WorkOrderFields(c.work_order)
        /\ c.work_order.status = Unhashable

parse_intent(c) ==
  /\ Envelope(c) /\ c.operation # Absent
  /\ OperationFields(c.operation) /\ c.operation.kind # Unhashable /\ CodeAsDeclared(c.operation)

parse_work_order(c) ==
  /\ Envelope(c) /\ c.work_order # Absent
  /\ WorkOrderFields(c.work_order) /\ WorkOrderValues(c.work_order)

MessageOnly(c) == Envelope(c) /\ c.operation = Absent /\ c.work_order = Absent

\* What the turn is, or IntentParseError, or another exception.
parse_turn(c) ==
  CASE ParseRaises(c)      -> "raises"
    [] parse_intent(c)     -> "operation"
    [] parse_work_order(c) -> "work_order"
    [] MessageOnly(c)      -> "message"
    [] OTHER               -> "malformed"

\* What step() compares two requests by.
signature(o) ==
  <<o.kind, IF consequence_is_load_bearing THEN o.consequence ELSE Absent,
    o.payload, o.artifact_code>>

\* The completions of one outcome, the work orders and the requests a model can make.
Parsing(outcome) == {c \in Completions : parse_turn(c) = outcome}
Malformed  == Parsing("malformed")
Raising    == Parsing("raises")
Messages   == Parsing("message")
Statuses   == {c.work_order.status : c \in Parsing("work_order")}
Signatures == {signature(c.operation) : c \in Parsing("operation")}
=============================================================================
