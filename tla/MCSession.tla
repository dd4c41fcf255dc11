----------------------------- MODULE MCSession -----------------------------
(* Two typed requests that are interchangeable, made with two consequences *)
(* that the planning profile does not read, one request that carries code, *)
(* and a completion for each way parse_turn has of refusing one.           *)
EXTENDS Session, TLC

CONSTANTS A, B, code, none, low, high

MCKinds == {"read_file", "run_artifact"}
MCCodeBearing == {"run_artifact"}

Plain == [text |-> "bare", object |-> TRUE, unknown |-> FALSE,
          operation |-> Absent, work_order |-> Absent]

Read(p) == [unknown |-> FALSE, kind |-> "read_file", payload |-> p,
            consequence |-> low, artifact_code |-> Absent]
Run == [Read(A) EXCEPT !.kind = "run_artifact", !.payload = none, !.artifact_code = code]

Order == [unknown |-> FALSE, status |-> "final", objective |-> "text", prompt |-> "text",
          lists |-> TRUE, resource_expectations |-> Absent]

Operates(o) == [Plain EXCEPT !.operation = o]
Orders(w) == [Plain EXCEPT !.work_order = w]

MCCompletions ==
  {Plain, [Plain EXCEPT !.text = "fenced"], [Plain EXCEPT !.text = "open_fence"],
   [Plain EXCEPT !.text = "prose"], [Plain EXCEPT !.object = FALSE],
   [Plain EXCEPT !.unknown = TRUE]}
  \cup {Operates(Read(p)) : p \in {A, B}}
  \cup {Operates([Read(p) EXCEPT !.consequence = high]) : p \in {A, B}}
  \cup {Operates(o) : o \in
         {Run, Scalar, [Run EXCEPT !.unknown = TRUE], [Run EXCEPT !.kind = Absent],
          [Run EXCEPT !.kind = Null], [Run EXCEPT !.kind = Unhashable],
          [Run EXCEPT !.payload = Scalar], [Run EXCEPT !.artifact_code = Absent],
          [Run EXCEPT !.artifact_code = Empty], [Run EXCEPT !.kind = "read_file"],
          [Run EXCEPT !.kind = "read_file", !.artifact_code = Empty]}}
  \cup {Orders(w) : w \in
         {Order, Scalar, [Order EXCEPT !.status = "draft"], [Order EXCEPT !.unknown = TRUE],
          [Order EXCEPT !.status = "other"], [Order EXCEPT !.status = Unhashable],
          [Order EXCEPT !.prompt = Absent], [Order EXCEPT !.objective = Scalar],
          [Order EXCEPT !.lists = FALSE], [Order EXCEPT !.resource_expectations = Scalar]}}
  \cup {[Operates(Run) EXCEPT !.work_order = Order]}

\* A kind that is null makes a request too.
ReportCompletions ==
  MCCompletions \cup {Operates([Run EXCEPT !.kind = Null, !.artifact_code = Absent])}

Symmetry == Permutations({A, B})
=============================================================================
