--------------------------- MODULE CognitiveLoop ---------------------------
(* CognitiveLoop.step (siphonophore_harness/loop.py): one user turn is a   *)
(* series of cycles, each of one model completion and at most one mediated *)
(* dispatch, with the turn's part of the conversation staged until it is   *)
(* committed and its events given to the event sink as they happen.  The   *)
(* model, the broker and the sink are the environment: a completion is any *)
(* of Completions, a dispatch ends in any way Broker.dispatch can, the     *)
(* model may raise, and the sink may raise on any event.                   *)
(*                                                                         *)
(* A history entry is its role, its turn and what it is about.  After      *)
(* commit() the code's working_history is self.history; before, it is a    *)
(* copy of it with the turn's entries appended, of which staged holds      *)
(* those entries.                                                          *)
EXTENDS CompletionParsing, Integers, Sequences, FiniteSets

CONSTANTS
  max_operations_per_turn_safety_net,
  repeated_operation_limit,
  max_parse_retries_per_turn,
  SinkMayFail, \* event_sink may raise (a session log that cannot be written)
  MaxTurns     \* bound on the turns of one behaviour

ASSUME LimitsAssumption ==
  /\ max_operations_per_turn_safety_net \in Nat
  /\ repeated_operation_limit \in Nat \ {0}
  /\ max_parse_retries_per_turn \in Nat
  /\ MaxTurns \in Nat
ASSUME SinkAssumption == SinkMayFail \in BOOLEAN

VARIABLES
  history,          \* self.history
  staged,           \* entries of this turn not yet in self.history
  committed,        \* commit() ran this turn
  last_operations,  \* operations, and self.last_operations
  failures,         \* consecutive_parse_failures
  window,           \* recent_operation_signatures
  request,          \* the request about to be dispatched, or NoRequest
  ended,            \* how the latest turn ended, "running" until then
  turn,             \* turns started
  log,              \* the events of this turn that the sink took
  calls,            \* history: model completions asked for this turn
  dispatched        \* history: what the broker really did this turn

vars == <<history, staged, committed, last_operations, failures, window, request, ended,
          turn, log, calls, dispatched>>

NoRequest == <<>>

window_size == 2 * repeated_operation_limit - 1

\* Mutant: an integrity rejection is reported to the model like any other.
Recoverable_with_integrity == {"reported", "integrity_rejected"}

\* classify_outcome: what a cycle reports and continues from, which is any category but
\* one, "executed" or not, and what fails closed.
Recoverable == {"reported"}
FailClosed == "integrity_rejected"
\* What is no GateViolation, ExecutionError or IdentityError: an exception such as
\* ProvisioningError, TimeoutExpired or OSError from a backend, and what is no
\* Exception, such as the SystemExit of an artifact that same_process runs.
Uncaught == {"uncaught", "exits"}
Outcomes == Recoverable \cup {FailClosed} \cup Uncaught

-----------------------------------------------------------------------------
(* History and events.                                                     *)

Entry(role, about) == [role |-> role, turn |-> turn, about |-> about]
Exchange(about) == <<Entry("assistant", about), Entry("effect", about)>>

\* working_history.append, once for each entry
Stage(entries) ==
  IF committed THEN history' = history \o entries /\ UNCHANGED <<staged, committed>>
               ELSE staged' = staged \o entries /\ UNCHANGED <<history, committed>>

\* working_history.append, then commit()
Commit(entries) ==
  /\ history' = history \o staged \o entries
  /\ staged' = <<>>
  /\ committed' = TRUE

\* The numbers of a sequence of events that the sink takes before it raises, or all.
Taken(events) == IF SinkMayFail THEN 0 .. Len(events) ELSE {Len(events)}

Emit(events, n) == log' = log \o SubSeq(events, 1, n)

-----------------------------------------------------------------------------

Asking == ended = "running" /\ request = NoRequest
Dispatching == ended = "running" /\ request # NoRequest

\* What step() resets whatever the turn before left; the sink may raise on the user's
\* message, before there is a working_history.
Start ==
  /\ ended # "running"
  /\ turn < MaxTurns
  /\ turn' = turn + 1
  /\ committed' = FALSE
  /\ failures' = 0
  /\ request' = NoRequest
  /\ calls' = 0
  /\ dispatched' = <<>>
  /\ \E n \in Taken(<<"user.message">>) :
       /\ log' = SubSeq(<<"user.message">>, 1, n)
       /\ ended' = IF n = 1 THEN "running" ELSE "raised"

Asked == [role |-> "user", turn |-> turn + 1, about |-> "request"]

\* Mutant: the user's message goes straight into self.history.
step_appending ==
  /\ Start
  /\ history' = Append(history, Asked)
  /\ staged' = <<>>
  /\ last_operations' = <<>>
  /\ window' = <<>>

\* Mutant: last_operations is not reset.
step_keeping_operations ==
  /\ Start
  /\ staged' = <<Asked>>
  /\ window' = <<>>
  /\ UNCHANGED <<history, last_operations>>

\* Mutant: the window lives on in the next turn.
step_keeping_window ==
  /\ Start
  /\ staged' = <<Asked>>
  /\ last_operations' = <<>>
  /\ UNCHANGED <<history, window>>

step ==
  /\ Start
  /\ staged' = <<Asked>>
  /\ last_operations' = <<>>
  /\ window' = <<>>
  /\ UNCHANGED history

\* From the second cycle on, the cycle itself is an event.
Cycle == IF calls = 0 THEN <<>> ELSE <<"model.continuation">>

\* One call of the model, which answered.
Completes == Asking /\ calls' = calls + 1
Response == Append(Cycle, "model.response")

\* The sink raises before the model is asked.
continuation_unrecorded ==
  /\ SinkMayFail
  /\ Asking /\ calls > 0
  /\ ended' = "raised"
  /\ UNCHANGED <<history, staged, committed, last_operations, failures, window, request,
                 turn, log, calls, dispatched>>

\* Mutant: the turn is committed in a finally.
complete_raises_committing ==
  /\ Completes
  /\ Emit(Cycle \o <<"model.failure", "turn.failed">>, Len(Cycle) + 2)
  /\ Commit(<<>>)
  /\ ended' = "raised"
  /\ UNCHANGED <<last_operations, failures, window, request, turn, dispatched>>

\* model.complete raises.
complete_raises ==
  /\ Completes
  /\ \E n \in Taken(<<"model.failure", "turn.failed">>) :
       Emit(Cycle \o <<"model.failure", "turn.failed">>, Len(Cycle) + n)
  /\ ended' = "raised"
  /\ UNCHANGED <<history, staged, committed, last_operations, failures, window, request,
                 turn, dispatched>>

\* The sink raises on the completion, or parse_turn does with anything but
\* IntentParseError: no event says that the turn has failed.
parse_raises ==
  /\ Completes
  /\ \/ SinkMayFail /\ Emit(Response, Len(Cycle))
     \/ Raising # {} /\ Emit(Response, Len(Response))
  /\ ended' = "raised"
  /\ UNCHANGED <<history, staged, committed, last_operations, failures, window, request,
                 turn, dispatched>>

\* Mutant: one retry too many.
RetryLeft_late == failures <= max_parse_retries_per_turn

RetryLeft == failures < max_parse_retries_per_turn

malformed ==
  /\ Completes
  /\ Malformed # {}
  /\ \/ /\ RetryLeft
        /\ failures' = failures + 1
        /\ Stage(Exchange("malformed"))
        /\ Emit(Append(Response, "model.failure"), Len(Response) + 1)
        /\ UNCHANGED ended
     \/ /\ ~RetryLeft
        /\ Stage(<<Entry("assistant", "malformed")>>)
        /\ \E n \in Taken(<<"turn.failed">>) :
             Emit(Response \o <<"model.failure", "turn.failed">>, Len(Response) + 1 + n)
        /\ ended' = "raised"
        /\ UNCHANGED failures
     \/ /\ SinkMayFail
        /\ Emit(Response, Len(Response))
        /\ ended' = "raised"
        /\ UNCHANGED <<history, staged, committed, failures>>
  /\ UNCHANGED <<last_operations, window, request, turn, dispatched>>

\* A turn that ends in order commits, tells the sink and returns, unless the sink
\* raises: then it is committed and step() raises.
Return(about, events, how) ==
  /\ Commit(Exchange(about))
  /\ \E n \in Taken(events) :
       /\ Emit(Response \o events, Len(Response) + n)
       /\ ended' = IF n = Len(events) THEN how ELSE "sink_raised"
  /\ failures' = 0
  /\ UNCHANGED <<last_operations, request, turn, dispatched>>

\* A completion with no operation.
final_message ==
  /\ Completes
  /\ Messages # {}
  /\ Return("final", <<"turn.completed">>, "returned")
  /\ UNCHANGED window

\* A completion with a work order, a draft or the final one.
final_work_order ==
  /\ Completes
  /\ \E status \in Statuses :
       Return("final", <<IF status = "final" THEN "work_order.finalized"
                                             ELSE "work_order.draft", "turn.completed">>,
              "returned")
  /\ UNCHANGED window

\* Mutant: one operation too many.
AtSafetyNet_late == Len(last_operations) > max_operations_per_turn_safety_net

AtSafetyNet == Len(last_operations) >= max_operations_per_turn_safety_net

safety_net ==
  /\ Completes
  /\ Signatures # {}
  /\ AtSafetyNet
  /\ Return("safety_net", <<"turn.completed">>, "exhausted")
  /\ UNCHANGED window

\* deque(maxlen=window_size).append
Remember(s) ==
  LET w == Append(window, s)
  IN IF Len(w) > window_size THEN Tail(w) ELSE w

Occurrences(s, seq) == Cardinality({n \in DOMAIN seq : seq[n] = s})

\* Mutant: one repetition too many.
Repeats_late(s) == Occurrences(s, Remember(s)) > repeated_operation_limit

Repeats(s) == Occurrences(s, Remember(s)) >= repeated_operation_limit

repeated_operation(s) ==
  /\ Completes
  /\ ~AtSafetyNet
  /\ Repeats(s)
  /\ window' = Remember(s)
  /\ Return("repeat", <<"turn.completed">>, "loop_detected")

\* Mutant: the operation goes on although the sink did not take its request.
request_operation_unrecorded(s) ==
  /\ Completes
  /\ ~AtSafetyNet
  /\ ~Repeats(s)
  /\ window' = Remember(s)
  /\ failures' = 0
  /\ request' = <<s>>
  /\ \E n \in Taken(<<"operation.requested">>) :
       Emit(Append(Response, "operation.requested"), Len(Response) + n)
  /\ UNCHANGED <<history, staged, committed, last_operations, ended, turn, dispatched>>

\* Nothing is dispatched when the sink raises on "operation.requested".
request_operation(s) ==
  /\ Completes
  /\ ~AtSafetyNet
  /\ ~Repeats(s)
  /\ window' = Remember(s)
  /\ failures' = 0
  /\ \E n \in Taken(<<"operation.requested">>) :
       /\ Emit(Append(Response, "operation.requested"), Len(Response) + n)
       /\ request' = IF n = 1 THEN <<s>> ELSE NoRequest
       /\ ended' = IF n = 1 THEN "running" ELSE "raised"
  /\ UNCHANGED <<history, staged, committed, last_operations, turn, dispatched>>

\* What a dispatch leaves once it is committed: the sink may raise on the decision, on
\* the result and, after an outcome that fails closed, on the failed turn.  Such an
\* outcome is recorded before its result is given to the sink, any other after.
Account(category, operation) ==
  LET failing == category \notin Recoverable
      events == <<"mediation.decision", "operation.result">> \o
                (IF failing THEN <<"turn.failed">> ELSE <<>>)
  IN \E n \in Taken(events) :
       LET recorded == IF failing THEN n > 0 ELSE n = Len(events)
       IN /\ Emit(events, n)
          /\ Commit(IF recorded /\ ~failing THEN Exchange("dispatch")
                                            ELSE <<Entry("assistant", "dispatch")>>)
          /\ last_operations' = IF recorded THEN Append(last_operations, operation)
                                            ELSE last_operations
          /\ ended' = IF ~recorded THEN "escaped" ELSE IF failing THEN "raised" ELSE "running"

\* Broker.dispatch, commit(), classify_outcome and what follows from the category.
dispatch(category) ==
  LET operation == [signature |-> request[1], category |-> category]
  IN
  /\ Dispatching
  /\ dispatched' = Append(dispatched, operation)
  /\ request' = NoRequest
  /\ \/ /\ category \in Uncaught
        /\ ended' = "escaped"
        /\ UNCHANGED <<history, staged, committed, last_operations, log>>
     \/ category \notin Uncaught /\ Account(category, operation)
  /\ UNCHANGED <<failures, window, turn, calls>>

-----------------------------------------------------------------------------

Init ==
  /\ history = <<>>
  /\ staged = <<>>
  /\ committed = FALSE
  /\ last_operations = <<>>
  /\ failures = 0
  /\ window = <<>>
  /\ request = NoRequest
  /\ ended = "none"
  /\ turn = 0
  /\ log = <<>>
  /\ calls = 0
  /\ dispatched = <<>>

\* The steps of a turn that has begun.
Proceed ==
  \/ continuation_unrecorded
  \/ complete_raises
  \/ parse_raises
  \/ malformed
  \/ final_message
  \/ final_work_order
  \/ safety_net
  \/ \E s \in Signatures : repeated_operation(s) \/ request_operation(s)
  \/ \E category \in Outcomes : dispatch(category)

Next == step \/ Proceed

Spec == Init /\ [][Next]_vars

-----------------------------------------------------------------------------
(* Properties.                                                             *)

Entries == [role: {"user", "assistant", "effect"}, turn: 1 .. MaxTurns,
            about: {"request", "malformed", "final", "safety_net",
                    "repeat", "dispatch"}]

Events == {"user.message", "model.continuation", "model.response", "model.failure",
           "operation.requested", "mediation.decision", "operation.result",
           "work_order.draft", "work_order.finalized", "turn.completed", "turn.failed"}

Operations == [signature: Signatures, category: Outcomes]

TypeOK ==
  /\ history \in Seq(Entries)
  /\ staged \in Seq(Entries)
  /\ committed \in BOOLEAN
  /\ last_operations \in Seq(Operations)
  /\ failures \in 0 .. max_parse_retries_per_turn
  /\ window \in Seq(Signatures) /\ Len(window) <= window_size
  /\ request \in {NoRequest} \cup {<<s>> : s \in Signatures}
  /\ ended \in {"none", "running", "returned", "exhausted", "loop_detected", "raised",
                "escaped", "sink_raised"}
  /\ turn \in 0 .. MaxTurns
  /\ log \in Seq(Events)
  /\ calls \in Nat
  /\ dispatched \in Seq(Operations)

Of(t) == {n \in DOMAIN history : history[n].turn = t}

\* A turn that fails before it dispatched anything leaves no trace in the history,
\* its user's message included (loop.py:60).
FailedTurnRolledBack ==
  ended = "raised" /\ dispatched = <<>> => Of(turn) = {}

\* In the history no user's message is left dangling: whatever failed, in whatever
\* turn, an assistant's entry of the same turn follows it directly (loop.py:62).
NoDanglingRequest ==
  \A n \in DOMAIN history : history[n].role = "user" =>
    /\ n < Len(history)
    /\ history[n + 1].role = "assistant"
    /\ history[n + 1].turn = history[n].turn

\* The history holds whole turns only.
HistoryIsWhole == FailedTurnRolledBack /\ NoDanglingRequest

\* What last_operations and the history say of a turn is what the broker did in it, in
\* order, once the turn has ended in any way but an exception that step() lets through
\* between the dispatch and its record: then the last dispatch alone is missing.
TruthfulReport ==
  LET missing == Len(dispatched) - Len(last_operations)
      inHistory == {n \in Of(turn) : history[n].role = "assistant" /\ history[n].about = "dispatch"}
  IN /\ missing = IF ended = "escaped" THEN 1 ELSE 0
     /\ last_operations = SubSeq(dispatched, 1, Len(last_operations))
     /\ Cardinality(inHistory) \in {Len(last_operations), Len(dispatched)}

\* A turn stops: however the model answers, it is asked at most (S + 1) * (R + 1) times
\* and the broker at most S times.
TurnBounded ==
  /\ Len(dispatched) <= max_operations_per_turn_safety_net
  /\ calls <= (max_operations_per_turn_safety_net + 1) * (max_parse_retries_per_turn + 1)

\* Among any 2N-1 consecutive dispatches of a turn fewer than N are of one signature.
FewRepeats ==
  \A m \in DOMAIN dispatched : \A s \in Signatures :
    Cardinality({n \in DOMAIN dispatched :
      n \in m .. m + window_size - 1 /\ dispatched[n].signature = s}) < repeated_operation_limit

\* N-1 of the last 2N-2 dispatches were of the signature that was requested last.
LastRepeats ==
  Cardinality({n \in DOMAIN dispatched :
    /\ n > Len(dispatched) - (window_size - 1)
    /\ dispatched[n].signature = window[Len(window)]}) >= repeated_operation_limit - 1

\* A mechanical loop is stopped, and a turn is ended as a loop only on occurrences that this
\* very turn dispatched for real (loop.py:392).
LoopsAreDetected == FewRepeats /\ (ended = "loop_detected" => LastRepeats)

\* Nothing is dispatched after an outcome that fails closed, and the turn has raised.
IntegrityEndsTurn ==
  \A n \in DOMAIN dispatched : dispatched[n].category = FailClosed =>
    n = Len(dispatched) /\ ended \in {"raised", "escaped"}

\* loop.py:91: last_operations "reflects every mediated operation that actually
\* happened THIS turn even when the turn ultimately raises".
ReportsEveryOperation ==
  ended # "running" => last_operations = dispatched
=============================================================================
