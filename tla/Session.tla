------------------------------ MODULE Session ------------------------------
(* A session of the reference REPL (examples/repl.py) over one             *)
(* CognitiveLoop: what main() starts, the turns it takes one by one, what  *)
(* it shows the operator of each, and the session log (EventLog) that is   *)
(* both the loop's event sink and main()'s own.  A log that cannot be      *)
(* written raises in emit(), wherever that was called from.                *)
EXTENDS CognitiveLoop

VARIABLES
  repl,     \* where main() is
  session,  \* what main() itself wrote in the session log
  shown     \* what the operator was shown of the latest turn shown

svars == <<vars, repl, session, shown>>

NotShown == [turn |-> 0, error |-> FALSE, operations |-> <<>>]

\* The next event of main() itself, or emit() raises.
Recorded(event) == session' = Append(session, event)
Unrecorded == SinkMayFail /\ UNCHANGED session

-----------------------------------------------------------------------------

\* From the arguments to the prompt: the directory of the log is made, the log opened,
\* "session.started" written.  Whatever of these raises ends the program; without an API
\* key it ends before them.
main_starts ==
  /\ repl = "starting"
  /\ \/ Recorded("session.started") /\ repl' = "prompt"
     \/ Unrecorded /\ repl' = "crashed"
     \/ UNCHANGED session /\ repl' = "exited"
  /\ UNCHANGED <<vars, shown>>

\* input() gave a message that is neither blank nor a farewell.
main_steps ==
  /\ repl = "prompt"
  /\ step
  /\ repl' = "stepping"
  /\ UNCHANGED <<session, shown>>

\* step() goes on.
main_waits ==
  /\ repl = "stepping"
  /\ Proceed
  /\ UNCHANGED <<repl, session, shown>>

Returned == {"returned", "exhausted", "loop_detected"}

\* step() is over by something that is no Exception.
Exits == ended = "escaped" /\ dispatched # <<>> /\ dispatched[Len(dispatched)].category = "exits"

\* render_turn: the final message, then a line for each operation.
render_turn ==
  /\ ended \in Returned
  /\ shown' = [turn |-> turn, error |-> FALSE, operations |-> last_operations]

\* Mutant: the error alone, as it was before V1.1.
render_outcome_error_alone ==
  /\ ended \notin Returned \cup {"running"}
  /\ shown' = [turn |-> turn, error |-> TRUE, operations |-> <<>>]

\* render_outcome_error: what was already dispatched, then the error.
render_outcome_error ==
  /\ ended \notin Returned \cup {"running"}
  /\ shown' = [turn |-> turn, error |-> TRUE, operations |-> last_operations]

\* A turn that returned or raised an Exception is shown; with an exception that is none
\* the program ends without a word in the log.
main_shows ==
  /\ repl = "stepping" /\ ended # "running"
  /\ \/ ~Exits /\ (render_turn \/ render_outcome_error) /\ repl' = "prompt"
     \/ Exits /\ repl' = "crashed" /\ UNCHANGED shown
  /\ UNCHANGED <<vars, session>>

\* Ctrl-D, "exit" or "quit".
main_ends ==
  /\ repl = "prompt"
  /\ \/ Recorded("session.completed") /\ repl' = "exited"
     \/ Unrecorded /\ repl' = "crashed"
  /\ UNCHANGED <<vars, shown>>

\* Ctrl-C at the prompt.  During a turn a KeyboardInterrupt ends the program where it is:
\* that adds no state of the loop or of the log to those it passes through.
interrupted ==
  /\ repl = "prompt"
  /\ repl' = "crashed"
  /\ UNCHANGED <<vars, session, shown>>

SessionInit ==
  /\ Init
  /\ repl = "starting"
  /\ session = <<>>
  /\ shown = NotShown

SessionNext ==
  \/ main_starts
  \/ main_steps
  \/ main_waits
  \/ main_shows
  \/ main_ends
  \/ interrupted

SessionSpec == SessionInit /\ [][SessionNext]_svars

-----------------------------------------------------------------------------
(* Properties.                                                             *)

SessionTypeOK ==
  /\ TypeOK
  /\ repl \in {"starting", "prompt", "stepping", "exited", "crashed"}
  /\ session \in {<<>>, <<"session.started">>, <<"session.started", "session.completed">>}
  /\ shown \in [turn : 0 .. MaxTurns, error : BOOLEAN, operations : Seq(Operations)]

Logged(event) == Cardinality({n \in DOMAIN log : log[n] = event})
Last(event) == log # <<>> /\ log[Len(log)] = event

\* The log is written ahead of every effect: at any instant, and so wherever the program
\* dies, each operation the broker performed was requested in the log before, and only
\* the latest one, when its turn escaped, is without its decision.  A turn has at most one
\* ending there, the last of its events, and it is the true one.
LogAhead ==
  LET endings == Logged("turn.completed") + Logged("turn.failed")
  IN /\ Logged("operation.requested") = Len(dispatched) + Len(request)
     /\ Logged("mediation.decision") \in {Len(dispatched), Len(dispatched) - 1}
     /\ Logged("mediation.decision") < Len(dispatched) => ended = "escaped"
     /\ Logged("operation.result") \in {Logged("mediation.decision"),
                                        Logged("mediation.decision") - 1}
     /\ endings = IF Last("turn.completed") \/ Last("turn.failed") THEN 1 ELSE 0
     /\ Last("turn.completed") <=> ended \in Returned
     /\ Last("turn.failed") => ended = "raised"

\* At the prompt the operator was shown the latest turn, and what it shows agrees with
\* what the log says of the same turn: an error exactly where the log has no completed
\* turn, and every operation that has a result in the log.
OperatorSeesTurn ==
  repl = "prompt" /\ turn > 0 =>
    /\ shown.turn = turn
    /\ shown.error <=> ~Last("turn.completed")
    /\ Len(shown.operations) >= Logged("operation.result")
    /\ shown.operations = SubSeq(dispatched, 1, Len(shown.operations))
=============================================================================
