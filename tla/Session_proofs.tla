--------------------------- MODULE Session_proofs ---------------------------
(* Theorems about the cognitive loop, in any session and outside one, and   *)
(* about a session of the REPL: the loop's history and reports are true,    *)
(* its turns end, its log is ahead of every effect, and the operator is     *)
(* shown what the log says.                                                 *)
EXTENDS Session, SequenceTheorems, FiniteSetTheorems, TLAPS

Limit == max_operations_per_turn_safety_net
Retries == max_parse_retries_per_turn

\* An entry of a running turn has its number.
Begun == ended # "none" => turn > 0

Typed == TypeOK /\ Begun

-----------------------------------------------------------------------------
(* Types.                                                                  *)

\* What the actions append to the history are sequences of entries.
LEMMA EntryTypes ==
  ASSUME turn \in 1 .. MaxTurns, NEW about \in {"malformed", "final", "safety_net", "repeat", "dispatch"}
  PROVE  Exchange(about) \in Seq(Entries) /\ <<Entry("assistant", about)>> \in Seq(Entries)
<1>1. Entry("assistant", about) \in Entries /\ Entry("effect", about) \in Entries
  BY DEF Entry, Entries
<1> QED BY <1>1 DEF Exchange

\* working_history and self.history stay sequences of entries.
LEMMA StageTypes ==
  ASSUME TypeOK, NEW entries \in Seq(Entries), Stage(entries)
  PROVE  history' \in Seq(Entries) /\ staged' \in Seq(Entries) /\ committed' \in BOOLEAN
  BY ConcatProperties DEF Stage, TypeOK

\* So do they when the turn is committed.
LEMMA CommitTypes ==
  ASSUME TypeOK, NEW entries \in Seq(Entries), Commit(entries)
  PROVE  history' \in Seq(Entries) /\ staged' \in Seq(Entries) /\ committed' \in BOOLEAN
<1>1. history \o staged \in Seq(Entries)
  BY ConcatProperties DEF TypeOK
<1>2. (history \o staged) \o entries \in Seq(Entries)
  BY <1>1, ConcatProperties
<1> QED BY <1>2 DEF Commit

\* The log grows by events.
LEMMA PrefixTypes ==
  ASSUME NEW events \in Seq(Events), NEW n \in 0 .. Len(events)
  PROVE  SubSeq(events, 1, n) \in Seq(Events)
  BY SubSeqProperties

\* The log after some of the events of a sequence.
LEMMA EmitTypes ==
  ASSUME TypeOK, NEW events \in Seq(Events), NEW n \in 0 .. Len(events), Emit(events, n)
  PROVE  log' \in Seq(Events)
<1>1. SubSeq(events, 1, n) \in Seq(Events)
  BY PrefixTypes
<1> QED BY <1>1, ConcatProperties DEF Emit, TypeOK

\* The log after all of a first sequence and some of a second.
LEMMA EmitAfter ==
  ASSUME TypeOK, NEW head \in Seq(Events), NEW events \in Seq(Events),
         NEW n \in 0 .. Len(events), Emit(head \o events, Len(head) + n)
  PROVE  log' \in Seq(Events)
<1>1. head \o events \in Seq(Events) /\ Len(head \o events) = Len(head) + Len(events)
  BY ConcatProperties
<1>2. Len(head) \in Nat /\ Len(events) \in Nat
  BY LenProperties
<1>3. Len(head) + n \in 0 .. Len(head \o events)
  BY <1>1, <1>2
<1> QED BY <1>1, <1>3, EmitTypes

\* What a completion is logged with is a sequence of events.
LEMMA ResponseTypes ==
  /\ Cycle \in Seq(Events)
  /\ Response \in Seq(Events)
  /\ Response = Cycle \o <<"model.response">>
  /\ Len(Response) = Len(Cycle) + 1
<1>1. Cycle \in Seq(Events)
  <2>1. <<>> \in Seq(Events) /\ <<"model.continuation">> \in Seq(Events)
    BY DEF Events
  <2> QED BY <2>1 DEF Cycle
<1>2. "model.response" \in Events
  BY DEF Events
<1> QED BY <1>1, <1>2, AppendProperties DEF Response

\* What a sink takes of a sequence of events.
LEMMA TakenTypes ==
  ASSUME NEW events \in Seq(Events)
  PROVE  Taken(events) \subseteq 0 .. Len(events)
  BY LenProperties DEF Taken

\* The window holds signatures, window_size at most.
LEMMA RememberTypes ==
  ASSUME TypeOK, NEW s \in Signatures
  PROVE  Remember(s) \in Seq(Signatures) /\ Len(Remember(s)) <= window_size
<1> DEFINE w == Append(window, s)
<1>1. window_size \in Nat \ {0}
  BY LimitsAssumption DEF window_size
<1>2. w \in Seq(Signatures) /\ Len(w) = Len(window) + 1 /\ w # <<>>
  BY AppendProperties DEF TypeOK
<1>3. Len(window) \in Nat /\ Len(window) <= window_size
  BY LenProperties DEF TypeOK
<1>4. Tail(w) \in Seq(Signatures) /\ Len(Tail(w)) = Len(w) - 1
  BY <1>2, HeadTailProperties
<1> HIDE DEF w
<1>5. Remember(s) = IF Len(w) > window_size THEN Tail(w) ELSE w
  BY DEF Remember, w
<1> QED BY <1>1, <1>2, <1>3, <1>4, <1>5

\* What a turn may end with.
Endings == {"returned", "exhausted", "loop_detected"}

\* A turn that ends in order keeps the types.
LEMMA ReturnTypes ==
  ASSUME Typed, Completes, NEW about \in {"final", "safety_net", "repeat"},
         NEW events \in Seq(Events), NEW how \in Endings, Return(about, events, how),
         window' \in Seq(Signatures), Len(window') <= window_size
  PROVE  Typed'
<1>1. TypeOK /\ turn \in 1 .. MaxTurns
  BY LimitsAssumption DEF Typed, TypeOK, Begun, Completes, Asking
<1>2. Exchange(about) \in Seq(Entries) /\ Commit(Exchange(about))
  BY <1>1, EntryTypes DEF Return
<1>3. history' \in Seq(Entries) /\ staged' \in Seq(Entries) /\ committed' \in BOOLEAN
  BY <1>1, <1>2, CommitTypes
<1>4. PICK n \in Taken(events) :
        /\ Emit(Response \o events, Len(Response) + n)
        /\ ended' = IF n = Len(events) THEN how ELSE "sink_raised"
  BY DEF Return
<1>5. log' \in Seq(Events)
  BY <1>1, <1>4, TakenTypes, ResponseTypes, EmitAfter
<1>6. ended' \in {"returned", "exhausted", "loop_detected", "sink_raised"}
  BY <1>4 DEF Endings
<1>7. failures' = 0 /\ calls' = calls + 1 /\ UNCHANGED <<last_operations, request, turn, dispatched>>
  BY DEF Return, Completes
<1> QED BY <1>1, <1>3, <1>5, <1>6, <1>7, LimitsAssumption DEF Typed, TypeOK, Begun

\* What a dispatch that was committed writes.
LEMMA AccountTypes ==
  ASSUME TypeOK, turn \in 1 .. MaxTurns, NEW category \in Outcomes, NEW operation \in Operations,
         Account(category, operation)
  PROVE  /\ ended' \in {"escaped", "raised", "running"} /\ last_operations' \in Seq(Operations)
         /\ history' \in Seq(Entries) /\ staged' \in Seq(Entries) /\ committed' \in BOOLEAN
         /\ log' \in Seq(Events)
<1> DEFINE failing == category \notin Recoverable
           events == <<"mediation.decision", "operation.result">> \o
                     (IF failing THEN <<"turn.failed">> ELSE <<>>)
<1>1. events \in Seq(Events)
  <2>1. /\ <<"mediation.decision", "operation.result">> \in Seq(Events)
        /\ <<"turn.failed">> \in Seq(Events) /\ <<>> \in Seq(Events)
    BY DEF Events
  <2> QED BY <2>1, ConcatProperties
<1>2. PICK n \in Taken(events) :
        LET recorded == IF failing THEN n > 0 ELSE n = Len(events)
        IN /\ Emit(events, n)
           /\ Commit(IF recorded /\ ~failing THEN Exchange("dispatch")
                                             ELSE <<Entry("assistant", "dispatch")>>)
           /\ last_operations' = IF recorded THEN Append(last_operations, operation)
                                             ELSE last_operations
           /\ ended' = IF ~recorded THEN "escaped" ELSE IF failing THEN "raised" ELSE "running"
  BY DEF Account
<1> HIDE DEF events, failing
<1>3. n \in 0 .. Len(events)
  BY <1>1, TakenTypes
<1>4. log' \in Seq(Events)
  BY <1>1, <1>2, <1>3, EmitTypes
<1>5. last_operations' \in Seq(Operations)
  BY <1>2, AppendProperties DEF TypeOK
<1>6. history' \in Seq(Entries) /\ staged' \in Seq(Entries) /\ committed' \in BOOLEAN
  <2>1. Exchange("dispatch") \in Seq(Entries) /\ <<Entry("assistant", "dispatch")>> \in Seq(Entries)
    BY EntryTypes
  <2> QED BY <1>2, <2>1, CommitTypes
<1>7. ended' \in {"escaped", "raised", "running"}
  BY <1>2
<1> QED BY <1>4, <1>5, <1>6, <1>7

\* Every step keeps the types.
LEMMA TypeStep ==
  ASSUME Typed, Next
  PROVE  Typed'
<1>0. TypeOK /\ (ended # "none" => turn \in 1 .. MaxTurns) /\ MaxTurns \in Nat /\ Retries \in Nat
  BY LimitsAssumption DEF Typed, TypeOK, Begun, Retries
<1>1. CASE step
  <2>1. turn + 1 \in 1 .. MaxTurns /\ turn' = turn + 1
    BY <1>0, <1>1 DEF step, Start, TypeOK
  <2>2. Asked \in Entries
    BY <2>1 DEF Asked, Entries
  <2>3. staged' \in Seq(Entries) /\ UNCHANGED history
    BY <1>1, <2>2 DEF step
  <2>4. log' \in Seq(Events) /\ ended' \in {"running", "raised"}
    <3>1. <<"user.message">> \in Seq(Events)
      BY DEF Events
    <3>2. PICK n \in Taken(<<"user.message">>) :
            /\ log' = SubSeq(<<"user.message">>, 1, n)
            /\ ended' = IF n = 1 THEN "running" ELSE "raised"
      BY <1>1 DEF step, Start
    <3>3. n \in 0 .. Len(<<"user.message">>)
      BY <3>1, TakenTypes
    <3>4. SubSeq(<<"user.message">>, 1, n) \in Seq(Events)
      BY <3>1, <3>3, PrefixTypes
    <3> QED BY <3>2, <3>4
  <2>5. /\ committed' = FALSE /\ failures' = 0 /\ request' = NoRequest /\ calls' = 0
        /\ dispatched' = <<>> /\ last_operations' = <<>> /\ window' = <<>>
    BY <1>1 DEF step, Start
  <2>6. Len(window') <= window_size /\ failures' \in 0 .. Retries
    BY <1>0, <2>5, LimitsAssumption DEF window_size
  <2>7. /\ last_operations' \in Seq(Operations) /\ dispatched' \in Seq(Operations)
        /\ window' \in Seq(Signatures) /\ calls' \in Nat /\ committed' \in BOOLEAN
    <3>1. <<>> \in Seq(Operations) /\ <<>> \in Seq(Signatures)
      BY EmptySeq
    <3> QED BY <2>5, <3>1
  <2>8. turn' \in 0 .. MaxTurns /\ turn' > 0
    BY <1>0, <2>1
  <2> QED BY <1>0, <2>3, <2>4, <2>5, <2>6, <2>7, <2>8 DEF Typed, TypeOK, Begun, Retries
<1>2. CASE continuation_unrecorded
  BY <1>0, <1>2 DEF continuation_unrecorded, Typed, TypeOK, Begun, Asking
<1>3. CASE complete_raises
  <2>1. <<"model.failure", "turn.failed">> \in Seq(Events)
    BY DEF Events
  <2>2. PICK n \in Taken(<<"model.failure", "turn.failed">>) :
          Emit(Cycle \o <<"model.failure", "turn.failed">>, Len(Cycle) + n)
    BY <1>3 DEF complete_raises
  <2>3. log' \in Seq(Events)
    BY <1>0, <2>1, <2>2, TakenTypes, ResponseTypes, EmitAfter
  <2> QED BY <1>0, <1>3, <2>3 DEF complete_raises, Completes, Typed, TypeOK, Begun, Asking
<1>4. CASE parse_raises
  <2>1. log' \in Seq(Events)
    <3>1. Len(Cycle) \in 0 .. Len(Response) /\ Len(Response) \in 0 .. Len(Response)
      BY ResponseTypes, LenProperties
    <3> QED BY <1>0, <1>4, <3>1, ResponseTypes, EmitTypes DEF parse_raises
  <2> QED BY <1>0, <1>4, <2>1 DEF parse_raises, Completes, Typed, TypeOK, Begun, Asking
<1>5. CASE malformed
  <2>1. turn \in 1 .. MaxTurns
    BY <1>0, <1>5 DEF malformed, Completes, Asking
  <2>2. history' \in Seq(Entries) /\ staged' \in Seq(Entries) /\ committed' \in BOOLEAN
    <3>1. Exchange("malformed") \in Seq(Entries) /\ <<Entry("assistant", "malformed")>> \in Seq(Entries)
      BY <2>1, EntryTypes
    <3>2. \/ Stage(Exchange("malformed")) \/ Stage(<<Entry("assistant", "malformed")>>)
          \/ UNCHANGED <<history, staged, committed>>
      BY <1>5 DEF malformed
    <3> QED BY <1>0, <3>1, <3>2, StageTypes DEF TypeOK
  <2>3. log' \in Seq(Events)
    <3>1. <<"model.failure">> \in Seq(Events) /\ <<"model.failure", "turn.failed">> \in Seq(Events)
          /\ <<"turn.failed">> \in Seq(Events) /\ "model.failure" \in Events
      BY DEF Events
    <3>2. Append(Response, "model.failure") \in Seq(Events)
          /\ Len(Response) + 1 \in 0 .. Len(Append(Response, "model.failure"))
          /\ Len(Response) \in 0 .. Len(Response)
      BY <3>1, ResponseTypes, AppendProperties, LenProperties
    <3>3. CASE Emit(Append(Response, "model.failure"), Len(Response) + 1)
      BY <1>0, <3>2, <3>3, EmitTypes
    <3>4. CASE \E n \in Taken(<<"turn.failed">>) :
                 Emit(Response \o <<"model.failure", "turn.failed">>, Len(Response) + 1 + n)
      <4>1. PICK n \in 0 .. 1 :
              Emit(Response \o <<"model.failure", "turn.failed">>, Len(Response) + 1 + n)
        BY <3>1, <3>4, TakenTypes
      <4>2. Len(Response) + 1 + n = Len(Response) + (n + 1) /\ n + 1 \in 0 .. 2
        BY <3>2
      <4> QED BY <1>0, <3>1, <4>1, <4>2, ResponseTypes, EmitAfter
    <3>5. CASE Emit(Response, Len(Response))
      BY <1>0, <3>2, <3>5, ResponseTypes, EmitTypes
    <3> QED BY <1>5, <3>3, <3>4, <3>5 DEF malformed
  <2>4. failures' \in 0 .. Retries
    BY <1>0, <1>5 DEF malformed, RetryLeft, TypeOK, Retries
  <2>5. ended' \in {"running", "raised"} /\ calls' = calls + 1
        /\ UNCHANGED <<last_operations, window, request, turn, dispatched>>
    BY <1>5 DEF malformed, Completes, Asking
  <2> QED BY <1>0, <2>1, <2>2, <2>3, <2>4, <2>5 DEF Typed, TypeOK, Begun, Retries
<1>6. CASE final_message
  <2>1. <<"turn.completed">> \in Seq(Events) /\ "returned" \in Endings
    BY DEF Events, Endings
  <2>2. Completes /\ Return("final", <<"turn.completed">>, "returned") /\ window' = window
    BY <1>6 DEF final_message
  <2> QED BY <1>0, <2>1, <2>2, ReturnTypes DEF TypeOK
<1>7. CASE final_work_order
  <2>1. PICK status \in Statuses :
          Return("final", <<IF status = "final" THEN "work_order.finalized"
                                                ELSE "work_order.draft", "turn.completed">>,
                 "returned")
    BY <1>7 DEF final_work_order
  <2>2. <<IF status = "final" THEN "work_order.finalized"
                              ELSE "work_order.draft", "turn.completed">> \in Seq(Events)
        /\ "returned" \in Endings
    BY DEF Events, Endings
  <2>3. Completes /\ window' = window
    BY <1>7 DEF final_work_order
  <2> QED BY <1>0, <2>1, <2>2, <2>3, ReturnTypes DEF TypeOK
<1>8. CASE safety_net
  <2>1. <<"turn.completed">> \in Seq(Events) /\ "exhausted" \in Endings
    BY DEF Events, Endings
  <2>2. Completes /\ Return("safety_net", <<"turn.completed">>, "exhausted") /\ window' = window
    BY <1>8 DEF safety_net
  <2> QED BY <1>0, <2>1, <2>2, ReturnTypes DEF TypeOK
<1>9. ASSUME NEW s \in Signatures, repeated_operation(s)  PROVE Typed'
  <2>1. <<"turn.completed">> \in Seq(Events) /\ "loop_detected" \in Endings
    BY DEF Events, Endings
  <2>2. window' \in Seq(Signatures) /\ Len(window') <= window_size
    BY <1>0, <1>9, RememberTypes DEF repeated_operation
  <2>3. Completes /\ Return("repeat", <<"turn.completed">>, "loop_detected")
    BY <1>9 DEF repeated_operation
  <2> QED BY <2>1, <2>2, <2>3, ReturnTypes
<1>10. ASSUME NEW s \in Signatures, request_operation(s)  PROVE Typed'
  <2>1. window' \in Seq(Signatures) /\ Len(window') <= window_size
    BY <1>0, <1>10, RememberTypes DEF request_operation
  <2>2. "operation.requested" \in Events /\ <<"operation.requested">> \in Seq(Events)
    BY DEF Events
  <2>3. PICK n \in 0 .. 1 :
          /\ Emit(Append(Response, "operation.requested"), Len(Response) + n)
          /\ request' = IF n = 1 THEN <<s>> ELSE NoRequest
          /\ ended' = IF n = 1 THEN "running" ELSE "raised"
    BY <1>10, <2>2, TakenTypes DEF request_operation
  <2>4. log' \in Seq(Events)
    <3>1. Append(Response, "operation.requested") \in Seq(Events)
          /\ Len(Response) + n \in 0 .. Len(Append(Response, "operation.requested"))
      BY <2>2, ResponseTypes, AppendProperties, LenProperties
    <3> QED BY <1>0, <2>3, <3>1, EmitTypes
  <2>5. /\ failures' = 0 /\ calls' = calls + 1 /\ ended # "none"
        /\ UNCHANGED <<history, staged, committed, last_operations, turn, dispatched>>
    BY <1>10 DEF request_operation, Completes, Asking
  <2>6. request' \in {NoRequest} \cup {<<t>> : t \in Signatures}
    BY <2>3
  <2> QED BY <1>0, <2>1, <2>3, <2>4, <2>5, <2>6 DEF Typed, TypeOK, Begun, Retries
<1>11. ASSUME NEW category \in Outcomes, dispatch(category)  PROVE Typed'
  <2> DEFINE operation == [signature |-> request[1], category |-> category]
  <2>1. operation \in Operations
    BY <1>0, <1>11 DEF dispatch, Dispatching, TypeOK, NoRequest, Operations
  <2>2. turn \in 1 .. MaxTurns
    BY <1>0, <1>11 DEF dispatch, Dispatching
  <2>3. /\ dispatched' = Append(dispatched, operation) /\ request' = NoRequest
        /\ UNCHANGED <<failures, window, turn, calls>>
    BY <1>11 DEF dispatch
  <2>4. dispatched' \in Seq(Operations)
    BY <1>0, <2>1, <2>3, AppendProperties DEF TypeOK
  <2> HIDE DEF operation
  <2>5. CASE category \in Uncaught
    <3>1. ended' = "escaped" /\ UNCHANGED <<history, staged, committed, last_operations, log>>
      BY <1>11, <2>5 DEF dispatch
    <3> QED BY <1>0, <2>2, <2>3, <2>4, <3>1 DEF Typed, TypeOK, Begun, Retries
  <2>6. CASE Account(category, operation)
    <3>1. ended' \in {"escaped", "raised", "running"} /\ last_operations' \in Seq(Operations)
          /\ history' \in Seq(Entries) /\ staged' \in Seq(Entries) /\ committed' \in BOOLEAN
          /\ log' \in Seq(Events)
      BY <1>0, <2>1, <2>2, <2>6, AccountTypes
    <3> QED BY <1>0, <2>2, <2>3, <2>4, <3>1 DEF Typed, TypeOK, Begun, Retries
  <2> QED BY <1>11, <2>5, <2>6 DEF dispatch, operation
<1> QED BY <1>1, <1>2, <1>3, <1>4, <1>5, <1>6, <1>7, <1>8, <1>9, <1>10, <1>11 DEF Next, Proceed

-----------------------------------------------------------------------------
(* What a step does to everything but the log.                             *)

KeepsHistory == UNCHANGED <<history, staged, committed>>
KeepsReport == UNCHANGED <<last_operations, dispatched, turn>>

\* The turn raises, with nothing recorded but the end of a malformed completion.
Raises ==
  /\ ended' = "raised" /\ request' = NoRequest
  /\ KeepsHistory \/ Stage(<<Entry("assistant", "malformed")>>)

\* One more try after a malformed completion.
Retried ==
  /\ ended' = "running" /\ request' = NoRequest
  /\ RetryLeft /\ failures' = failures + 1
  /\ Stage(Exchange("malformed"))
  /\ window' = window

\* The turn ends in order.
Returns ==
  /\ ended' \in Endings \cup {"sink_raised"} /\ request' = NoRequest
  /\ \E about \in {"final", "safety_net", "repeat"} : Commit(Exchange(about))
  /\ \/ ended' # "loop_detected"
     \/ \E s \in Signatures : Repeats(s) /\ window' = Remember(s)

\* An operation is requested.
Requests ==
  /\ ended' = "running"
  /\ \E s \in Signatures :
       /\ ~ AtSafetyNet /\ ~ Repeats(s)
       /\ window' = Remember(s) /\ request' = <<s>>
  /\ failures' = 0
  /\ KeepsHistory

\* The steps that ask the model, and what they may come to.
LEMMA AskStep ==
  ASSUME Typed, Proceed, \A category \in Outcomes : ~ dispatch(category)
  PROVE  /\ Asking /\ KeepsReport /\ calls' \in {calls, calls + 1}
         /\ Raises \/ Retried \/ Returns \/ Requests
<1> USE DEF Completes, Asking, KeepsReport, KeepsHistory
<1>1. CASE continuation_unrecorded
  BY <1>1 DEF continuation_unrecorded, Raises
<1>2. CASE complete_raises
  BY <1>2 DEF complete_raises, Raises
<1>3. CASE parse_raises
  BY <1>3 DEF parse_raises, Raises
<1>4. CASE malformed
  BY <1>4 DEF malformed, Raises, Retried
<1>5. CASE final_message
  <2>1. ended' \in {"returned", "sink_raised"}
    BY <1>5 DEF final_message, Return
  <2> QED BY <1>5, <2>1 DEF final_message, Return, Returns, Endings
<1>6. CASE final_work_order
  <2>1. ended' \in {"returned", "sink_raised"}
    BY <1>6 DEF final_work_order, Return
  <2> QED BY <1>6, <2>1 DEF final_work_order, Return, Returns, Endings
<1>7. CASE safety_net
  <2>1. ended' \in {"exhausted", "sink_raised"}
    BY <1>7 DEF safety_net, Return
  <2> QED BY <1>7, <2>1 DEF safety_net, Return, Returns, Endings
<1>8. ASSUME NEW s \in Signatures, repeated_operation(s)
      PROVE  /\ Asking /\ KeepsReport /\ calls' \in {calls, calls + 1}
             /\ Returns
  <2>1. ended' \in {"loop_detected", "sink_raised"}
    BY <1>8 DEF repeated_operation, Return
  <2> QED BY <1>8, <2>1 DEF repeated_operation, Return, Returns, Endings
<1>9. ASSUME NEW s \in Signatures, request_operation(s)
      PROVE  /\ Asking /\ KeepsReport /\ calls' \in {calls, calls + 1}
             /\ Raises \/ Requests
  <2>1. PICK n \in Taken(<<"operation.requested">>) :
          /\ request' = IF n = 1 THEN <<s>> ELSE NoRequest
          /\ ended' = IF n = 1 THEN "running" ELSE "raised"
    BY <1>9 DEF request_operation
  <2>2. CASE n = 1
    BY <1>9, <2>1, <2>2 DEF request_operation, Requests
  <2>3. CASE n # 1
    BY <1>9, <2>1, <2>3 DEF request_operation, Raises
  <2> QED BY <2>2, <2>3
<1> QED BY <1>1, <1>2, <1>3, <1>4, <1>5, <1>6, <1>7, <1>8, <1>9 DEF Proceed

\* What a dispatch comes to: an operation that is reported to nobody, one that fails closed,
\* or one that the turn goes on from.
Unreported ==
  /\ ended' = "escaped" /\ last_operations' = last_operations
  /\ KeepsHistory \/ Commit(<<Entry("assistant", "dispatch")>>)
Fails(operation) ==
  /\ operation.category = FailClosed
  /\ ended' = "raised" /\ last_operations' = Append(last_operations, operation)
  /\ Commit(<<Entry("assistant", "dispatch")>>)
Continues(operation) ==
  /\ operation.category \in Recoverable
  /\ ended' = "running" /\ last_operations' = Append(last_operations, operation)
  /\ Commit(Exchange("dispatch"))

\* Every dispatch comes to one of these.
LEMMA DispatchStep ==
  ASSUME Typed, NEW category \in Outcomes, dispatch(category)
  PROVE  /\ Dispatching /\ request' = NoRequest
         /\ UNCHANGED <<failures, window, turn, calls>>
         /\ \E operation \in Operations :
              /\ operation.signature = request[1]
              /\ dispatched' = Append(dispatched, operation)
              /\ Unreported \/ Fails(operation) \/ Continues(operation)
<1> DEFINE operation == [signature |-> request[1], category |-> category]
<1>1. operation \in Operations /\ operation.signature = request[1] /\ operation.category = category
  BY DEF dispatch, Dispatching, Typed, TypeOK, NoRequest, Operations
<1>2. /\ Dispatching /\ request' = NoRequest
      /\ UNCHANGED <<failures, window, turn, calls>>
      /\ dispatched' = Append(dispatched, operation)
  BY DEF dispatch
<1>3. CASE category \in Uncaught
  <2>1. Unreported
    BY <1>3 DEF dispatch, Unreported, KeepsHistory
  <2> QED BY <1>1, <1>2, <2>1
<1>4. CASE category \notin Uncaught
  <2> DEFINE failing == category \notin Recoverable
             events == <<"mediation.decision", "operation.result">> \o
                       (IF failing THEN <<"turn.failed">> ELSE <<>>)
             recorded(n) == IF failing THEN n > 0 ELSE n = Len(events)
  <2>1. PICK n \in Taken(events) :
          /\ Commit(IF recorded(n) /\ ~failing THEN Exchange("dispatch")
                                               ELSE <<Entry("assistant", "dispatch")>>)
          /\ last_operations' = IF recorded(n) THEN Append(last_operations, operation)
                                               ELSE last_operations
          /\ ended' = IF ~recorded(n) THEN "escaped" ELSE IF failing THEN "raised" ELSE "running"
    BY <1>4 DEF dispatch, Account
  <2>2. IF failing THEN category = FailClosed ELSE category \in Recoverable
    BY <1>4 DEF Outcomes
  <2> HIDE DEF failing, events, recorded, operation
  <2>3. CASE ~ recorded(n)
    <3>1. ended' = "escaped" /\ last_operations' = last_operations
      BY <2>1, <2>3
    <3>2. Commit(<<Entry("assistant", "dispatch")>>)
      BY <2>1, <2>3
    <3> QED BY <1>1, <1>2, <3>1, <3>2 DEF Unreported
  <2>4. CASE recorded(n) /\ failing
    BY <1>1, <1>2, <2>1, <2>2, <2>4 DEF Fails
  <2>5. CASE recorded(n) /\ ~ failing
    BY <1>1, <1>2, <2>1, <2>2, <2>5 DEF Continues
  <2> QED BY <2>3, <2>4, <2>5
<1> QED BY <1>3, <1>4

\* A step of a turn begins the turn, asks the model or dispatches.
LEMMA Steps ==
  ASSUME Typed, Next
  PROVE  \/ step
         \/ /\ Asking /\ KeepsReport /\ calls' \in {calls, calls + 1}
            /\ Raises \/ Retried \/ Returns \/ Requests
         \/ /\ Dispatching /\ request' = NoRequest
            /\ UNCHANGED <<failures, window, turn, calls>>
            /\ \E operation \in Operations :
                 /\ operation.signature = request[1]
                 /\ dispatched' = Append(dispatched, operation)
                 /\ Unreported \/ Fails(operation) \/ Continues(operation)
<1>1. CASE \E category \in Outcomes : dispatch(category)
  BY <1>1, DispatchStep
<1>2. CASE Proceed /\ \A category \in Outcomes : ~ dispatch(category)
  BY <1>2, AskStep
<1> QED BY <1>1, <1>2 DEF Next

-----------------------------------------------------------------------------
(* The report.                                                             *)

\* last_operations is what was dispatched, but for the operation the turn escaped in.
Reports ==
  IF ended = "escaped"
    THEN \E operation \in Operations : dispatched = Append(last_operations, operation)
    ELSE dispatched = last_operations

\* Every step keeps it.
LEMMA ReportsStep ==
  ASSUME Typed, Reports, Next
  PROVE  Reports'
<1>1. CASE step
  BY <1>1 DEF step, Start, Reports
<1>2. CASE Asking /\ KeepsReport /\ (Raises \/ Retried \/ Returns \/ Requests)
  BY <1>2 DEF Asking, KeepsReport, Raises, Retried, Returns, Requests, Endings, Reports
<1>3. ASSUME Dispatching, NEW operation \in Operations,
             dispatched' = Append(dispatched, operation),
             Unreported \/ Fails(operation) \/ Continues(operation)
      PROVE  Reports'
  BY <1>3 DEF Dispatching, Unreported, Fails, Continues, Reports
<1> QED BY <1>1, <1>2, <1>3, Steps

-----------------------------------------------------------------------------
(* The bounds of a turn.                                                   *)

\* The completions a turn may have asked for, of n operations and some failures in a row.
Budget ==
  /\ Len(dispatched) <= Limit
  /\ Dispatching => Len(dispatched) < Limit
  /\ Asking => calls <= Len(dispatched) * (Retries + 1) + failures
  /\ Dispatching => calls <= (Len(dispatched) + 1) * (Retries + 1)
  /\ calls <= (Limit + 1) * (Retries + 1)

\* The order of the multiples of a limit.
LEMMA Multiples ==
  ASSUME NEW m \in Nat, NEW n \in Nat, NEW k \in Nat, m <= n
  PROVE  /\ m * k <= n * k /\ (m + 1) * k = m * k + k
         /\ m * k \in Nat /\ n * k \in Nat
  BY Z3

\* Every step keeps the budget.
LEMMA BudgetStep ==
  ASSUME Typed, Reports, Budget, Next
  PROVE  Budget'
<1> DEFINE share == Retries + 1
           used == Len(dispatched)
<1>0. /\ Limit \in Nat /\ Retries \in Nat /\ share \in Nat /\ calls \in Nat
      /\ failures \in 0 .. Retries /\ used \in Nat /\ dispatched \in Seq(Operations)
  BY LimitsAssumption, LenProperties DEF Typed, TypeOK, Limit, Retries
<1>1. CASE step
  <2>1. /\ dispatched' = <<>> /\ calls' = 0 /\ request' = NoRequest /\ failures' = 0
        /\ ended' \in {"running", "raised"}
    BY <1>1 DEF step, Start
  <2>2. (Limit + 1) * share \in Nat /\ 0 * share = 0
    BY <1>0, Multiples
  <2> QED BY <1>0, <2>1, <2>2 DEF Budget, Asking, Dispatching, NoRequest
<1>2. CASE /\ Asking /\ KeepsReport /\ calls' \in {calls, calls + 1}
           /\ Raises \/ Retried \/ Returns \/ Requests
  <2>1. /\ used <= Limit /\ dispatched' = dispatched
        /\ calls <= used * share + failures
    BY <1>2 DEF Budget, KeepsReport
  <2>2. /\ (used + 1) * share = used * share + share
        /\ (used + 1) * share <= (Limit + 1) * share
        /\ used * share \in Nat /\ (Limit + 1) * share \in Nat
    BY <1>0, <2>1, Multiples
  <2>3. calls' <= used * share + failures + 1 /\ calls' <= (Limit + 1) * share
    BY <1>0, <1>2, <2>1, <2>2
  <2>4. CASE Raises \/ Returns
    <3>1. ended' # "running"
      BY <2>4 DEF Raises, Returns, Endings
    <3> QED BY <2>1, <2>3, <3>1 DEF Budget, Asking, Dispatching
  <2>5. CASE Retried
    <3>1. request' = NoRequest /\ failures' = failures + 1
      BY <2>5 DEF Retried
    <3>2. calls' <= used * share + failures'
      BY <1>0, <2>2, <2>3, <3>1, <1>2
    <3> QED BY <2>1, <2>3, <3>1, <3>2 DEF Budget, Asking, Dispatching
  <2>6. CASE Requests
    <3>1. request' # NoRequest
      BY <2>6 DEF Requests, NoRequest
    <3>2. used < Limit
      BY <1>0, <1>2, <2>6 DEF Requests, AtSafetyNet, Reports, Asking, Limit
    <3>3. calls' <= (used + 1) * share
      BY <1>0, <1>2, <2>1, <2>2, <2>3
    <3> QED BY <2>1, <2>3, <3>1, <3>2, <3>3 DEF Budget, Asking, Dispatching
  <2> QED BY <1>2, <2>4, <2>5, <2>6
<1>3. ASSUME Dispatching, request' = NoRequest, UNCHANGED <<failures, window, turn, calls>>,
             NEW operation \in Operations, dispatched' = Append(dispatched, operation)
      PROVE  Budget'
  <2>1. Len(dispatched') = used + 1
    BY <1>0, <1>3, AppendProperties
  <2>2. used < Limit /\ calls <= (used + 1) * share /\ calls <= (Limit + 1) * share
    BY <1>3 DEF Budget
  <2>3. (used + 1) * share \in Nat
    BY <1>0, Multiples
  <2>4. calls' <= Len(dispatched') * share + failures'
    BY <1>0, <1>3, <2>1, <2>2, <2>3
  <2> QED BY <1>0, <1>3, <2>1, <2>2, <2>4 DEF Budget, Asking, Dispatching
<1> QED BY <1>1, <1>2, <1>3, Steps

-----------------------------------------------------------------------------
(* Outcomes that fail closed.                                              *)

\* A turn that goes on has met none.
NoneFailed ==
  /\ IntegrityEndsTurn
  /\ ended = "running" =>
       \A n \in DOMAIN dispatched : dispatched[n].category # FailClosed

\* Every step keeps it.
LEMMA NoneFailedStep ==
  ASSUME Typed, NoneFailed, Next
  PROVE  NoneFailed'
<1>1. CASE step
  BY <1>1 DEF step, Start, NoneFailed, IntegrityEndsTurn
<1>2. CASE Asking /\ KeepsReport
  BY <1>2 DEF Asking, KeepsReport, NoneFailed, IntegrityEndsTurn
<1>3. ASSUME Dispatching, NEW operation \in Operations,
             dispatched' = Append(dispatched, operation),
             Unreported \/ Fails(operation) \/ Continues(operation)
      PROVE  NoneFailed'
  <2>1. /\ Len(dispatched') = Len(dispatched) + 1 /\ DOMAIN dispatched' = 1 .. Len(dispatched')
        /\ dispatched'[Len(dispatched')] = operation
        /\ \A n \in 1 .. Len(dispatched) : dispatched'[n] = dispatched[n]
        /\ DOMAIN dispatched = 1 .. Len(dispatched) /\ Len(dispatched) \in Nat
    BY <1>3, AppendProperties, LenProperties DEF Typed, TypeOK
  <2>2. \A n \in DOMAIN dispatched' : dispatched'[n].category = FailClosed => n = Len(dispatched')
    BY <1>3, <2>1 DEF NoneFailed, Dispatching
  <2>3. CASE Unreported \/ Fails(operation)
    BY <2>2, <2>3 DEF Unreported, Fails, NoneFailed, IntegrityEndsTurn
  <2>4. CASE Continues(operation)
    <3>1. operation.category # FailClosed
      BY <2>4 DEF Continues, Recoverable, FailClosed
    <3> QED BY <2>1, <2>2, <3>1 DEF NoneFailed, IntegrityEndsTurn
  <2> QED BY <1>3, <2>3, <2>4
<1> QED BY <1>1, <1>2, <1>3, Steps

-----------------------------------------------------------------------------
(* The history.                                                            *)

\* A conversation without a dangling request: NoDanglingRequest of any sequence.
Whole(s) ==
  \A n \in DOMAIN s : s[n].role = "user" =>
    /\ n < Len(s)
    /\ s[n + 1].role = "assistant"
    /\ s[n + 1].turn = s[n].turn

\* Entries of turn k that answer: an assistant's first, none of the user's.
Answers(s, k) ==
  /\ s \in Seq(Entries) /\ s # <<>>
  /\ s[1].role = "assistant"
  /\ \A n \in DOMAIN s : s[n].role # "user" /\ s[n].turn = k

\* What turn k stages: its request, and the answers after it; no dispatch among them.
Opens(s, k) ==
  /\ s \in Seq(Entries) /\ s # <<>>
  /\ Len(s) > 1 => s[2].role = "assistant"
  /\ \A n \in DOMAIN s : /\ s[n].turn = k /\ s[n].about # "dispatch"
                         /\ s[n].role = "user" => n = 1

\* The elements of a concatenation.
LEMMA Concatenation ==
  ASSUME NEW s \in Seq(Entries), NEW t \in Seq(Entries)
  PROVE  /\ s \o t \in Seq(Entries) /\ Len(s \o t) = Len(s) + Len(t)
         /\ DOMAIN s = 1 .. Len(s) /\ DOMAIN t = 1 .. Len(t)
         /\ DOMAIN (s \o t) = 1 .. Len(s) + Len(t)
         /\ Len(s) \in Nat /\ Len(t) \in Nat
         /\ \A n \in 1 .. Len(s) : (s \o t)[n] = s[n]
         /\ \A n \in 1 .. Len(t) : (s \o t)[Len(s) + n] = t[n]
         /\ \A n \in 1 .. Len(s) + Len(t) : n > Len(s) => n - Len(s) \in 1 .. Len(t) /\ (s \o t)[n] = t[n - Len(s)]
<1>1. /\ s \o t \in Seq(Entries) /\ Len(s \o t) = Len(s) + Len(t)
      /\ Len(s) \in Nat /\ Len(t) \in Nat
      /\ DOMAIN s = 1 .. Len(s) /\ DOMAIN t = 1 .. Len(t)
      /\ DOMAIN (s \o t) = 1 .. Len(s) + Len(t)
  BY ConcatProperties, LenProperties
<1>2. \A n \in 1 .. Len(s) + Len(t) : (s \o t)[n] = IF n <= Len(s) THEN s[n] ELSE t[n - Len(s)]
  BY ConcatProperties
<1> QED BY <1>1, <1>2

\* Whole conversations in a row are one.
LEMMA WholeConcatenation ==
  ASSUME NEW s \in Seq(Entries), NEW t \in Seq(Entries), Whole(s), Whole(t)
  PROVE  Whole(s \o t)
<1>0. s \o t \in Seq(Entries)
  BY Concatenation
<1> SUFFICES ASSUME NEW n \in 1 .. Len(s) + Len(t), (s \o t)[n].role = "user"
             PROVE  /\ n < Len(s) + Len(t)
                    /\ (s \o t)[n + 1].role = "assistant"
                    /\ (s \o t)[n + 1].turn = (s \o t)[n].turn
  BY Concatenation DEF Whole
<1>1. CASE n <= Len(s)
  <2>1. n \in DOMAIN s /\ (s \o t)[n] = s[n]
    BY <1>1, Concatenation
  <2>2. n < Len(s) /\ s[n + 1].role = "assistant" /\ s[n + 1].turn = s[n].turn
    BY <2>1 DEF Whole
  <2>3. n + 1 \in 1 .. Len(s)
    BY <2>2, Concatenation
  <2>4. (s \o t)[n + 1] = s[n + 1]
    BY <2>3, Concatenation
  <2> QED BY <2>1, <2>2, <2>4, Concatenation
<1>2. CASE n > Len(s)
  <2> DEFINE k == n - Len(s)
  <2>1. k \in DOMAIN t /\ (s \o t)[n] = t[k]
    BY <1>2, Concatenation
  <2>2. k < Len(t) /\ t[k + 1].role = "assistant" /\ t[k + 1].turn = t[k].turn
    BY <2>1 DEF Whole
  <2>3. n + 1 \in 1 .. Len(s) + Len(t) /\ n + 1 > Len(s) /\ (n + 1) - Len(s) = k + 1
    BY <1>2, <2>2, Concatenation
  <2>4. (s \o t)[n + 1] = t[k + 1]
    BY <2>3, Concatenation
  <2> QED BY <2>1, <2>2, <2>3, <2>4, Concatenation
<1>3. n <= Len(s) \/ n > Len(s)
  BY Concatenation
<1> QED BY <1>1, <1>2, <1>3

\* The second entry of a request with its answers is an assistant's.
LEMMA SecondEntry ==
  ASSUME NEW s, NEW t, NEW k, Opens(s, k), Answers(t, k)
  PROVE  /\ s \in Seq(Entries) /\ t \in Seq(Entries) /\ Len(s) \in Nat /\ Len(t) \in Nat
         /\ Len(s) > 0 /\ Len(t) > 0
         /\ (s \o t)[2].role = "assistant"
<1>1. s \in Seq(Entries) /\ t \in Seq(Entries) /\ Len(s) \in Nat /\ Len(t) \in Nat
      /\ Len(s) > 0 /\ Len(t) > 0
  BY LenProperties, EmptySeq DEF Opens, Answers
<1>2. CASE Len(s) > 1
  <2>1. 2 \in 1 .. Len(s)
    BY <1>1, <1>2
  <2>2. (s \o t)[2] = s[2]
    BY <1>1, <2>1, Concatenation
  <2> QED BY <1>1, <1>2, <2>2 DEF Opens
<1>3. CASE ~ (Len(s) > 1)
  <2>1. 1 \in 1 .. Len(t) /\ Len(s) + 1 = 2
    BY <1>1, <1>3
  <2>2. (s \o t)[Len(s) + 1] = t[1]
    BY <1>1, <2>1, Concatenation
  <2> QED BY <1>1, <2>1, <2>2 DEF Answers
<1> QED BY <1>2, <1>3

\* A request with its answers is whole, and more answers may follow it.
LEMMA AnsweredTurn ==
  ASSUME NEW s, NEW t, NEW k, Opens(s, k), Answers(t, k)
  PROVE  Whole(s \o t) /\ \A n \in DOMAIN (s \o t) : (s \o t)[n].turn = k
<1>1. s \in Seq(Entries) /\ t \in Seq(Entries) /\ Len(s) \in Nat /\ Len(t) \in Nat
      /\ Len(s) > 0 /\ Len(t) > 0
  BY SecondEntry
<1>2. \A n \in DOMAIN (s \o t) : (s \o t)[n].turn = k /\ ((s \o t)[n].role = "user" => n = 1)
  BY <1>1, Concatenation DEF Opens, Answers
<1>3. (s \o t)[2].role = "assistant"
  BY SecondEntry
<1>4. DOMAIN (s \o t) = 1 .. Len(s) + Len(t) /\ Len(s \o t) = Len(s) + Len(t)
  BY <1>1, Concatenation
<1>5. 1 \in DOMAIN (s \o t) /\ 2 \in DOMAIN (s \o t) /\ 1 < Len(s \o t)
  BY <1>1, <1>4
<1>6. ASSUME NEW n \in DOMAIN (s \o t), (s \o t)[n].role = "user"
      PROVE  /\ n < Len(s \o t)
             /\ (s \o t)[n + 1].role = "assistant"
             /\ (s \o t)[n + 1].turn = (s \o t)[n].turn
  <2>1. n = 1
    BY <1>2, <1>6
  <2> QED BY <1>2, <1>3, <1>5, <2>1
<1> QED BY <1>2, <1>6 DEF Whole

\* More answers may follow what is staged.
LEMMA MoreAnswers ==
  ASSUME NEW s, NEW t, NEW k, Opens(s, k), Answers(t, k), \A n \in DOMAIN t : t[n].about # "dispatch"
  PROVE  Opens(s \o t, k)
<1>1. s \in Seq(Entries) /\ t \in Seq(Entries) /\ Len(s) \in Nat /\ Len(t) \in Nat
      /\ Len(s) > 0 /\ Len(t) > 0
  BY SecondEntry
<1>2. \A n \in DOMAIN (s \o t) :
        /\ (s \o t)[n].turn = k /\ (s \o t)[n].about # "dispatch"
        /\ (s \o t)[n].role = "user" => n = 1
  BY <1>1, Concatenation DEF Opens, Answers
<1>3. (s \o t)[2].role = "assistant"
  BY SecondEntry
<1>4. s \o t \in Seq(Entries) /\ s \o t # <<>>
  BY <1>1, Concatenation, EmptySeq
<1> QED BY <1>2, <1>3, <1>4 DEF Opens

\* What the actions write are answers.
LEMMA Written ==
  ASSUME turn \in 1 .. MaxTurns,
         NEW about \in {"malformed", "final", "safety_net", "repeat", "dispatch"}
  PROVE  /\ Answers(Exchange(about), turn) /\ Answers(<<Entry("assistant", about)>>, turn)
         /\ \A n \in DOMAIN Exchange(about) : Exchange(about)[n].about = about
         /\ \A n \in DOMAIN <<Entry("assistant", about)>> :
              <<Entry("assistant", about)>>[n].about = about
<1>1. Exchange(about) \in Seq(Entries) /\ <<Entry("assistant", about)>> \in Seq(Entries)
  BY EntryTypes
<1> QED BY <1>1 DEF Answers, Exchange, Entry

\* Where a conversation mentions a dispatch of turn k.
Mentions(s, k) == {n \in DOMAIN s : /\ s[n].turn = k
                                    /\ s[n].role = "assistant" /\ s[n].about = "dispatch"}

Silent(s) == \A n \in DOMAIN s : s[n].about # "dispatch"
Single(s) == s[1].about = "dispatch" /\ \A n \in DOMAIN s : s[n].role = "assistant" => n = 1

\* Mentions are finitely many, and those of a concatenation are those of its parts.
LEMMA MentionsFinite ==
  ASSUME NEW s \in Seq(Entries), NEW k
  PROVE  IsFiniteSet(Mentions(s, k)) /\ Len(s) + 1 \notin Mentions(s, k)
<1>1. Mentions(s, k) \subseteq 1 .. Len(s) /\ Len(s) \in Nat
  BY LenProperties DEF Mentions
<1>2. IsFiniteSet(1 .. Len(s))
  BY <1>1, FS_Interval
<1>3. IsFiniteSet(Mentions(s, k))
  BY <1>1, <1>2, FS_Subset
<1>4. Len(s) + 1 \notin 1 .. Len(s)
  BY <1>1
<1> QED BY <1>1, <1>3, <1>4

\* Entries about anything else mention nothing.
LEMMA MentionsSilent ==
  ASSUME NEW s \in Seq(Entries), NEW t \in Seq(Entries), NEW k, Silent(t)
  PROVE  Mentions(s \o t, k) = Mentions(s, k)
<1>1. ASSUME NEW n \in Mentions(s \o t, k)
      PROVE  n \in Mentions(s, k)
  <2>1. n \in 1 .. Len(s) + Len(t) /\ (s \o t)[n].about = "dispatch"
    BY <1>1, Concatenation DEF Mentions
  <2>2. ~ (n > Len(s))
    BY <2>1, Concatenation DEF Silent
  <2>3. n \in 1 .. Len(s)
    BY <2>1, <2>2, Concatenation
  <2> QED BY <1>1, <2>3, Concatenation DEF Mentions
<1>2. ASSUME NEW n \in Mentions(s, k)
      PROVE  n \in Mentions(s \o t, k)
  <2>1. n \in 1 .. Len(s) /\ n \in 1 .. Len(s) + Len(t)
    BY <1>2, Concatenation DEF Mentions
  <2> QED BY <1>2, <2>1, Concatenation DEF Mentions
<1> QED BY <1>1, <1>2

\* An answer about one dispatch adds one mention.
LEMMA MentionsSingle ==
  ASSUME NEW s \in Seq(Entries), NEW t, NEW k, Answers(t, k), Single(t)
  PROVE  Mentions(s \o t, k) = Mentions(s, k) \cup {Len(s) + 1}
<1>0. t \in Seq(Entries) /\ Len(t) \in Nat /\ Len(t) > 0 /\ DOMAIN t = 1 .. Len(t)
  BY LenProperties, EmptySeq DEF Answers
<1>1. ASSUME NEW n \in Mentions(s \o t, k)
      PROVE  n \in Mentions(s, k) \cup {Len(s) + 1}
  <2>1. n \in 1 .. Len(s) + Len(t) /\ (s \o t)[n].role = "assistant"
    BY <1>0, <1>1, Concatenation DEF Mentions
  <2>2. CASE n > Len(s)
    <3>1. n - Len(s) \in DOMAIN t /\ t[n - Len(s)].role = "assistant"
      BY <1>0, <2>1, <2>2, Concatenation
    <3>2. n - Len(s) = 1
      BY <3>1 DEF Single
    <3> QED BY <1>0, <2>1, <3>2, Concatenation
  <2>3. CASE ~ (n > Len(s))
    <3>1. n \in 1 .. Len(s)
      BY <1>0, <2>1, <2>3, Concatenation
    <3> QED BY <1>0, <1>1, <3>1, Concatenation DEF Mentions
  <2> QED BY <2>2, <2>3
<1>2. ASSUME NEW n \in Mentions(s, k)
      PROVE  n \in Mentions(s \o t, k)
  <2>1. n \in 1 .. Len(s) /\ n \in 1 .. Len(s) + Len(t)
    BY <1>0, <1>2, Concatenation DEF Mentions
  <2> QED BY <1>0, <1>2, <2>1, Concatenation DEF Mentions
<1>3. Len(s) + 1 \in Mentions(s \o t, k)
  <2>1. 1 \in 1 .. Len(t) /\ Len(s) + 1 \in 1 .. Len(s) + Len(t)
    BY <1>0, Concatenation
  <2>2. (s \o t)[Len(s) + 1] = t[1]
    BY <1>0, <2>1, Concatenation
  <2> QED BY <1>0, <2>1, <2>2, Concatenation DEF Mentions, Single, Answers
<1> QED BY <1>1, <1>2, <1>3

\* Nothing is staged of a turn that is committed, and nothing of one that is not is in the
\* history; what is staged will be whole once an answer follows it.
Conversation ==
  /\ Whole(history)
  /\ \A n \in DOMAIN history : history[n].turn <= turn
  /\ ~ committed => \A n \in DOMAIN history : history[n].turn # turn
  /\ committed => staged = <<>>
  /\ ~ committed /\ ended = "running" => Opens(staged, turn)

\* What a commit makes of it.
LEMMA CommitStep ==
  ASSUME Typed, Conversation, ended = "running", NEW entries, Answers(entries, turn),
         Commit(entries), turn' = turn
  PROVE  /\ Conversation' /\ history' \in Seq(Entries)
         /\ Silent(entries) => Mentions(history', turn) = Mentions(history, turn)
         /\ Single(entries) =>
              \E n : /\ n \notin Mentions(history, turn)
                     /\ Mentions(history', turn) = Mentions(history, turn) \cup {n}
<1>0. /\ history \in Seq(Entries) /\ staged \in Seq(Entries) /\ entries \in Seq(Entries)
      /\ turn \in Nat
  BY LimitsAssumption DEF Typed, TypeOK, Answers
<1> DEFINE before == history \o staged
<1>1. before \in Seq(Entries) /\ history' = before \o entries /\ history' \in Seq(Entries)
      /\ staged' = <<>> /\ committed' = TRUE
  BY <1>0, Concatenation DEF Commit
<1>2. Silent(staged) /\ Mentions(before, turn) = Mentions(history, turn)
  <2>1. Silent(staged)
    BY DEF Conversation, Opens, Silent
  <2> QED BY <1>0, <2>1, MentionsSilent
<1>3. Whole(entries) /\ \A n \in DOMAIN entries : entries[n].turn = turn
  BY DEF Answers, Whole
<1>4. Whole(history') /\ \A n \in DOMAIN history' : history'[n].turn <= turn
  <2>1. CASE committed
    <3>1. staged = <<>> /\ before = history
      BY <1>0, <2>1, ConcatEmptySeq DEF Conversation
    <3>2. Whole(history \o entries)
      BY <1>0, <1>3, WholeConcatenation DEF Conversation
    <3>3. \A n \in DOMAIN (history \o entries) : (history \o entries)[n].turn <= turn
      BY <1>0, <1>3, Concatenation DEF Conversation
    <3> QED BY <1>1, <3>1, <3>2, <3>3
  <2>2. CASE ~ committed
    <3> DEFINE whole == staged \o entries
    <3>1. Opens(staged, turn)
      BY <2>2 DEF Conversation
    <3>2. Whole(whole) /\ (\A n \in DOMAIN whole : whole[n].turn = turn) /\ whole \in Seq(Entries)
      BY <1>0, <3>1, AnsweredTurn, Concatenation
    <3>3. history' = history \o whole
      <4>1. (history \o staged) \o entries = history \o (staged \o entries)
        BY <1>0, ConcatAssociative
      <4> QED BY <1>1, <4>1
    <3> HIDE DEF whole
    <3>4. Whole(history \o whole)
      BY <1>0, <3>2, WholeConcatenation DEF Conversation
    <3>5. \A n \in DOMAIN (history \o whole) : (history \o whole)[n].turn <= turn
      BY <1>0, <3>2, Concatenation DEF Conversation
    <3> QED BY <3>3, <3>4, <3>5
  <2> QED BY <2>1, <2>2
<1> HIDE DEF before
<1>5. Silent(entries) => Mentions(history', turn) = Mentions(history, turn)
  BY <1>0, <1>1, <1>2, MentionsSilent
<1>6. Single(entries) => /\ Len(before) + 1 \notin Mentions(history, turn)
                         /\ Mentions(history', turn) = Mentions(history, turn) \cup {Len(before) + 1}
  BY <1>1, <1>2, MentionsSingle, MentionsFinite
<1>7. Conversation'
  BY <1>1, <1>4 DEF Conversation
<1> QED BY <1>1, <1>5, <1>6, <1>7

\* What staging answers makes of it, be the turn committed or not.
LEMMA StageStep ==
  ASSUME Typed, Conversation, ended = "running", NEW entries, Answers(entries, turn),
         Silent(entries), Stage(entries), turn' = turn
  PROVE  /\ Conversation' /\ history' \in Seq(Entries) /\ committed' = committed
         /\ Mentions(history', turn) = Mentions(history, turn)
<1>0. /\ history \in Seq(Entries) /\ staged \in Seq(Entries) /\ entries \in Seq(Entries)
      /\ turn \in Nat /\ committed \in BOOLEAN
  BY LimitsAssumption DEF Typed, TypeOK, Answers
<1>1. CASE committed
  <2>1. history' = history \o entries /\ staged' = staged /\ committed' = committed
    BY <1>1 DEF Stage
  <2>2. Whole(entries) /\ \A n \in DOMAIN entries : entries[n].turn = turn
    BY DEF Answers, Whole
  <2>3. Whole(history \o entries)
    BY <1>0, <2>2, WholeConcatenation DEF Conversation
  <2>4. \A n \in DOMAIN (history \o entries) : (history \o entries)[n].turn <= turn
    BY <1>0, <2>2, Concatenation DEF Conversation
  <2>5. Mentions(history \o entries, turn) = Mentions(history, turn)
    BY <1>0, MentionsSilent
  <2>6. history \o entries \in Seq(Entries)
    BY <1>0, Concatenation
  <2>7. Conversation'
    BY <1>1, <2>1, <2>3, <2>4 DEF Conversation
  <2> QED BY <2>1, <2>5, <2>6, <2>7
<1>2. CASE ~ committed
  <2>1. history' = history /\ staged' = staged \o entries /\ committed' = committed
    BY <1>2 DEF Stage
  <2>2. Opens(staged \o entries, turn)
    BY <1>2, MoreAnswers DEF Conversation, Silent
  <2>3. Conversation'
    BY <1>2, <2>1, <2>2 DEF Conversation
  <2> QED BY <1>0, <2>1, <2>3
<1> QED BY <1>0, <1>1, <1>2

\* A turn that dispatched nothing and did not return is not committed; of one that is, the
\* history mentions what was dispatched, or all but the last when the turn escaped.
OnRecord ==
  /\ ended \in {"running", "raised"} /\ dispatched = <<>> => ~ committed
  /\ LET mentioned == Cardinality(Mentions(history, turn))
     IN \/ mentioned = Len(dispatched)
        \/ ended = "escaped" /\ mentioned = Len(last_operations)

\* A history that did not change, in a turn that goes on or raises.
LEMMA KeptStep ==
  ASSUME Conversation, ended = "running", KeepsHistory, turn' = turn
  PROVE  /\ Conversation' /\ committed' = committed
         /\ Mentions(history', turn) = Mentions(history, turn)
  BY DEF Conversation, KeepsHistory

\* Every step keeps the history whole and the record complete.
LEMMA HistoryStep ==
  ASSUME Typed, Reports, Conversation, OnRecord, Next
  PROVE  Conversation' /\ OnRecord'
<1>0. /\ history \in Seq(Entries) /\ turn \in Nat /\ dispatched \in Seq(Operations)
      /\ last_operations \in Seq(Operations) /\ committed \in BOOLEAN
      /\ ended = "running" => turn \in 1 .. MaxTurns
  BY LimitsAssumption DEF Typed, TypeOK, Begun
<1>1. CASE step
  <2>1. /\ turn' = turn + 1 /\ committed' = FALSE /\ dispatched' = <<>>
        /\ last_operations' = <<>> /\ history' = history /\ staged' = <<Asked>>
    BY <1>1 DEF step, Start
  <2>2. \A n \in DOMAIN history : history[n].turn \in Nat
    <3>1. \A n \in DOMAIN history : history[n] \in Entries
      BY <1>0, LenProperties, ElementOfSeq
    <3>2. 1 .. MaxTurns \subseteq Nat
      BY LimitsAssumption
    <3> QED BY <3>1, <3>2 DEF Entries
  <2>3. \A n \in DOMAIN history : history[n].turn <= turn + 1 /\ history[n].turn # turn + 1
    BY <1>0, <2>2 DEF Conversation
  <2>4. Opens(<<Asked>>, turn + 1)
    <3>1. Asked \in Entries
      BY <1>0, <1>1, LimitsAssumption DEF step, Start, Asked, Entries
    <3> QED BY <3>1 DEF Opens, Asked
  <2>5. Conversation'
    BY <2>1, <2>3, <2>4 DEF Conversation
  <2>6. Mentions(history', turn') = {}
    BY <2>1, <2>3 DEF Mentions
  <2>7. Cardinality(Mentions(history', turn')) = Len(dispatched')
    BY <2>1, <2>6, FS_EmptySet
  <2> QED BY <2>1, <2>5, <2>7 DEF OnRecord
<1>2. CASE Asking /\ KeepsReport /\ (Raises \/ Retried \/ Returns \/ Requests)
  <2>0. ended = "running" /\ UNCHANGED <<last_operations, dispatched, turn>>
    BY <1>2 DEF Asking, KeepsReport
  <2>1. /\ ended = "running" /\ turn' = turn /\ dispatched' = dispatched
        /\ turn \in 1 .. MaxTurns
        /\ Cardinality(Mentions(history, turn)) = Len(dispatched)
        /\ dispatched = <<>> => ~ committed
    BY <1>0, <2>0 DEF OnRecord
  <2>2. CASE KeepsHistory
    <3>1. /\ Conversation' /\ committed' = committed
          /\ Mentions(history', turn) = Mentions(history, turn)
      BY <2>1, <2>2, KeptStep
    <3> QED BY <2>1, <3>1 DEF OnRecord
  <2>3. CASE Stage(Exchange("malformed")) \/ Stage(<<Entry("assistant", "malformed")>>)
    <3>1. PICK entries : Stage(entries) /\ Answers(entries, turn) /\ Silent(entries)
      BY <2>1, <2>3, Written DEF Silent
    <3>2. Conversation' /\ committed' = committed
          /\ Mentions(history', turn) = Mentions(history, turn)
      BY <2>1, <3>1, StageStep
    <3> QED BY <2>1, <3>2 DEF OnRecord
  <2>4. CASE Returns
    <3>1. PICK about \in {"final", "safety_net", "repeat"} : Commit(Exchange(about))
      BY <2>4 DEF Returns
    <3>2. Answers(Exchange(about), turn) /\ Silent(Exchange(about))
      BY <2>1, Written DEF Silent
    <3>3. Conversation' /\ Mentions(history', turn) = Mentions(history, turn)
      BY <2>1, <3>1, <3>2, CommitStep
    <3>4. ended' \notin {"running", "raised"}
      BY <2>4 DEF Returns, Endings
    <3> QED BY <2>1, <3>3, <3>4 DEF OnRecord
  <2> QED BY <1>2, <2>2, <2>3, <2>4 DEF Raises, Retried, Requests
<1>3. ASSUME Dispatching, turn' = turn, NEW operation \in Operations,
             dispatched' = Append(dispatched, operation),
             Unreported \/ Fails(operation) \/ Continues(operation)
      PROVE  Conversation' /\ OnRecord'
  <2>1. /\ ended = "running" /\ turn \in 1 .. MaxTurns
        /\ Len(dispatched') = Len(dispatched) + 1 /\ dispatched' # <<>>
        /\ last_operations = dispatched /\ Len(dispatched) \in Nat
        /\ Cardinality(Mentions(history, turn)) = Len(dispatched)
    BY <1>0, <1>3, AppendProperties, LenProperties DEF Dispatching, Reports, OnRecord
  <2>2. CASE Unreported /\ KeepsHistory
    BY <1>3, <2>1, <2>2, KeptStep DEF OnRecord, Unreported
  <2>3. CASE Commit(<<Entry("assistant", "dispatch")>>) \/ Commit(Exchange("dispatch"))
    <3>1. PICK entries : Commit(entries) /\ Answers(entries, turn) /\ Single(entries)
      <4>1. Single(Exchange("dispatch")) /\ Single(<<Entry("assistant", "dispatch")>>)
        BY DEF Single, Exchange, Entry
      <4> QED BY <2>1, <2>3, <4>1, Written
    <3>2. PICK n : /\ n \notin Mentions(history, turn)
                   /\ Mentions(history', turn) = Mentions(history, turn) \cup {n}
      BY <1>3, <2>1, <3>1, CommitStep
    <3>3. Conversation'
      BY <1>3, <2>1, <3>1, CommitStep
    <3>4. Cardinality(Mentions(history', turn)) = Len(dispatched')
      BY <1>0, <2>1, <3>2, MentionsFinite, FS_AddElement
    <3> QED BY <1>3, <2>1, <3>3, <3>4 DEF OnRecord
  <2> QED BY <1>3, <2>2, <2>3 DEF Unreported, Fails, Continues
<1> QED BY <1>1, <1>2, <1>3, Steps

-----------------------------------------------------------------------------
(* Loops.                                                                  *)

\* The n-th operation of a turn: dispatched, or requested and about to be.
Signature(n) == IF n <= Len(dispatched) THEN dispatched[n].signature ELSE request[1]
Requested == Len(dispatched) + Len(request)

\* In a turn that goes on the window holds the latest signatures, as many as it has room for.
Windowed ==
  /\ Len(window) = IF Requested < window_size THEN Requested ELSE window_size
  /\ \A i \in 1 .. Len(window) : window[i] = Signature(Requested - Len(window) + i)

Watched ==
  /\ LoopsAreDetected
  /\ ended = "running" => Windowed
  /\ Dispatching => Occurrences(request[1], window) < repeated_operation_limit

\* A finite set of numbers has as many elements when it is shifted.
LEMMA Shifted ==
  ASSUME NEW A \in SUBSET Int, IsFiniteSet(A), NEW c \in Int
  PROVE  LET B == {i + c : i \in A}
         IN  IsFiniteSet(B) /\ Cardinality(B) = Cardinality(A)
<1> DEFINE B == {i + c : i \in A}
           f == [i \in A |-> i + c]
<1>1. f \in Bijection(A, B)
  <2>1. f \in [A -> B]
    OBVIOUS
  <2>2. \A i, j \in A : f[i] = f[j] => i = j
    OBVIOUS
  <2>3. \A b \in B : \E i \in A : f[i] = b
    OBVIOUS
  <2> QED BY <2>1, <2>2, <2>3 DEF Bijection, Injection, Surjection, IsInjective
<1>2. ExistsBijection(A, B)
  BY <1>1 DEF ExistsBijection
<1> QED BY <1>2, FS_Bijection

\* The window after one more signature.
LEMMA Remembered ==
  ASSUME TypeOK, NEW s \in Signatures
  PROVE  LET r == Remember(s)
         IN  /\ r \in Seq(Signatures)
             /\ Len(r) = IF Len(window) + 1 > window_size THEN Len(window) ELSE Len(window) + 1
             /\ Len(r) \in 1 .. window_size /\ Len(window) \in 0 .. window_size
             /\ r[Len(r)] = s
             /\ \A i \in 1 .. Len(r) : i < Len(r) =>
                  /\ i + (Len(window) + 1 - Len(r)) \in 1 .. Len(window)
                  /\ r[i] = window[i + (Len(window) + 1 - Len(r))]
<1> DEFINE w == Append(window, s)
           r == Remember(s)
<1>1. window_size \in Nat \ {0} /\ Len(window) \in Nat /\ Len(window) <= window_size
      /\ window \in Seq(Signatures)
  BY LimitsAssumption, LenProperties DEF window_size, TypeOK
<1>2. /\ w \in Seq(Signatures) /\ w # <<>> /\ Len(w) = Len(window) + 1
      /\ \A i \in 1 .. Len(window) : w[i] = window[i]
      /\ w[Len(window) + 1] = s
  BY <1>1, AppendProperties
<1>3. /\ Tail(w) \in Seq(Signatures) /\ Len(Tail(w)) = Len(w) - 1
      /\ \A i \in 1 .. Len(Tail(w)) : Tail(w)[i] = w[i + 1]
  BY <1>2, HeadTailProperties
<1> HIDE DEF w
<1>4. r = IF Len(w) > window_size THEN Tail(w) ELSE w
  BY DEF Remember, w
<1> HIDE DEF r
<1>5. CASE Len(w) > window_size
  <2>1. r = Tail(w) /\ Len(r) = Len(window) /\ Len(window) = window_size
    BY <1>1, <1>2, <1>3, <1>4, <1>5
  <2>2. r[Len(r)] = s
    BY <1>1, <1>2, <1>3, <2>1
  <2>3. \A i \in 1 .. Len(r) : i < Len(r) =>
          /\ i + (Len(window) + 1 - Len(r)) \in 1 .. Len(window)
          /\ r[i] = window[i + (Len(window) + 1 - Len(r))]
    BY <1>1, <1>2, <1>3, <2>1
  <2> QED BY <1>1, <1>2, <1>3, <1>5, <2>1, <2>2, <2>3 DEF r
<1>6. CASE ~ (Len(w) > window_size)
  <2>1. r = w /\ Len(r) = Len(window) + 1 /\ Len(window) + 1 <= window_size
    BY <1>1, <1>2, <1>4, <1>6
  <2>2. \A i \in 1 .. Len(r) : i < Len(r) =>
          /\ i + (Len(window) + 1 - Len(r)) \in 1 .. Len(window)
          /\ r[i] = window[i + (Len(window) + 1 - Len(r))]
    BY <1>1, <1>2, <2>1
  <2> QED BY <1>1, <1>2, <1>6, <2>1, <2>2 DEF r
<1> QED BY <1>5, <1>6

\* As many of the latest signatures are s as the window counts.
LEMMA Counted ==
  ASSUME NEW r \in Seq(Signatures), NEW c \in Int, NEW s
  PROVE  LET B == {i + c : i \in {j \in DOMAIN r : r[j] = s}}
         IN  /\ IsFiniteSet(B) /\ Cardinality(B) = Occurrences(s, r)
             /\ Occurrences(s, r) \in Nat
<1> DEFINE A == {j \in DOMAIN r : r[j] = s}
<1>1. A \subseteq 1 .. Len(r) /\ Len(r) \in Nat
  BY LenProperties
<1>2. IsFiniteSet(A)
  BY <1>1, FS_Interval, FS_Subset
<1>3. A \in SUBSET Int
  BY <1>1
<1>4. Occurrences(s, r) = Cardinality(A)
  BY DEF Occurrences
<1>5. Cardinality(A) \in Nat
  BY <1>2, FS_CardinalityType
<1> HIDE DEF A
<1>6. LET B == {i + c : i \in A} IN IsFiniteSet(B) /\ Cardinality(B) = Cardinality(A)
  BY <1>2, <1>3, Shifted
<1> QED BY <1>4, <1>5, <1>6 DEF A

\* A signature that is requested once more comes behind those of the window.
LEMMA WindowSlides ==
  ASSUME Typed, Reports, Windowed, Asking, NEW s \in Signatures
  PROVE  LET r == Remember(s)
             c == Len(dispatched) + 1 - Len(r)
         IN  /\ Len(r) = IF Len(dispatched) + 1 < window_size THEN Len(dispatched) + 1
                                                             ELSE window_size
             /\ \A i \in 1 .. Len(r) : i < Len(r) =>
                  /\ c + i \in 1 .. Len(dispatched)
                  /\ r[i] = dispatched[c + i].signature
             /\ r \in Seq(Signatures) /\ r[Len(r)] = s /\ Len(r) \in 1 .. window_size
<1> DEFINE r == Remember(s)
           k == Len(dispatched)
           l == Len(window)
<1>1. TypeOK /\ k \in Nat /\ window_size \in Nat \ {0}
  BY LimitsAssumption, LenProperties DEF Typed, TypeOK, window_size
<1>2. Requested = k
  BY <1>1 DEF Requested, Asking, NoRequest
<1>3. /\ l = IF k < window_size THEN k ELSE window_size
      /\ \A i \in 1 .. l : window[i] = Signature(k - l + i)
  BY <1>2 DEF Windowed
<1>4. /\ r \in Seq(Signatures)
      /\ Len(r) = IF l + 1 > window_size THEN l ELSE l + 1
      /\ Len(r) \in 1 .. window_size /\ l \in 0 .. window_size
      /\ r[Len(r)] = s
      /\ \A i \in 1 .. Len(r) : i < Len(r) =>
           /\ i + (l + 1 - Len(r)) \in 1 .. l
           /\ r[i] = window[i + (l + 1 - Len(r))]
  BY <1>1, Remembered
<1> HIDE DEF r, l
<1>5. Len(r) = IF k + 1 < window_size THEN k + 1 ELSE window_size
  BY <1>1, <1>3, <1>4
<1>6. ASSUME NEW i \in 1 .. Len(r), i < Len(r)
      PROVE  /\ (k + 1 - Len(r)) + i \in 1 .. k
             /\ r[i] = dispatched[(k + 1 - Len(r)) + i].signature
  <2> DEFINE j == i + (l + 1 - Len(r))
  <2>1. j \in 1 .. l /\ r[i] = window[j]
    BY <1>4, <1>6
  <2>2. k - l + j = (k + 1 - Len(r)) + i
    BY <1>1, <1>4
  <2>3. (k + 1 - Len(r)) + i \in 1 .. k
    BY <1>1, <1>3, <1>4, <1>6, <2>1, <2>2
  <2>4. r[i] = Signature((k + 1 - Len(r)) + i)
    BY <1>3, <2>1, <2>2
  <2> QED BY <2>3, <2>4 DEF Signature
<1> QED BY <1>4, <1>5, <1>6 DEF r

\* An operation that makes a loop was really dispatched before, often enough.
LEMMA LoopWasDispatched ==
  ASSUME Typed, Reports, Windowed, Asking, NEW s \in Signatures, Repeats(s)
  PROVE  Cardinality({n \in DOMAIN dispatched :
           /\ n > Len(dispatched) - (window_size - 1)
           /\ dispatched[n].signature = s}) >= repeated_operation_limit - 1
<1> DEFINE r == Remember(s)
           k == Len(dispatched)
           c == k + 1 - Len(r)
           S == {n \in DOMAIN dispatched :
                   /\ n > k - (window_size - 1) /\ dispatched[n].signature = s}
           B == {i + c : i \in {j \in DOMAIN r : r[j] = s}}
<1>1. k \in Nat /\ window_size \in Nat \ {0} /\ DOMAIN dispatched = 1 .. k
      /\ repeated_operation_limit \in Nat
  BY LimitsAssumption, LenProperties DEF Typed, TypeOK, window_size
<1>2. /\ r \in Seq(Signatures) /\ r[Len(r)] = s /\ Len(r) \in 1 .. window_size
      /\ DOMAIN r = 1 .. Len(r)
      /\ \A i \in 1 .. Len(r) : i < Len(r) => c + i \in 1 .. k /\ r[i] = dispatched[c + i].signature
  BY WindowSlides, LenProperties
<1>3. Occurrences(s, r) >= repeated_operation_limit /\ c = k + 1 - Len(r)
  BY DEF Repeats
<1> HIDE DEF r, c, k
<1>4. IsFiniteSet(B) /\ Cardinality(B) = Occurrences(s, r) /\ Occurrences(s, r) \in Nat
  <2>1. c \in Int
    BY <1>1, <1>2, <1>3
  <2> QED BY <1>2, <2>1, Counted
<1>5. B \subseteq S \cup {k + 1}
  <2> SUFFICES ASSUME NEW i \in 1 .. Len(r), r[i] = s
               PROVE  i + c \in S \cup {k + 1}
    BY <1>2
  <2>1. CASE i = Len(r)
    BY <1>1, <1>2, <1>3, <2>1
  <2>2. CASE i # Len(r)
    <3>0. i < Len(r)
      <4>1. Len(r) \in Nat
        BY <1>2
      <4> QED BY <2>2, <4>1
    <3>1. c + i \in 1 .. k /\ dispatched[c + i].signature = s
      BY <1>2, <3>0
    <3>2. c + i > k - (window_size - 1) /\ i + c = c + i
      BY <1>1, <1>2, <1>3
    <3> QED BY <1>1, <3>1, <3>2
  <2> QED BY <2>1, <2>2
<1>6. IsFiniteSet(S)
  <2>1. S \in SUBSET (1 .. k)
    BY <1>1
  <2>2. IsFiniteSet(1 .. k)
    BY <1>1, FS_Interval
  <2> HIDE DEF S
  <2> QED BY <2>1, <2>2, FS_Subset
<1> HIDE DEF B, S
<1>7. Cardinality(B) <= Cardinality(S) + 1 /\ Cardinality(S) \in Nat
  <2>1. /\ IsFiniteSet(S \cup {k + 1}) /\ Cardinality(S) \in Nat
        /\ Cardinality(S \cup {k + 1}) = IF k + 1 \in S THEN Cardinality(S) ELSE Cardinality(S) + 1
    BY <1>6, FS_AddElement, FS_CardinalityType
  <2>2. Cardinality(B) <= Cardinality(S \cup {k + 1})
    BY <1>5, <2>1, FS_Subset
  <2> QED BY <1>4, <2>1, <2>2
<1>8. Cardinality(S) >= repeated_operation_limit - 1
  BY <1>1, <1>3, <1>4, <1>7
<1> QED BY <1>8 DEF S, k

\* An operation that was not stopped leaves no loop behind.
LEMMA FewRemain ==
  ASSUME Typed, FewRepeats, Windowed, Dispatching,
         Occurrences(request[1], window) < repeated_operation_limit,
         NEW operation \in Operations, operation.signature = request[1],
         dispatched' = Append(dispatched, operation)
  PROVE  FewRepeats'
<1> DEFINE k == Len(dispatched) + 1
           l == Len(window)
           c == k - l
           now == dispatched'
           Near(seq, m, s) == {n \in DOMAIN seq :
                                 n \in m .. m + window_size - 1 /\ seq[n].signature = s}
           B == {i + c : i \in {j \in DOMAIN window : window[j] = request[1]}}
<1>1. /\ window_size \in Nat \ {0} /\ repeated_operation_limit \in Nat \ {0}
      /\ Len(dispatched) \in Nat /\ k \in Nat /\ l \in Nat
      /\ DOMAIN dispatched = 1 .. Len(dispatched) /\ Len(dispatched) = k - 1
      /\ DOMAIN now = 1 .. k
      /\ \A n \in 1 .. Len(dispatched) : now[n] = dispatched[n]
      /\ now[k] = operation
      /\ window \in Seq(Signatures) /\ DOMAIN window = 1 .. l
  BY LimitsAssumption, LenProperties, AppendProperties DEF Typed, TypeOK, window_size
<1>2. Requested = k
  <2>1. request \in {<<s>> : s \in Signatures}
    BY DEF Typed, TypeOK, Dispatching
  <2>2. Len(request) = 1
    BY <2>1
  <2> QED BY <2>2 DEF Requested
<1>3. \A n \in 1 .. k : now[n].signature = Signature(n)
  <2> SUFFICES ASSUME NEW n \in 1 .. k
               PROVE  now[n].signature = Signature(n)
    OBVIOUS
  <2>1. CASE n <= Len(dispatched)
    BY <1>1, <2>1 DEF Signature
  <2>2. CASE ~ (n <= Len(dispatched))
    <3>1. n = k
      BY <1>1, <2>2
    <3> QED BY <1>1, <2>2, <3>1 DEF Signature
  <2> QED BY <2>1, <2>2
<1>4. /\ l = IF k < window_size THEN k ELSE window_size
      /\ \A i \in 1 .. l : window[i] = Signature(c + i)
  BY <1>2 DEF Windowed
<1>5. c = k - l
  OBVIOUS
<1> HIDE DEF k, l, c, now
<1>6. IsFiniteSet(B) /\ Cardinality(B) < repeated_operation_limit
  <2>1. c \in Int
    BY <1>1, <1>5
  <2>2. IsFiniteSet(B) /\ Cardinality(B) = Occurrences(request[1], window)
    BY <1>1, <2>1, Counted
  <2> QED BY <2>2
<1>7. ASSUME NEW m \in 1 .. k, NEW s \in Signatures
      PROVE  Cardinality(Near(now, m, s)) < repeated_operation_limit
  <2>1. CASE s = request[1] /\ m + window_size - 1 >= k
    <3>1. Near(now, m, s) \subseteq B
      <4> SUFFICES ASSUME NEW n \in 1 .. k, n >= m, now[n].signature = s
                   PROVE  n \in B
        BY <1>1
      <4>1. n - c \in 1 .. l /\ c + (n - c) = n /\ (n - c) + c = n
        BY <1>1, <1>4, <1>5, <2>1
      <4>2. window[n - c] = s
        BY <1>3, <1>4, <4>1
      <4> QED BY <1>1, <2>1, <4>1, <4>2
    <3> HIDE DEF B, Near
    <3>2. Cardinality(Near(now, m, s)) <= Cardinality(B) /\ IsFiniteSet(Near(now, m, s))
      BY <1>6, <3>1, FS_Subset
    <3>3. Cardinality(Near(now, m, s)) \in Nat /\ Cardinality(B) \in Nat
      BY <1>6, <3>2, FS_CardinalityType
    <3> QED BY <1>1, <1>6, <3>2, <3>3
  <2>2. CASE s # request[1] \/ ~ (m + window_size - 1 >= k)
    <3>1. Near(now, m, s) = Near(dispatched, m, s)
      <4>1. ASSUME NEW n \in Near(now, m, s)
            PROVE  n \in Near(dispatched, m, s)
        <5>1. n \in 1 .. k /\ n \in m .. m + window_size - 1 /\ now[n].signature = s
          BY <1>1, <4>1
        <5>2. n # k
          BY <1>1, <2>2, <5>1
        <5>3. n \in 1 .. Len(dispatched)
          BY <1>1, <5>1, <5>2
        <5> QED BY <1>1, <5>1, <5>3
      <4>2. ASSUME NEW n \in Near(dispatched, m, s)
            PROVE  n \in Near(now, m, s)
        <5>1. n \in 1 .. Len(dispatched) /\ n \in m .. m + window_size - 1
              /\ dispatched[n].signature = s
          BY <1>1, <4>2
        <5>2. n \in 1 .. k
          BY <1>1, <5>1
        <5> QED BY <1>1, <5>1, <5>2
      <4> QED BY <4>1, <4>2
    <3>2. CASE m \in DOMAIN dispatched
      BY <3>1, <3>2 DEF FewRepeats
    <3>3. CASE m \notin DOMAIN dispatched
      <4>1. Near(dispatched, m, s) = {}
        BY <1>1, <3>3
      <4>2. Cardinality(Near(now, m, s)) = 0
        BY <3>1, <4>1, FS_EmptySet
      <4> QED BY <1>1, <4>2
    <3> QED BY <3>2, <3>3
  <2> QED BY <2>1, <2>2
<1> QED BY <1>1, <1>7 DEF FewRepeats, now

\* Every step keeps watch.
LEMMA WatchedStep ==
  ASSUME Typed, Reports, Watched, Next
  PROVE  Watched'
<1>0. /\ window_size \in Nat \ {0} /\ Len(dispatched) \in Nat
      /\ dispatched \in Seq(Operations)
  BY LimitsAssumption, LenProperties DEF Typed, TypeOK, window_size
<1>1. CASE step
  <2>1. /\ window' = <<>> /\ dispatched' = <<>> /\ request' = <<>>
        /\ ended' \in {"running", "raised"}
    BY <1>1 DEF step, Start, NoRequest
  <2> QED BY <1>0, <2>1 DEF Watched, LoopsAreDetected, FewRepeats, Windowed, Requested,
                            Dispatching, NoRequest
<1>2. CASE Asking /\ KeepsReport /\ (Raises \/ Retried \/ Returns \/ Requests)
  <2>1. /\ FewRepeats' /\ Windowed /\ ended = "running" /\ request = <<>>
        /\ dispatched' = dispatched
    BY <1>2 DEF Watched, LoopsAreDetected, FewRepeats, KeepsReport, Asking, NoRequest
  <2>2. CASE Raises
    BY <2>1, <2>2 DEF Raises, Watched, LoopsAreDetected, Dispatching
  <2>3. CASE Retried
    <3>1. window' = window /\ request' = request /\ ended' = "running"
      BY <2>1, <2>3 DEF Retried, NoRequest
    <3> QED BY <2>1, <3>1 DEF Watched, LoopsAreDetected, Windowed, Requested, Signature,
                              Dispatching, NoRequest
  <2>4. CASE Returns
    <3>1. ended' # "running"
      BY <2>4 DEF Returns, Endings
    <3>2. ASSUME ended' = "loop_detected"
          PROVE  LastRepeats'
      <4>1. PICK s \in Signatures : Repeats(s) /\ window' = Remember(s)
        BY <2>4, <3>2 DEF Returns
      <4>2. window'[Len(window')] = s
        BY <1>2, <2>1, <4>1, WindowSlides
      <4>3. Cardinality({n \in DOMAIN dispatched :
              /\ n > Len(dispatched) - (window_size - 1)
              /\ dispatched[n].signature = s}) >= repeated_operation_limit - 1
        BY <1>2, <2>1, <4>1, LoopWasDispatched
      <4> QED BY <2>1, <4>2, <4>3 DEF LastRepeats
    <3> QED BY <2>1, <3>1, <3>2 DEF Watched, LoopsAreDetected, Dispatching
  <2>5. CASE Requests
    <3>1. PICK s \in Signatures : ~ Repeats(s) /\ window' = Remember(s) /\ request' = <<s>>
      BY <2>5 DEF Requests
    <3>2. ended' = "running"
      BY <2>5 DEF Requests
    <3>0. PICK r, k : r = Remember(s) /\ k = Len(dispatched)
      OBVIOUS
    <3>3. /\ Len(r) = IF k + 1 < window_size THEN k + 1 ELSE window_size
          /\ r[Len(r)] = s /\ Len(r) \in 1 .. window_size
          /\ \A i \in 1 .. Len(r) : i < Len(r) =>
               /\ k + 1 - Len(r) + i \in 1 .. k
               /\ r[i] = dispatched[k + 1 - Len(r) + i].signature
      BY <1>2, <2>1, <3>0, WindowSlides
    <3>4. Requested' = k + 1 /\ k \in Nat /\ Len(dispatched') = k
      BY <1>0, <2>1, <3>0, <3>1 DEF Requested
    <3>5. ASSUME NEW i \in 1 .. Len(r)
          PROVE  r[i] = Signature(k + 1 - Len(r) + i)'
      <4>1. CASE i < Len(r)
        <5>1. k + 1 - Len(r) + i \in 1 .. k /\ r[i] = dispatched[k + 1 - Len(r) + i].signature
          BY <3>3, <4>1
        <5>2. k + 1 - Len(r) + i <= Len(dispatched')
          BY <3>4, <5>1
        <5> QED BY <2>1, <5>1, <5>2 DEF Signature
      <4>2. CASE ~ (i < Len(r))
        <5>1. i = Len(r) /\ k + 1 - Len(r) + i = k + 1
          BY <3>3, <3>4, <4>2
        <5>2. ~ (k + 1 - Len(r) + i <= Len(dispatched'))
          BY <3>4, <5>1
        <5> QED BY <3>1, <3>3, <5>1, <5>2 DEF Signature
      <4> QED BY <4>1, <4>2
    <3>6. Windowed'
      <4>1. window' = r
        BY <3>0, <3>1
      <4>2. \A i \in 1 .. Len(r) : r[i] = Signature(Requested - Len(window) + i)'
        BY <3>4, <3>5, <4>1 DEF Signature
      <4> QED BY <3>3, <3>4, <4>1, <4>2 DEF Windowed
    <3>7. Occurrences(request'[1], window') < repeated_operation_limit
      <4>1. Occurrences(s, r) \in Nat /\ repeated_operation_limit \in Nat
        <5>1. r \in Seq(Signatures)
          BY <3>0, RememberTypes DEF Typed
        <5>2. Occurrences(s, r) \in Nat
          BY <5>1, 0 \in Int, Counted
        <5> QED BY <5>2, LimitsAssumption
      <4>2. ~ (Occurrences(s, r) >= repeated_operation_limit)
        BY <3>0, <3>1 DEF Repeats
      <4>3. Occurrences(s, r) < repeated_operation_limit
        BY <4>1, <4>2
      <4> QED BY <3>0, <3>1, <4>3
    <3> QED BY <2>1, <3>2, <3>6, <3>7 DEF Watched, LoopsAreDetected
  <2> QED BY <1>2, <2>2, <2>3, <2>4, <2>5
<1>3. ASSUME Dispatching, request' = NoRequest, UNCHANGED <<failures, window, turn, calls>>,
             NEW operation \in Operations, operation.signature = request[1],
             dispatched' = Append(dispatched, operation),
             Unreported \/ Fails(operation) \/ Continues(operation)
      PROVE  Watched'
  <2>1. FewRepeats'
    BY <1>3, FewRemain DEF Watched, LoopsAreDetected, Dispatching
  <2>2. ended' # "loop_detected" /\ request' = <<>> /\ window' = window /\ Windowed
    BY <1>3 DEF Unreported, Fails, Continues, Watched, Dispatching, NoRequest
  <2>3. Windowed'
    <3>1. Len(dispatched') = Len(dispatched) + 1 /\ Len(request') = 0
          /\ dispatched'[Len(dispatched) + 1].signature = request[1]
          /\ \A n \in 1 .. Len(dispatched) : dispatched'[n] = dispatched[n]
      BY <1>0, <1>3, <2>2, AppendProperties
    <3>2. Len(request) = 1
      <4>1. request \in {<<s>> : s \in Signatures}
        BY <1>3 DEF Typed, TypeOK, Dispatching
      <4> QED BY <4>1
    <3>3. Requested = Len(dispatched) + 1 /\ Requested' = Len(dispatched) + 1
      BY <1>0, <3>1, <3>2 DEF Requested
    <3>4. \A n \in 1 .. Len(dispatched) + 1 : Signature(n)' = Signature(n)
      BY <1>0, <3>1 DEF Signature
    <3>5. Len(window) \in Nat /\ Len(window) <= Len(dispatched) + 1
      BY <1>0, <2>2, <3>3, LenProperties DEF Windowed, Typed, TypeOK
    <3>6. \A i \in 1 .. Len(window) :
            Len(dispatched) + 1 - Len(window) + i \in 1 .. Len(dispatched) + 1
      BY <1>0, <3>5
    <3> QED BY <2>2, <3>3, <3>4, <3>6 DEF Windowed
  <2> QED BY <2>1, <2>2, <2>3 DEF Watched, LoopsAreDetected, Dispatching, NoRequest
<1> QED BY <1>1, <1>2, <1>3, Steps

-----------------------------------------------------------------------------
(* The theorems.                                                           *)

\* All of it together is inductive.
Loop ==
  /\ Typed /\ Reports /\ Budget /\ NoneFailed
  /\ Conversation /\ OnRecord /\ Watched

\* It holds before the first turn.
LEMMA LoopInit ==
  ASSUME Init
  PROVE  Loop
<1>1. Typed
  <2>1. /\ <<>> \in Seq(Entries) /\ <<>> \in Seq(Operations)
        /\ <<>> \in Seq(Signatures) /\ <<>> \in Seq(Events)
    BY EmptySeq
  <2>2. Len(window) <= window_size
    BY LimitsAssumption DEF Init, window_size
  <2>3. 0 \in 0 .. Retries /\ 0 \in 0 .. MaxTurns
    BY LimitsAssumption DEF Retries
  <2>4. /\ history = <<>> /\ staged = <<>> /\ committed = FALSE /\ last_operations = <<>>
        /\ failures = 0 /\ window = <<>> /\ request = NoRequest /\ ended = "none"
        /\ turn = 0 /\ log = <<>> /\ calls = 0 /\ dispatched = <<>>
    BY DEF Init
  <2>5. TypeOK
    BY <2>1, <2>2, <2>3, <2>4 DEF TypeOK, Retries
  <2> QED BY <2>4, <2>5 DEF Typed, Begun
<1>2. Reports /\ NoneFailed /\ Watched
  BY DEF Init, Reports, NoneFailed, IntegrityEndsTurn, Watched, LoopsAreDetected, FewRepeats,
         Dispatching
<1>3. Budget
  <2>1. (Limit + 1) * (Retries + 1) \in Nat
    BY Multiples, LimitsAssumption DEF Limit, Retries
  <2> QED BY <2>1, LimitsAssumption DEF Init, Budget, Dispatching, Asking, Limit
<1>4. Conversation
  BY DEF Init, Conversation, Whole
<1>5. OnRecord
  <2>1. Mentions(history, turn) = {}
    BY DEF Init, Mentions
  <2> QED BY <2>1, FS_EmptySet DEF Init, OnRecord
<1> QED BY <1>1, <1>2, <1>3, <1>4, <1>5 DEF Loop

\* Every step keeps it.
LEMMA LoopStep ==
  ASSUME Loop, [Next]_vars
  PROVE  Loop'
<1>1. CASE Next
  BY <1>1, TypeStep, ReportsStep, BudgetStep, NoneFailedStep, HistoryStep, WatchedStep DEF Loop
<1>2. CASE UNCHANGED vars
  <2>1. (Typed /\ Reports /\ Budget /\ NoneFailed)'
    BY <1>2 DEF Loop, vars, Typed, TypeOK, Begun, Reports, Budget, Asking, Dispatching,
                NoneFailed, IntegrityEndsTurn
  <2>2. (Conversation /\ OnRecord)'
    BY <1>2 DEF Loop, vars, Conversation, OnRecord
  <2>3. Watched'
    BY <1>2 DEF Loop, vars, Watched, LoopsAreDetected, FewRepeats, LastRepeats, Windowed,
                Requested, Signature, Dispatching
  <2> QED BY <2>1, <2>2, <2>3 DEF Loop
<1> QED BY <1>1, <1>2

\* So it holds always.
LEMMA LoopInvariant == Spec => []Loop
<1>1. Init => Loop
  BY LoopInit
<1>2. Loop /\ [Next]_vars => Loop'
  BY LoopStep
<1> QED BY <1>1, <1>2, PTL DEF Spec

\* The parts of it that the model checker's properties state.
LEMMA LoopImplies ==
  ASSUME Loop
  PROVE  /\ TypeOK /\ TurnBounded /\ IntegrityEndsTurn /\ LoopsAreDetected
         /\ HistoryIsWhole /\ TruthfulReport
<1>1. TypeOK /\ TurnBounded /\ IntegrityEndsTurn /\ LoopsAreDetected
  BY DEF Loop, Typed, Budget, TurnBounded, Limit, Retries, NoneFailed, Watched
<1>2. HistoryIsWhole
  <2>1. FailedTurnRolledBack
    BY DEF Loop, Conversation, OnRecord, FailedTurnRolledBack, Of
  <2>2. NoDanglingRequest
    BY DEF Loop, Conversation, Whole, NoDanglingRequest
  <2> QED BY <2>1, <2>2 DEF HistoryIsWhole
<1>3. TruthfulReport
  <2>1. /\ last_operations \in Seq(Operations) /\ Len(last_operations) \in Nat
        /\ SubSeq(last_operations, 1, Len(last_operations)) = last_operations
    BY LenProperties, SubSeqFull DEF Loop, Typed, TypeOK
  <2>2. /\ Len(dispatched) - Len(last_operations) = IF ended = "escaped" THEN 1 ELSE 0
        /\ last_operations = SubSeq(dispatched, 1, Len(last_operations))
    <3>1. CASE ended = "escaped"
      <4>1. PICK operation \in Operations : dispatched = Append(last_operations, operation)
        BY <3>1 DEF Loop, Reports
      <4>2. /\ Len(dispatched) = Len(last_operations) + 1 /\ dispatched \in Seq(Operations)
            /\ \A n \in 1 .. Len(last_operations) : dispatched[n] = last_operations[n]
        BY <2>1, <4>1, AppendProperties
      <4>3. SubSeq(dispatched, 1, Len(last_operations)) = last_operations
        BY <2>1, <4>2, SubSeqProperties, SeqEqual
      <4> QED BY <2>1, <3>1, <4>2, <4>3
    <3>2. CASE ended # "escaped"
      BY <2>1, <3>2 DEF Loop, Reports
    <3> QED BY <3>1, <3>2
  <2>3. {n \in Of(turn) : history[n].role = "assistant" /\ history[n].about = "dispatch"}
          = Mentions(history, turn)
    BY DEF Of, Mentions
  <2>4. Cardinality(Mentions(history, turn)) \in {Len(last_operations), Len(dispatched)}
    BY DEF Loop, OnRecord
  <2> QED BY <2>2, <2>3, <2>4 DEF TruthfulReport
<1> QED BY <1>1, <1>2, <1>3

\* Type correctness.
THEOREM TypeCorrectness == Spec => []TypeOK
  BY LoopInvariant, LoopImplies, PTL

\* However the model answers, a turn asks it at most (S + 1) * (R + 1) times and the broker
\* at most S times (loop.py, the while loop of step).
THEOREM TurnsAreBounded == Spec => []TurnBounded
  BY LoopInvariant, LoopImplies, PTL

\* Nothing is dispatched after an outcome that fails closed (classify_outcome).
THEOREM IntegrityIsFinal == Spec => []IntegrityEndsTurn
  BY LoopInvariant, LoopImplies, PTL

\* No window of 2N-1 consecutive dispatches holds a signature N times, and no turn is ended
\* as a loop but on N-1 real dispatches of it (the recent_operation_signatures of step).
THEOREM LoopsAreStopped == Spec => []LoopsAreDetected
  BY LoopInvariant, LoopImplies, PTL

\* A failed turn leaves nothing, and no request is ever left dangling (working_history and
\* commit).
THEOREM HistoryStaysWhole == Spec => []HistoryIsWhole
  BY LoopInvariant, LoopImplies, PTL

\* What a turn reports and remembers is what the broker did (operations and
\* self.last_operations).
THEOREM ReportsAreTruthful == Spec => []TruthfulReport
  BY LoopInvariant, LoopImplies, PTL

-----------------------------------------------------------------------------
(* The session of a loop.                                                  *)

\* A session begins with a fresh loop, and each of its steps is one of the loop's or leaves
\* the loop alone.
LEMMA SessionSteps ==
  /\ SessionInit => Init
  /\ [SessionNext]_svars => [Next]_vars
<1>1. SessionInit => Init
  BY DEF SessionInit
<1>2. ASSUME SessionNext
      PROVE  Next \/ UNCHANGED vars
  BY <1>2 DEF SessionNext, main_starts, main_steps, main_waits, main_shows, main_ends,
              interrupted, Next
<1>3. UNCHANGED svars => UNCHANGED vars
  BY DEF svars
<1> QED BY <1>1, <1>2, <1>3

\* What holds of every CognitiveLoop holds of the one in a session.
THEOREM SessionIsLoop == SessionSpec => Spec
  BY SessionSteps, PTL DEF SessionSpec, Spec

\* So the loop's invariant holds of it.
LEMMA SessionLoop == SessionSpec => []Loop
  BY SessionIsLoop, LoopInvariant, PTL

-----------------------------------------------------------------------------
(* What main() knows of the turn.                                          *)

\* What main() wrote and showed, by where it is.
Prompted ==
  /\ repl \in {"starting", "prompt", "stepping", "exited", "crashed"}
  /\ session \in {<<>>, <<"session.started">>, <<"session.started", "session.completed">>}
  /\ repl = "starting" => session = <<>> /\ turn = 0 /\ ended = "none"
  /\ repl \in {"prompt", "stepping"} => session = <<"session.started">>
  /\ shown \in [turn : 0 .. MaxTurns, error : BOOLEAN, operations : Seq(Operations)]
  /\ repl = "prompt" => ended # "running"
  /\ repl = "prompt" /\ turn > 0 =>
       /\ shown.turn = turn /\ shown.operations = last_operations
       /\ shown.error <=> ended \notin Returned

\* It holds at the start, and every step keeps it.
LEMMA PromptedInit ==
  ASSUME SessionInit
  PROVE  Prompted
<1>1. <<>> \in Seq(Operations) /\ 0 \in 0 .. MaxTurns
  BY EmptySeq, LimitsAssumption
<1> QED BY <1>1 DEF SessionInit, Init, Prompted, NotShown

\* Every step of the session keeps it.
LEMMA PromptedStep ==
  ASSUME Loop, Prompted, [SessionNext]_svars
  PROVE  Prompted'
<1>0. turn \in 0 .. MaxTurns /\ last_operations \in Seq(Operations) /\ turn \in Nat
  BY LimitsAssumption DEF Loop, Typed, TypeOK
<1>1. CASE main_starts
  BY <1>1 DEF main_starts, Recorded, Unrecorded, Prompted, vars
<1>2. CASE main_steps
  BY <1>2 DEF main_steps, Prompted
<1>3. CASE main_waits
  BY <1>3 DEF main_waits, Prompted
<1>4. CASE main_shows
  <2>0. /\ UNCHANGED <<session, turn, last_operations, ended>> /\ ended # "running"
        /\ repl = "stepping" /\ repl' \in {"prompt", "crashed"}
    BY <1>4 DEF main_shows, vars
  <2>1. CASE render_turn
    BY <1>0, <2>0, <2>1 DEF render_turn, Prompted
  <2>2. CASE render_outcome_error
    BY <1>0, <2>0, <2>2 DEF render_outcome_error, Prompted
  <2>3. CASE UNCHANGED shown /\ repl' = "crashed"
    BY <2>0, <2>3 DEF Prompted
  <2> QED BY <1>4, <2>1, <2>2, <2>3 DEF main_shows
<1>5. CASE main_ends
  <2>1. Append(<<"session.started">>, "session.completed") = <<"session.started", "session.completed">>
    <3> DEFINE E == {"session.started", "session.completed"}
               s == Append(<<"session.started">>, "session.completed")
               t == <<"session.started", "session.completed">>
    <3>1. <<"session.started">> \in Seq(E) /\ t \in Seq(E) /\ Len(t) = 2
          /\ t[1] = "session.started" /\ t[2] = "session.completed"
          /\ "session.completed" \in E
      OBVIOUS
    <3>2. s \in Seq(E) /\ Len(s) = 2 /\ s[1] = "session.started" /\ s[2] = "session.completed"
      BY <3>1, AppendProperties
    <3> HIDE DEF s, t
    <3>3. \A i \in 1 .. Len(s) : s[i] = t[i]
      BY <3>1, <3>2
    <3>4. s = t
      BY <3>1, <3>2, <3>3, SeqEqual
    <3> QED BY <3>4 DEF s, t
  <2>2. session = <<"session.started">> /\ repl' \in {"exited", "crashed"}
    BY <1>5 DEF main_ends, Prompted
  <2>3. session' \in {session, <<"session.started", "session.completed">>}
    BY <1>5, <2>1, <2>2 DEF main_ends, Recorded, Unrecorded
  <2>4. UNCHANGED <<turn, ended, last_operations, shown>>
    BY <1>5 DEF main_ends, vars
  <2> QED BY <2>2, <2>3, <2>4 DEF Prompted
<1>6. CASE interrupted
  BY <1>6 DEF interrupted, Prompted, vars
<1>7. CASE UNCHANGED svars
  BY <1>7 DEF svars, vars, Prompted
<1> QED BY <1>1, <1>2, <1>3, <1>4, <1>5, <1>6, <1>7 DEF SessionNext

-----------------------------------------------------------------------------
(* The log.                                                                *)

\* The events that LogAhead counts; the others are idle.
Tracked == {"operation.requested", "mediation.decision", "operation.result",
            "turn.completed", "turn.failed"}
Idle == Events \ Tracked

CountOf(s, e) == Cardinality({n \in DOMAIN s : s[n] = e})

\* A count is a number, and nought of what does not occur.
LEMMA Counts ==
  ASSUME NEW s \in Seq(Events), NEW e
  PROVE  /\ IsFiniteSet({n \in DOMAIN s : s[n] = e}) /\ CountOf(s, e) \in Nat
         /\ CountOf(<<>>, e) = 0
         /\ CountOf(s, e) = 0 /\ s # <<>> => s[Len(s)] # e
<1> DEFINE S == {n \in DOMAIN s : s[n] = e}
<1>1. /\ S \in SUBSET (1 .. Len(s)) /\ Len(s) \in Nat /\ DOMAIN s = 1 .. Len(s)
      /\ s # <<>> => Len(s) \in 1 .. Len(s)
  BY LenProperties, EmptySeq
<1>2. IsFiniteSet(1 .. Len(s))
  BY <1>1, FS_Interval
<1>3. {n \in DOMAIN <<>> : <<>>[n] = e} = {}
  OBVIOUS
<1>4. s # <<>> /\ s[Len(s)] = e => S # {}
  BY <1>1
<1> HIDE DEF S
<1>5. IsFiniteSet(S) /\ Cardinality(S) \in Nat /\ (Cardinality(S) = 0 => S = {})
  <2>1. IsFiniteSet(S)
    BY <1>1, <1>2, FS_Subset
  <2> QED BY <2>1, FS_CardinalityType, FS_EmptySet
<1>6. CountOf(<<>>, e) = 0
  BY <1>3, FS_EmptySet DEF CountOf
<1> QED BY <1>4, <1>5, <1>6 DEF S, CountOf

\* One more event counts one more of its kind.
LEMMA CountAppend ==
  ASSUME NEW s \in Seq(Events), NEW x \in Events, NEW e
  PROVE  /\ Append(s, x) \in Seq(Events) /\ Append(s, x) # <<>>
         /\ Append(s, x)[Len(Append(s, x))] = x
         /\ CountOf(Append(s, x), e) = CountOf(s, e) + (IF x = e THEN 1 ELSE 0)
<1> DEFINE S == {n \in DOMAIN s : s[n] = e}
           t == Append(s, x)
           T == {n \in DOMAIN t : t[n] = e}
<1>1. /\ Len(s) \in Nat /\ DOMAIN s = 1 .. Len(s)
      /\ t \in Seq(Events) /\ t # <<>> /\ Len(t) = Len(s) + 1 /\ DOMAIN t = 1 .. Len(s) + 1
      /\ t[Len(s) + 1] = x
      /\ \A n \in 1 .. Len(s) : t[n] = s[n]
  BY LenProperties, AppendProperties
<1> HIDE DEF t
<1>2. IsFiniteSet(S) /\ Len(s) + 1 \notin S /\ Cardinality(S) \in Nat
  <2>1. Len(s) + 1 \notin S
    BY <1>1
  <2> QED BY <2>1, Counts DEF CountOf
<1>3. CASE x = e
  <2>1. T = S \cup {Len(s) + 1}
    BY <1>1, <1>3
  <2>2. Cardinality(T) = Cardinality(S) + 1
    BY <1>2, <2>1, FS_AddElement
  <2> QED BY <1>1, <1>3, <2>2 DEF CountOf, t
<1>4. CASE x # e
  <2>1. T = S
    <3>1. ASSUME NEW n \in T
          PROVE  n \in S
      <4>1. n \in 1 .. Len(s) + 1 /\ t[n] = e /\ n # Len(s) + 1
        BY <1>1, <1>4, <3>1
      <4>2. n \in 1 .. Len(s)
        BY <1>1, <4>1
      <4> QED BY <1>1, <4>1, <4>2
    <3>2. ASSUME NEW n \in S
          PROVE  n \in T
      <4>1. n \in 1 .. Len(s) /\ n \in 1 .. Len(s) + 1
        BY <1>1, <3>2
      <4> QED BY <1>1, <3>2, <4>1
    <3> QED BY <3>1, <3>2
  <2>2. CountOf(t, e) = Cardinality(T) /\ CountOf(s, e) = Cardinality(S)
    BY DEF CountOf
  <2> HIDE DEF S, T
  <2>3. CountOf(t, e) = CountOf(s, e) + 0
    BY <1>2, <2>1, <2>2
  <2> QED BY <1>1, <1>4, <2>3 DEF t
<1> QED BY <1>3, <1>4

\* Idle events count for nothing.
LEMMA CountIdle ==
  ASSUME NEW s \in Seq(Events), NEW q \in Seq(Idle), NEW e \in Tracked
  PROVE  s \o q \in Seq(Events) /\ CountOf(s \o q, e) = CountOf(s, e)
<1> DEFINE S == {n \in DOMAIN s : s[n] = e}
           t == s \o q
           T == {n \in DOMAIN t : t[n] = e}
<1>1. /\ Len(s) \in Nat /\ DOMAIN s = 1 .. Len(s) /\ Len(q) \in Nat
      /\ \A n \in 1 .. Len(q) : q[n] \in Idle
      /\ q \in Seq(Events)
  <2>1. \A n \in 1 .. Len(q) : q[n] \in Idle
    BY LenProperties, ElementOfSeq
  <2>2. q \in Seq(Events)
    <3>1. Idle \subseteq Events
      BY DEF Idle
    <3> QED BY <3>1
  <2> QED BY <2>1, <2>2, LenProperties
<1>2. /\ t \in Seq(Events) /\ DOMAIN t = 1 .. Len(s) + Len(q)
      /\ \A n \in 1 .. Len(s) + Len(q) : t[n] = IF n <= Len(s) THEN s[n] ELSE q[n - Len(s)]
  BY <1>1, ConcatProperties, LenProperties
<1> HIDE DEF t
<1>3. e \notin Idle
  BY DEF Idle
<1>4. T = S
  <2>1. ASSUME NEW n \in T
        PROVE  n \in S
    <3>1. n \in 1 .. Len(s) + Len(q) /\ t[n] = e
      BY <1>2, <2>1
    <3>2. CASE n <= Len(s)
      BY <1>1, <1>2, <3>1, <3>2
    <3>3. CASE ~ (n <= Len(s))
      <4>1. n - Len(s) \in 1 .. Len(q) /\ t[n] = q[n - Len(s)]
        BY <1>1, <1>2, <3>1, <3>3
      <4> QED BY <1>1, <1>3, <3>1, <4>1
    <3> QED BY <3>2, <3>3
  <2>2. ASSUME NEW n \in S
        PROVE  n \in T
    <3>1. n \in 1 .. Len(s) /\ n \in 1 .. Len(s) + Len(q) /\ n <= Len(s)
      BY <1>1, <2>2
    <3> QED BY <1>1, <1>2, <2>2, <3>1
  <2> QED BY <2>1, <2>2
<1> QED BY <1>2, <1>4 DEF CountOf, t

\* Concatenation, event by event.
LEMMA Behind ==
  ASSUME NEW s \in Seq(Events), NEW q \in Seq(Events), NEW x \in Events
  PROVE  s \o Append(q, x) = Append(s \o q, x)
<1>1. Append(q, x) = q \o <<x>> /\ <<x>> \in Seq(Events)
  BY AppendIsConcat
<1>2. s \o q \in Seq(Events)
  BY ConcatProperties
<1>3. Append(s \o q, x) = (s \o q) \o <<x>>
  BY <1>2, AppendIsConcat
<1>4. (s \o q) \o <<x>> = s \o (q \o <<x>>)
  BY <1>1, ConcatAssociative
<1> QED BY <1>1, <1>3, <1>4

\* Two events at once are one after the other.
LEMMA Pair ==
  ASSUME NEW s \in Seq(Events), NEW x \in Events, NEW y \in Events
  PROVE  s \o <<x, y>> = Append(Append(s, x), y) /\ <<x, y>> \in Seq(Events)
<1>1. <<x>> \in Seq(Events) /\ <<x, y>> \in Seq(Events) /\ Len(<<x>>) = 1 /\ Len(<<x, y>>) = 2
      /\ <<x>>[1] = x /\ <<x, y>>[1] = x /\ <<x, y>>[2] = y
  OBVIOUS
<1> DEFINE t == Append(<<x>>, y)
<1>2. t \in Seq(Events) /\ Len(t) = 2 /\ t[1] = x /\ t[2] = y
  BY <1>1, AppendProperties
<1>3. t = <<x, y>>
  <2> DEFINE u == <<x, y>>
  <2>1. u \in Seq(Events) /\ Len(u) = 2 /\ u[1] = x /\ u[2] = y
    BY <1>1
  <2> HIDE DEF t, u
  <2>2. \A i \in 1 .. Len(t) : t[i] = u[i]
    BY <1>2, <2>1
  <2>3. t = u
    BY <1>2, <2>1, <2>2, SeqEqual
  <2> QED BY <2>3 DEF t, u
<1>4. s \o t = Append(s \o <<x>>, y) /\ s \o <<x>> = Append(s, x)
  BY <1>1, Behind, AppendIsConcat
<1> QED BY <1>1, <1>3, <1>4

\* The log grows by idle events, or by idle events and one that is tracked.
Quietly == \E q \in Seq(Idle) : log' = log \o q
Ends(x) == \E q \in Seq(Idle) : log' = Append(log \o q, x)

\* Idle events are events.
LEMMA IdleTypes ==
  ASSUME NEW q \in Seq(Idle)
  PROVE  q \in Seq(Events) /\ Len(q) \in Nat /\ \A n \in 1 .. Len(q) : q[n] \in Idle
<1>1. Idle \subseteq Events
  BY DEF Idle
<1> QED BY <1>1, LenProperties, ElementOfSeq

\* Some of the events of a sequence of which all but the last are idle.
LEMMA EmitIdle ==
  ASSUME TypeOK, NEW q \in Seq(Idle), NEW x \in Events, NEW n \in 0 .. Len(q) + 1,
         Emit(Append(q, x), n)
  PROVE  IF n = Len(q) + 1 THEN Ends(x) ELSE Quietly
<1> DEFINE s == Append(q, x)
<1>1. /\ q \in Seq(Events) /\ Len(q) \in Nat /\ \A i \in 1 .. Len(q) : q[i] \in Idle
      /\ log \in Seq(Events)
  BY IdleTypes DEF TypeOK
<1>2. /\ s \in Seq(Events) /\ Len(s) = Len(q) + 1
      /\ \A i \in 1 .. Len(q) : s[i] = q[i]
  BY <1>1, AppendProperties
<1>3. log' = log \o SubSeq(s, 1, n)
  BY DEF Emit
<1>4. CASE n = Len(q) + 1
  <2>1. SubSeq(s, 1, n) = s
    BY <1>2, <1>4, SubSeqFull
  <2>2. log' = Append(log \o q, x)
    BY <1>1, <1>3, <2>1, Behind
  <2> QED BY <1>4, <2>2 DEF Ends
<1>5. CASE n # Len(q) + 1
  <2>1. \A i \in 1 .. n : s[i] \in Idle
    BY <1>1, <1>2, <1>5
  <2> HIDE DEF s
  <2>2. SubSeq(s, 1, n) \in Seq(Idle)
    BY <1>1, <2>1, SubSeqProperties
  <2> QED BY <1>3, <1>5, <2>2 DEF Quietly
<1> QED BY <1>4, <1>5

\* What precedes the end of a cycle is idle.
LEMMA IdleCycle ==
  /\ Cycle \in Seq(Idle) /\ Response \in Seq(Idle)
  /\ Append(Cycle, "model.failure") \in Seq(Idle)
  /\ Append(Response, "model.failure") \in Seq(Idle)
  /\ Append(Response, "work_order.draft") \in Seq(Idle)
  /\ Append(Response, "work_order.finalized") \in Seq(Idle)
  /\ Len(Response) = Len(Cycle) + 1
  /\ Len(Append(Cycle, "model.failure")) = Len(Cycle) + 1
  /\ Len(Append(Response, "model.failure")) = Len(Response) + 1
  /\ Len(Append(Response, "work_order.draft")) = Len(Response) + 1
  /\ Len(Append(Response, "work_order.finalized")) = Len(Response) + 1
<1>1. /\ {"model.continuation", "model.response", "model.failure",
           "work_order.draft", "work_order.finalized"} \subseteq Idle
  BY DEF Idle, Events, Tracked
<1>2. Cycle \in Seq(Idle)
  <2>1. <<>> \in Seq(Idle) /\ <<"model.continuation">> \in Seq(Idle)
    BY <1>1
  <2> QED BY <2>1 DEF Cycle
<1>3. Response \in Seq(Idle) /\ Len(Response) = Len(Cycle) + 1
  BY <1>1, <1>2, AppendProperties DEF Response
<1> QED BY <1>1, <1>2, <1>3, AppendProperties

\* What the log of a step that asks the model says of how it ended.
Tells ==
  \/ Quietly /\ ended' \notin Returned /\ request' = NoRequest
  \/ Ends("turn.failed") /\ ended' = "raised" /\ request' = NoRequest
  \/ Ends("turn.completed") /\ ended' \in Returned /\ request' = NoRequest
  \/ Ends("operation.requested") /\ ended' = "running" /\ Len(request') = 1

\* A turn that ends in order is completed in the log if it returns.
LEMMA ReturnTells ==
  ASSUME Typed, Completes, NEW about, NEW how \in Returned, NEW events \in Seq(Events),
         Return(about, events, how),
         \/ events = <<"turn.completed">>
         \/ \E x \in {"work_order.draft", "work_order.finalized"} : events = <<x, "turn.completed">>
  PROVE  Tells
<1>1. PICK n \in Taken(events) :
        /\ Emit(Response \o events, Len(Response) + n)
        /\ ended' = IF n = Len(events) THEN how ELSE "sink_raised"
  BY DEF Return
<1>2. n \in 0 .. Len(events) /\ Len(events) \in Nat /\ TypeOK /\ request' = NoRequest
  BY TakenTypes, LenProperties DEF Typed, Return, Completes, Asking
<1>3. PICK q \in Seq(Idle) :
        Response \o events = Append(q, "turn.completed") /\ Len(q) + 1 = Len(Response) + Len(events)
  <2>0. Response \in Seq(Events) /\ Len(Response) \in Nat
    BY IdleCycle, IdleTypes
  <2>1. CASE events = <<"turn.completed">>
    <3>1. Response \o events = Append(Response, "turn.completed") /\ Len(events) = 1
      <4>1. "turn.completed" \in Events
        BY DEF Events
      <4> QED BY <2>0, <2>1, <4>1, AppendIsConcat
    <3> QED BY <3>1, IdleCycle
  <2>2. ASSUME NEW x \in {"work_order.draft", "work_order.finalized"}, events = <<x, "turn.completed">>
        PROVE  \E q \in Seq(Idle) :
                 Response \o events = Append(q, "turn.completed") /\ Len(q) + 1 = Len(Response) + Len(events)
    <3>1. Response \o events = Append(Append(Response, x), "turn.completed") /\ Len(events) = 2
      <4>1. x \in Events /\ "turn.completed" \in Events
        BY DEF Events
      <4> QED BY <2>0, <2>2, <4>1, Pair
    <3>2. Append(Response, x) \in Seq(Idle) /\ Len(Append(Response, x)) = Len(Response) + 1
      BY IdleCycle
    <3>3. Len(Append(Response, x)) + 1 = Len(Response) + Len(events)
      BY <2>0, <3>1, <3>2
    <3> QED BY <3>1, <3>2, <3>3
  <2> QED BY <2>1, <2>2
<1>4. Len(q) \in Nat /\ Len(Response) \in Nat
  BY IdleTypes, IdleCycle
<1>5. Len(Response) + n \in 0 .. Len(q) + 1
  BY <1>2, <1>3, <1>4
<1>6. "turn.completed" \in Events
  BY DEF Events
<1>7. IF Len(Response) + n = Len(q) + 1 THEN Ends("turn.completed") ELSE Quietly
  BY <1>1, <1>2, <1>3, <1>5, <1>6, EmitIdle
<1>8. CASE n = Len(events)
  BY <1>1, <1>2, <1>3, <1>7, <1>8 DEF Tells
<1>9. CASE n # Len(events)
  <2>1. Len(Response) + n # Len(q) + 1
    BY <1>2, <1>3, <1>4, <1>9
  <2> QED BY <1>1, <1>2, <1>7, <1>9, <2>1 DEF Tells, Returned
<1> QED BY <1>8, <1>9

\* Every step that asks the model says so in the log.
LEMMA AskTells ==
  ASSUME Typed, Proceed, \A category \in Outcomes : ~ dispatch(category)
  PROVE  Tells
<1>0. TypeOK /\ log \in Seq(Events) /\ Len(Cycle) \in Nat /\ Len(Response) \in Nat
  BY IdleCycle, IdleTypes DEF Typed, TypeOK
<1>1. CASE continuation_unrecorded
  <2>1. <<>> \in Seq(Idle) /\ log \o <<>> = log
    BY <1>0, EmptySeq, ConcatEmptySeq
  <2>2. log' = log /\ ended' = "raised" /\ request' = NoRequest
    BY <1>1 DEF continuation_unrecorded, Asking
  <2>3. Quietly
    BY <2>1, <2>2 DEF Quietly
  <2> QED BY <2>2, <2>3 DEF Tells, Returned
<1>2. CASE complete_raises
  <2>1. "model.failure" \in Events /\ "turn.failed" \in Events
        /\ <<"model.failure", "turn.failed">> \in Seq(Events)
    BY DEF Events
  <2>2. PICK n \in 0 .. 2 : Emit(Cycle \o <<"model.failure", "turn.failed">>, Len(Cycle) + n)
    BY <1>2, <2>1, TakenTypes DEF complete_raises
  <2> DEFINE q == Append(Cycle, "model.failure")
  <2>3. /\ Cycle \o <<"model.failure", "turn.failed">> = Append(q, "turn.failed")
        /\ q \in Seq(Idle) /\ Len(q) = Len(Cycle) + 1
    BY <2>1, IdleCycle, IdleTypes, Pair
  <2> HIDE DEF q
  <2>4. Len(Cycle) + n \in 0 .. Len(q) + 1
    BY <1>0, <2>3
  <2>5. Ends("turn.failed") \/ Quietly
    BY <1>0, <2>1, <2>2, <2>3, <2>4, EmitIdle
  <2> QED BY <1>2, <2>5 DEF Tells, complete_raises, Completes, Asking, Returned
<1>3. ASSUME NEW m \in 0 .. Len(Response), Emit(Response, m)
      PROVE  Quietly
  <2>1. SubSeq(Response, 1, m) \in Seq(Idle)
    <3>1. \A i \in 1 .. Len(Response) : Response[i] \in Idle
      BY IdleCycle, IdleTypes
    <3>2. \A i \in 1 .. m : Response[i] \in Idle
      BY <1>0, <1>3, <3>1
    <3> QED BY <3>2, SubSeqProperties
  <2> QED BY <1>3, <2>1 DEF Emit, Quietly
<1>4. CASE parse_raises
  <2>1. Quietly
    <3>1. Len(Cycle) \in 0 .. Len(Response) /\ Len(Response) \in 0 .. Len(Response)
      BY <1>0, IdleCycle
    <3> QED BY <1>3, <1>4, <3>1 DEF parse_raises
  <2> QED BY <1>4, <2>1 DEF Tells, parse_raises, Completes, Asking, Returned
<1>5. CASE malformed
  <2> DEFINE q == Append(Response, "model.failure")
  <2>1. q \in Seq(Idle) /\ Len(q) = Len(Response) + 1
    BY IdleCycle
  <2>2. "model.failure" \in Events /\ "turn.failed" \in Events /\ <<"turn.failed">> \in Seq(Events)
    BY DEF Events
  <2>3. request' = NoRequest /\ ended' \in {"running", "raised"}
    BY <1>5 DEF malformed, Completes, Asking
  <2>4. ASSUME Emit(q, Len(q))
        PROVE  Quietly
    <3>1. q \in Seq(Events) /\ SubSeq(q, 1, Len(q)) = q
      BY <2>1, IdleTypes, SubSeqFull
    <3> QED BY <2>1, <2>4, <3>1 DEF Emit, Quietly
  <2>5. ASSUME NEW n \in Taken(<<"turn.failed">>), ended' = "raised",
               Emit(Response \o <<"model.failure", "turn.failed">>, Len(Response) + 1 + n)
        PROVE  Quietly \/ Ends("turn.failed")
    <3>1. n \in 0 .. 1
      BY <2>2, <2>5, TakenTypes
    <3>2. Response \o <<"model.failure", "turn.failed">> = Append(q, "turn.failed")
      BY <2>2, IdleCycle, IdleTypes, Pair
    <3> HIDE DEF q
    <3>3. Len(Response) + 1 + n \in 0 .. Len(q) + 1
      BY <1>0, <2>1, <3>1
    <3> QED BY <1>0, <2>1, <2>2, <2>5, <3>2, <3>3, EmitIdle
  <2>6. CASE Emit(q, Len(Response) + 1)
    BY <2>1, <2>3, <2>4, <2>6 DEF Tells, Returned
  <2>7. CASE Emit(Response, Len(Response))
    <3>1. Len(Response) \in 0 .. Len(Response)
      BY <1>0
    <3> QED BY <1>3, <2>3, <2>7, <3>1 DEF Tells, Returned
  <2>8. CASE /\ ended' = "raised"
             /\ \E n \in Taken(<<"turn.failed">>) :
                  Emit(Response \o <<"model.failure", "turn.failed">>, Len(Response) + 1 + n)
    BY <2>3, <2>5, <2>8 DEF Tells, Returned
  <2> QED BY <1>5, <2>6, <2>7, <2>8 DEF malformed
<1>6. CASE final_message
  <2>1. <<"turn.completed">> \in Seq(Events) /\ "returned" \in Returned
    BY DEF Events, Returned
  <2> QED BY <1>6, <2>1, ReturnTells DEF final_message
<1>7. CASE final_work_order
  <2>1. PICK x \in {"work_order.draft", "work_order.finalized"} :
          Return("final", <<x, "turn.completed">>, "returned")
    BY <1>7 DEF final_work_order
  <2>2. <<x, "turn.completed">> \in Seq(Events) /\ "returned" \in Returned
    BY DEF Events, Returned
  <2> QED BY <1>7, <2>1, <2>2, ReturnTells DEF final_work_order
<1>8. CASE safety_net
  <2>1. <<"turn.completed">> \in Seq(Events) /\ "exhausted" \in Returned
    BY DEF Events, Returned
  <2> QED BY <1>8, <2>1, ReturnTells DEF safety_net
<1>9. ASSUME NEW s \in Signatures, repeated_operation(s)
      PROVE  Tells
  <2>1. <<"turn.completed">> \in Seq(Events) /\ "loop_detected" \in Returned
    BY DEF Events, Returned
  <2> QED BY <1>9, <2>1, ReturnTells DEF repeated_operation
<1>10. ASSUME NEW s \in Signatures, request_operation(s)
       PROVE  Tells
  <2>1. "operation.requested" \in Events /\ <<"operation.requested">> \in Seq(Events)
    BY DEF Events
  <2>2. PICK n \in 0 .. 1 :
          /\ Emit(Append(Response, "operation.requested"), Len(Response) + n)
          /\ request' = IF n = 1 THEN <<s>> ELSE NoRequest
          /\ ended' = IF n = 1 THEN "running" ELSE "raised"
    BY <1>10, <2>1, TakenTypes DEF request_operation
  <2>3. Len(Response) + n \in 0 .. Len(Response) + 1 /\ Response \in Seq(Idle)
    BY <1>0, IdleCycle
  <2>4. IF Len(Response) + n = Len(Response) + 1 THEN Ends("operation.requested") ELSE Quietly
    BY <1>0, <2>1, <2>2, <2>3, EmitIdle
  <2>5. CASE n = 1
    BY <1>0, <2>2, <2>4, <2>5 DEF Tells
  <2>6. CASE n = 0
    BY <1>0, <2>2, <2>4, <2>6 DEF Tells, Returned
  <2> QED BY <2>5, <2>6
<1> QED BY <1>1, <1>2, <1>4, <1>5, <1>6, <1>7, <1>8, <1>9, <1>10 DEF Proceed

\* What the log of a dispatch says: how far the sink took its events, and what became of it.
Accounts(operation) ==
  LET decided == Append(log, "mediation.decision")
      resulted == Append(decided, "operation.result")
      reported == last_operations' = Append(last_operations, operation)
  IN \/ log' = log /\ ended' = "escaped" /\ UNCHANGED last_operations
     \/ log' = decided /\ ended' = "escaped" /\ UNCHANGED last_operations
     \/ log' = decided /\ ended' = "raised" /\ reported
     \/ log' = resulted /\ ended' \in {"running", "raised"} /\ reported
     \/ log' = Append(resulted, "turn.failed") /\ ended' = "raised" /\ reported

\* Every dispatch does.
LEMMA DispatchTells ==
  ASSUME Typed, NEW category \in Outcomes, dispatch(category)
  PROVE  \E operation \in Operations : dispatched' = Append(dispatched, operation) /\ Accounts(operation)
<1> DEFINE operation == [signature |-> request[1], category |-> category]
<1>1. operation \in Operations
  BY DEF dispatch, Dispatching, Typed, TypeOK, NoRequest, Operations
<1>2. dispatched' = Append(dispatched, operation) /\ log \in Seq(Events)
  BY DEF dispatch, Typed, TypeOK
<1> HIDE DEF operation
<1>3. CASE category \in Uncaught
  BY <1>1, <1>2, <1>3 DEF dispatch, Accounts
<1>4. CASE category \notin Uncaught
  <2> DEFINE failing == category \notin Recoverable
             pair == <<"mediation.decision", "operation.result">>
             events == pair \o (IF failing THEN <<"turn.failed">> ELSE <<>>)
             decided == Append(log, "mediation.decision")
             resulted == Append(decided, "operation.result")
  <2>1. PICK n \in Taken(events) :
          LET recorded == IF failing THEN n > 0 ELSE n = Len(events)
          IN /\ Emit(events, n)
             /\ last_operations' = IF recorded THEN Append(last_operations, operation)
                                               ELSE last_operations
             /\ ended' = IF ~recorded THEN "escaped" ELSE IF failing THEN "raised" ELSE "running"
    BY <1>4 DEF dispatch, Account, operation
  <2>2. /\ "mediation.decision" \in Events /\ "operation.result" \in Events /\ "turn.failed" \in Events
        /\ pair \in Seq(Events) /\ <<"turn.failed">> \in Seq(Events) /\ <<>> \in Seq(Events)
        /\ Len(pair) = 2 /\ pair[1] = "mediation.decision" /\ pair[2] = "operation.result"
    BY DEF Events
  <2>3. /\ events \in Seq(Events) /\ Len(events) = IF failing THEN 3 ELSE 2
        /\ events = IF failing THEN Append(pair, "turn.failed") ELSE pair
    <3>1. pair \o <<"turn.failed">> = Append(pair, "turn.failed") /\ pair \o <<>> = pair
      BY <2>2, AppendIsConcat, ConcatEmptySeq
    <3>2. Append(pair, "turn.failed") \in Seq(Events) /\ Len(Append(pair, "turn.failed")) = 3
      BY <2>2, AppendProperties
    <3> QED BY <2>2, <3>1, <3>2
  <2>4. /\ decided \in Seq(Events) /\ resulted \in Seq(Events)
        /\ log \o pair = resulted /\ log \o Append(pair, "turn.failed") = Append(resulted, "turn.failed")
        /\ log \o <<"mediation.decision">> = decided /\ log \o <<>> = log
    <3>1. decided \in Seq(Events)
      BY <1>2, <2>2, AppendProperties
    <3>2. resulted \in Seq(Events)
      BY <2>2, <3>1, AppendProperties
    <3>3. log \o pair = resulted
      BY <1>2, <2>2, Pair
    <3>4. log \o Append(pair, "turn.failed") = Append(resulted, "turn.failed")
      BY <1>2, <2>2, <3>3, Behind
    <3> QED BY <1>2, <2>2, <3>1, <3>2, <3>3, <3>4, AppendIsConcat, ConcatEmptySeq
  <2>5. /\ events[1] = "mediation.decision" /\ events[2] = "operation.result"
        /\ failing => events[3] = "turn.failed"
    BY <2>2, <2>3, AppendProperties
  <2> HIDE DEF failing, events, pair, decided, resulted
  <2>6. n \in 0 .. Len(events) /\ log' = log \o SubSeq(events, 1, n)
    BY <2>1, <2>3, TakenTypes DEF Emit
  <2>7. CASE n = 0
    <3>1. SubSeq(events, 1, 0) = <<>>
      OBVIOUS
    <3>2. log' = log
      BY <2>4, <2>6, <2>7, <3>1
    <3> QED BY <1>1, <1>2, <2>1, <2>3, <2>7, <3>2 DEF Accounts
  <2>8. CASE n = 1
    <3>1. SubSeq(events, 1, 1) = <<"mediation.decision">>
      <4> DEFINE t == SubSeq(events, 1, 1)
                 u == <<"mediation.decision">>
      <4>1. \A i \in 1 .. 1 : events[i] \in Events
        BY <2>2, <2>5
      <4>2. t \in Seq(Events) /\ Len(t) = 1 /\ t[1] = events[1]
        BY <4>1, SubSeqProperties
      <4>3. u \in Seq(Events) /\ Len(u) = 1 /\ u[1] = "mediation.decision"
        BY <2>2
      <4> HIDE DEF t, u
      <4>4. \A i \in 1 .. Len(t) : t[i] = u[i]
        BY <2>5, <4>2, <4>3
      <4>5. t = u
        BY <4>2, <4>3, <4>4, SeqEqual
      <4> QED BY <4>5 DEF t, u
    <3>2. log' = decided
      BY <2>4, <2>6, <2>8, <3>1
    <3> QED BY <1>1, <1>2, <2>1, <2>3, <2>8, <3>2 DEF Accounts, decided
  <2>9. CASE n = 2
    <3>1. SubSeq(events, 1, 2) = pair
      <4> DEFINE t == SubSeq(events, 1, 2)
      <4>1. \A i \in 1 .. 2 : events[i] \in Events
        BY <2>2, <2>5
      <4>2. t \in Seq(Events) /\ Len(t) = 2 /\ t[1] = events[1] /\ t[2] = events[2]
        BY <4>1, SubSeqProperties
      <4> HIDE DEF t
      <4>3. \A i \in 1 .. Len(t) : t[i] = pair[i]
        BY <2>2, <2>5, <4>2
      <4>4. t = pair
        BY <2>2, <4>2, <4>3, SeqEqual
      <4> QED BY <4>4 DEF t
    <3>2. log' = resulted
      BY <2>4, <2>6, <2>9, <3>1
    <3> QED BY <1>1, <1>2, <2>1, <2>3, <2>9, <3>2 DEF Accounts, decided, resulted
  <2>10. CASE n = 3
    <3>1. failing /\ n = Len(events)
      BY <2>3, <2>6, <2>10
    <3>2. SubSeq(events, 1, n) = events
      BY <2>3, <3>1, SubSeqFull
    <3>3. log' = Append(resulted, "turn.failed")
      BY <2>3, <2>4, <2>6, <3>1, <3>2
    <3> QED BY <1>1, <1>2, <2>1, <2>10, <3>1, <3>3 DEF Accounts, decided, resulted
  <2>11. n \in 0 .. 3
    BY <2>3, <2>6
  <2> QED BY <2>7, <2>8, <2>9, <2>10, <2>11
<1> QED BY <1>3, <1>4

-----------------------------------------------------------------------------
(* The log is ahead.                                                       *)

LastOf(s, e) == s # <<>> /\ s[Len(s)] = e

\* LogAhead of a log s in a turn that made d operations, with r requests about to be, and
\* ended in how.
AheadOf(s, d, r, how) ==
  LET endings == CountOf(s, "turn.completed") + CountOf(s, "turn.failed")
      decided == CountOf(s, "mediation.decision")
      resulted == CountOf(s, "operation.result")
  IN /\ CountOf(s, "operation.requested") = d + r
     /\ decided \in {d, d - 1}
     /\ decided < d => how = "escaped"
     /\ resulted \in {decided, decided - 1}
     /\ endings = IF LastOf(s, "turn.completed") \/ LastOf(s, "turn.failed") THEN 1 ELSE 0
     /\ LastOf(s, "turn.completed") <=> how \in Returned
     /\ LastOf(s, "turn.failed") => how = "raised"

\* The log of a turn that goes on: no ending, and all of what was dispatched.
Even(s, d) ==
  /\ CountOf(s, "turn.completed") = 0 /\ CountOf(s, "turn.failed") = 0
  /\ CountOf(s, "mediation.decision") = d /\ CountOf(s, "operation.result") = d

\* Of a turn that ended, the log has no result that is not reported.
Ahead ==
  /\ AheadOf(log, Len(dispatched), Len(request), ended)
  /\ ended = "running" => Even(log, Len(dispatched))
  /\ CountOf(log, "operation.result") <= Len(last_operations)

\* A log without an ending does not end in one.
LEMMA NoEnding ==
  ASSUME NEW s \in Seq(Events), CountOf(s, "turn.completed") = 0, CountOf(s, "turn.failed") = 0
  PROVE  ~ LastOf(s, "turn.completed") /\ ~ LastOf(s, "turn.failed")
  BY Counts DEF LastOf

\* One more event of any kind.
LEMMA CountNext ==
  ASSUME NEW s \in Seq(Events), NEW x \in Events
  PROVE  /\ Append(s, x) \in Seq(Events)
         /\ \A e \in Tracked : /\ CountOf(s, e) \in Nat
                              /\ CountOf(Append(s, x), e) = CountOf(s, e) + (IF x = e THEN 1 ELSE 0)
         /\ \A e : LastOf(Append(s, x), e) <=> x = e
  BY Counts, CountAppend DEF LastOf

\* A step that asks the model leaves the log ahead.
LEMMA AheadAsk ==
  ASSUME Typed, Reports, Ahead, Asking, KeepsReport, Tells
  PROVE  Ahead'
<1> DEFINE d == Len(dispatched)
<1>1. /\ log \in Seq(Events) /\ d \in Nat /\ Len(request) = 0 /\ ended = "running"
      /\ Len(last_operations) = d
      /\ Len(dispatched') = d /\ Len(last_operations') = d
  BY LenProperties DEF Typed, TypeOK, Asking, NoRequest, Reports, KeepsReport
<1> HIDE DEF d
<1>2. Even(log, d) /\ CountOf(log, "operation.requested") = d
  BY <1>1 DEF Ahead, AheadOf, d
<1>3. \A q \in Seq(Idle) :
        /\ log \o q \in Seq(Events) /\ Even(log \o q, d)
        /\ CountOf(log \o q, "operation.requested") = d
        /\ ~ LastOf(log \o q, "turn.completed") /\ ~ LastOf(log \o q, "turn.failed")
  <2> SUFFICES ASSUME NEW q \in Seq(Idle)
               PROVE  /\ log \o q \in Seq(Events) /\ Even(log \o q, d)
                      /\ CountOf(log \o q, "operation.requested") = d
                      /\ ~ LastOf(log \o q, "turn.completed") /\ ~ LastOf(log \o q, "turn.failed")
    OBVIOUS
  <2>1. /\ log \o q \in Seq(Events)
        /\ \A e \in Tracked : CountOf(log \o q, e) = CountOf(log, e)
    BY <1>1, CountIdle DEF Tracked
  <2>2. Even(log \o q, d) /\ CountOf(log \o q, "operation.requested") = d
    BY <1>2, <2>1 DEF Even, Tracked
  <2>3. ~ LastOf(log \o q, "turn.completed") /\ ~ LastOf(log \o q, "turn.failed")
    BY <2>1, <2>2, NoEnding DEF Even
  <2> QED BY <2>1, <2>2, <2>3
<1>4. CASE Quietly /\ ended' \notin Returned /\ request' = NoRequest
  <2>1. PICK q \in Seq(Idle) : log' = log \o q
    BY <1>4 DEF Quietly
  <2>2. Even(log', d) /\ CountOf(log', "operation.requested") = d
        /\ ~ LastOf(log', "turn.completed") /\ ~ LastOf(log', "turn.failed")
    BY <1>3, <2>1
  <2>3. Len(request') = 0
    BY <1>4 DEF NoRequest
  <2>4. AheadOf(log', d, 0, ended')
    BY <1>1, <1>4, <2>2 DEF AheadOf, Even
  <2> QED BY <1>1, <2>2, <2>3, <2>4 DEF Ahead, Even
<1>5. ASSUME NEW x \in {"turn.failed", "turn.completed", "operation.requested"}, Ends(x)
      PROVE  /\ \A e \in Tracked :
                  CountOf(log', e) = (IF e \in {"turn.failed", "turn.completed"} THEN 0 ELSE d)
                                     + (IF x = e THEN 1 ELSE 0)
             /\ \A e : LastOf(log', e) <=> x = e
  <2>1. PICK q \in Seq(Idle) : log' = Append(log \o q, x)
    BY <1>5 DEF Ends
  <2>2. x \in Events
    BY DEF Events
  <2> DEFINE t == log \o q
  <2>3. t \in Seq(Events)
    BY <1>3
  <2>4. /\ \A e \in Tracked : CountOf(log', e) = CountOf(t, e) + (IF x = e THEN 1 ELSE 0)
        /\ \A e : LastOf(log', e) <=> x = e
    <3> HIDE DEF t
    <3>1. log' = Append(t, x)
      BY <2>1 DEF t
    <3> QED BY <2>2, <2>3, <3>1, CountNext
  <2> QED BY <1>3, <2>4 DEF Even, Tracked
<1>6. CASE Ends("turn.failed") /\ ended' = "raised" /\ request' = NoRequest
  <2>1. /\ CountOf(log', "turn.failed") = 1 /\ CountOf(log', "turn.completed") = 0
        /\ CountOf(log', "operation.requested") = d /\ CountOf(log', "mediation.decision") = d
        /\ CountOf(log', "operation.result") = d
        /\ LastOf(log', "turn.failed") /\ ~ LastOf(log', "turn.completed")
    BY <1>1, <1>5, <1>6 DEF Tracked
  <2>2. Len(request') = 0
    BY <1>6 DEF NoRequest
  <2> QED BY <1>1, <1>6, <2>1, <2>2 DEF Ahead, AheadOf, Returned
<1>7. CASE Ends("turn.completed") /\ ended' \in Returned /\ request' = NoRequest
  <2>1. /\ CountOf(log', "turn.failed") = 0 /\ CountOf(log', "turn.completed") = 1
        /\ CountOf(log', "operation.requested") = d /\ CountOf(log', "mediation.decision") = d
        /\ CountOf(log', "operation.result") = d
        /\ ~ LastOf(log', "turn.failed") /\ LastOf(log', "turn.completed")
    BY <1>1, <1>5, <1>7 DEF Tracked
  <2>2. Len(request') = 0
    BY <1>7 DEF NoRequest
  <2> QED BY <1>1, <1>7, <2>1, <2>2 DEF Ahead, AheadOf, Returned
<1>8. CASE Ends("operation.requested") /\ ended' = "running" /\ Len(request') = 1
  <2>1. /\ CountOf(log', "turn.failed") = 0 /\ CountOf(log', "turn.completed") = 0
        /\ CountOf(log', "operation.requested") = d + 1 /\ CountOf(log', "mediation.decision") = d
        /\ CountOf(log', "operation.result") = d
        /\ ~ LastOf(log', "turn.failed") /\ ~ LastOf(log', "turn.completed")
    BY <1>1, <1>5, <1>8 DEF Tracked
  <2> QED BY <1>1, <1>8, <2>1 DEF Ahead, AheadOf, Even, Returned
<1> QED BY <1>4, <1>6, <1>7, <1>8 DEF Tells

\* A dispatch leaves it ahead.
LEMMA AheadDispatch ==
  ASSUME Typed, Reports, Ahead, Dispatching, request' = NoRequest, NEW operation \in Operations,
         dispatched' = Append(dispatched, operation), Accounts(operation)
  PROVE  Ahead'
<1> DEFINE d == Len(dispatched)
           decided == Append(log, "mediation.decision")
           resulted == Append(decided, "operation.result")
<1>1. /\ log \in Seq(Events) /\ d \in Nat /\ ended = "running"
      /\ Len(last_operations) = d /\ last_operations \in Seq(Operations)
      /\ Len(dispatched') = d + 1 /\ Len(request') = 0 /\ Len(request) = 1
      /\ Len(Append(last_operations, operation)) = d + 1
  <2>1. request \in {<<s>> : s \in Signatures}
    BY DEF Typed, TypeOK, Dispatching
  <2>2. Len(request) = 1 /\ Len(request') = 0
    BY <2>1 DEF NoRequest
  <2>3. /\ log \in Seq(Events) /\ dispatched \in Seq(Operations) /\ last_operations = dispatched
        /\ ended = "running"
    BY DEF Typed, TypeOK, Dispatching, Reports
  <2> QED BY <2>2, <2>3, LenProperties, AppendProperties
<1>2. /\ CountOf(log, "turn.completed") = 0 /\ CountOf(log, "turn.failed") = 0
      /\ CountOf(log, "mediation.decision") = d /\ CountOf(log, "operation.result") = d
      /\ CountOf(log, "operation.requested") = d + 1
      /\ ~ LastOf(log, "turn.completed") /\ ~ LastOf(log, "turn.failed")
  BY <1>1, NoEnding DEF Ahead, AheadOf, Even
<1>3. "mediation.decision" \in Events /\ "operation.result" \in Events /\ "turn.failed" \in Events
  BY DEF Events
<1>4. /\ decided \in Seq(Events)
      /\ CountOf(decided, "turn.completed") = 0 /\ CountOf(decided, "turn.failed") = 0
      /\ CountOf(decided, "mediation.decision") = d + 1 /\ CountOf(decided, "operation.result") = d
      /\ CountOf(decided, "operation.requested") = d + 1
      /\ ~ LastOf(decided, "turn.completed") /\ ~ LastOf(decided, "turn.failed")
  BY <1>1, <1>2, <1>3, CountNext DEF Tracked
<1> HIDE DEF decided
<1>5. /\ resulted \in Seq(Events)
      /\ CountOf(resulted, "turn.completed") = 0 /\ CountOf(resulted, "turn.failed") = 0
      /\ CountOf(resulted, "mediation.decision") = d + 1 /\ CountOf(resulted, "operation.result") = d + 1
      /\ CountOf(resulted, "operation.requested") = d + 1
      /\ ~ LastOf(resulted, "turn.completed") /\ ~ LastOf(resulted, "turn.failed")
  <2>1. /\ resulted \in Seq(Events)
        /\ \A e \in Tracked : CountOf(resulted, e) = CountOf(decided, e) + (IF "operation.result" = e THEN 1 ELSE 0)
        /\ \A e : LastOf(resulted, e) <=> "operation.result" = e
    BY <1>3, <1>4, CountNext
  <2> HIDE DEF resulted
  <2> QED BY <1>1, <1>4, <2>1 DEF Tracked
<1> HIDE DEF resulted
<1> DEFINE failed == Append(resulted, "turn.failed")
<1>6. /\ CountOf(failed, "turn.completed") = 0 /\ CountOf(failed, "turn.failed") = 1
      /\ CountOf(failed, "mediation.decision") = d + 1 /\ CountOf(failed, "operation.result") = d + 1
      /\ CountOf(failed, "operation.requested") = d + 1
      /\ ~ LastOf(failed, "turn.completed") /\ LastOf(failed, "turn.failed")
  <2>1. /\ failed \in Seq(Events)
        /\ \A e \in Tracked : CountOf(failed, e) = CountOf(resulted, e) + (IF "turn.failed" = e THEN 1 ELSE 0)
        /\ \A e : LastOf(failed, e) <=> "turn.failed" = e
    BY <1>3, <1>5, CountNext
  <2> HIDE DEF failed
  <2> QED BY <1>1, <1>5, <2>1 DEF Tracked
<1> HIDE DEF failed, d
<1>7. CASE log' = log /\ ended' = "escaped" /\ UNCHANGED last_operations
  BY <1>1, <1>2, <1>7 DEF Ahead, AheadOf, Returned
<1>8. CASE log' = decided /\ ended' = "escaped" /\ UNCHANGED last_operations
  BY <1>1, <1>4, <1>8 DEF Ahead, AheadOf, Returned
<1>9. CASE /\ log' = decided /\ ended' = "raised"
           /\ last_operations' = Append(last_operations, operation)
  BY <1>1, <1>4, <1>9 DEF Ahead, AheadOf, Returned
<1>10. CASE /\ log' = resulted /\ ended' \in {"running", "raised"}
            /\ last_operations' = Append(last_operations, operation)
  BY <1>1, <1>5, <1>10 DEF Ahead, AheadOf, Even, Returned
<1>11. CASE /\ log' = failed /\ ended' = "raised"
            /\ last_operations' = Append(last_operations, operation)
  BY <1>1, <1>6, <1>11 DEF Ahead, AheadOf, Returned
<1> QED BY <1>7, <1>8, <1>9, <1>10, <1>11 DEF Accounts, failed, resulted, decided

\* The message of the user, which the sink may not take, begins the log of the turn.
LEMMA AheadBegin ==
  ASSUME Typed, step
  PROVE  Ahead'
<1>1. /\ dispatched' = <<>> /\ request' = <<>> /\ last_operations' = <<>>
      /\ ended' \in {"running", "raised"}
      /\ \E n \in Taken(<<"user.message">>) : log' = SubSeq(<<"user.message">>, 1, n)
  BY DEF step, Start, NoRequest
<1>2. log' \in Seq(Idle)
  <2>1. <<"user.message">> \in Seq(Events) /\ Len(<<"user.message">>) = 1
        /\ \A i \in 1 .. 1 : <<"user.message">>[i] \in Idle
    BY DEF Events, Idle, Tracked
  <2>2. PICK n \in 0 .. 1 : log' = SubSeq(<<"user.message">>, 1, n)
    BY <1>1, <2>1, TakenTypes
  <2>3. \A i \in 1 .. n : <<"user.message">>[i] \in Idle
    BY <2>1
  <2> QED BY <2>2, <2>3, SubSeqProperties
<1>3. log' \in Seq(Events) /\ <<>> \in Seq(Events) /\ <<>> \o log' = log'
  <2>1. log' \in Seq(Events)
    BY <1>2, IdleTypes
  <2> QED BY <2>1, EmptySeq, ConcatEmptySeq
<1>4. \A e \in Tracked : CountOf(log', e) = 0
  <2> SUFFICES ASSUME NEW e \in Tracked
               PROVE  CountOf(log', e) = 0
    OBVIOUS
  <2>1. CountOf(<<>> \o log', e) = CountOf(<<>>, e)
    BY <1>2, <1>3, CountIdle
  <2> QED BY <1>3, <2>1, Counts
<1>5. /\ CountOf(log', "turn.completed") = 0 /\ CountOf(log', "turn.failed") = 0
      /\ CountOf(log', "mediation.decision") = 0 /\ CountOf(log', "operation.result") = 0
      /\ CountOf(log', "operation.requested") = 0
  BY <1>4 DEF Tracked
<1>6. ~ LastOf(log', "turn.completed") /\ ~ LastOf(log', "turn.failed")
  BY <1>3, <1>5, NoEnding
<1>7. Len(dispatched') = 0 /\ Len(request') = 0 /\ Len(last_operations') = 0
  BY <1>1
<1> QED BY <1>1, <1>5, <1>6, <1>7 DEF Ahead, AheadOf, Even, Returned

\* It is ahead from the start, and every step of the loop keeps it so.
LEMMA AheadInit ==
  ASSUME Init
  PROVE  Ahead
<1>1. /\ log = <<>> /\ dispatched = <<>> /\ request = <<>> /\ last_operations = <<>>
      /\ ended = "none"
  BY DEF Init, NoRequest
<1>2. <<>> \in Seq(Events) /\ Len(<<>>) = 0
  BY EmptySeq
<1>3. \A e : CountOf(log, e) = 0 /\ ~ LastOf(log, e)
  BY <1>1, <1>2, Counts DEF LastOf
<1> QED BY <1>1, <1>2, <1>3 DEF Ahead, AheadOf, Returned

\* Every step of the loop keeps it.
LEMMA AheadStep ==
  ASSUME Typed, Reports, Ahead, [Next]_vars
  PROVE  Ahead'
<1>1. CASE step
  BY <1>1, AheadBegin
<1>2. ASSUME NEW category \in Outcomes, dispatch(category)
      PROVE  Ahead'
  <2>1. PICK operation \in Operations : dispatched' = Append(dispatched, operation) /\ Accounts(operation)
    BY <1>2, DispatchTells
  <2>2. Dispatching /\ request' = NoRequest
    BY <1>2 DEF dispatch
  <2> QED BY <2>1, <2>2, AheadDispatch
<1>3. CASE Proceed /\ \A category \in Outcomes : ~ dispatch(category)
  BY <1>3, AskStep, AskTells, AheadAsk
<1>4. CASE UNCHANGED vars
  BY <1>4 DEF vars, Ahead, AheadOf, Even, LastOf, CountOf
<1> QED BY <1>1, <1>2, <1>3, <1>4 DEF Next

\* Of a session, all of it together is inductive.
LEMMA SessionInvariant == SessionSpec => [](Loop /\ Prompted /\ Ahead)
<1>1. SessionInit => Loop /\ Prompted /\ Ahead
  BY SessionSteps, LoopInit, PromptedInit, AheadInit
<1>2. (Loop /\ Prompted /\ Ahead) /\ [SessionNext]_svars => (Loop /\ Prompted /\ Ahead)'
  <2> SUFFICES ASSUME Loop, Prompted, Ahead, [SessionNext]_svars
               PROVE  (Loop /\ Prompted /\ Ahead)'
    OBVIOUS
  <2>1. [Next]_vars
    BY SessionSteps
  <2>2. Loop' /\ Ahead'
    BY <2>1, LoopStep, AheadStep DEF Loop
  <2>3. Prompted'
    BY PromptedStep
  <2> QED BY <2>2, <2>3
<1> QED BY <1>1, <1>2, PTL DEF SessionSpec

\* What Ahead says of the log is LogAhead.
LEMMA AheadMeans ==
  ASSUME Typed, Ahead
  PROVE  LogAhead
<1>1. /\ \A e : Logged(e) = CountOf(log, e)
      /\ \A e : Last(e) <=> LastOf(log, e)
  BY DEF Logged, CountOf, Last, LastOf
<1> QED BY <1>1 DEF Ahead, AheadOf, LogAhead

\* What the operator is shown agrees with the log.
LEMMA SeenTurn ==
  ASSUME Loop, Prompted, Ahead
  PROVE  OperatorSeesTurn
<1> SUFFICES ASSUME repl = "prompt", turn > 0
             PROVE  /\ shown.turn = turn
                    /\ shown.error <=> ~ Last("turn.completed")
                    /\ Len(shown.operations) >= Logged("operation.result")
                    /\ shown.operations = SubSeq(dispatched, 1, Len(shown.operations))
  BY DEF OperatorSeesTurn
<1>1. /\ shown.turn = turn /\ shown.operations = last_operations
      /\ shown.error <=> ended \notin Returned
  BY DEF Prompted
<1>2. Last("turn.completed") <=> ended \in Returned
  BY AheadMeans DEF Loop, LogAhead
<1>3. last_operations = SubSeq(dispatched, 1, Len(last_operations))
  BY LoopImplies DEF TruthfulReport
<1>4. Logged("operation.result") <= Len(last_operations) /\ Logged("operation.result") \in Nat
      /\ Len(last_operations) \in Nat
  <2>1. log \in Seq(Events) /\ last_operations \in Seq(Operations)
    BY DEF Loop, Typed, TypeOK
  <2>2. CountOf(log, "operation.result") \in Nat /\ Len(last_operations) \in Nat
    BY <2>1, Counts, LenProperties
  <2> QED BY <2>2 DEF Ahead, Logged, CountOf
<1> QED BY <1>1, <1>2, <1>3, <1>4

\* Type correctness of a session.
THEOREM SessionTypeCorrectness == SessionSpec => []SessionTypeOK
<1>1. Loop /\ Prompted => SessionTypeOK
  BY DEF Loop, Typed, Prompted, SessionTypeOK
<1> QED BY <1>1, SessionInvariant, PTL

\* What the loop promises, it promises in a session (loop.py).
THEOREM SessionKeepsPromises ==
  SessionSpec => [](TurnBounded /\ IntegrityEndsTurn /\ LoopsAreDetected
                    /\ HistoryIsWhole /\ TruthfulReport)
  BY SessionLoop, LoopImplies, PTL

\* The log is written ahead of every effect (EventLog.emit and the calls of event_sink in
\* step).
THEOREM LogIsAhead == SessionSpec => []LogAhead
<1>1. Loop /\ Ahead => LogAhead
  BY AheadMeans DEF Loop
<1> QED BY <1>1, SessionInvariant, PTL

\* At the prompt the operator has seen what the log says of the turn (render_turn and
\* render_outcome_error).
THEOREM OperatorSeesEveryTurn == SessionSpec => []OperatorSeesTurn
<1>1. Loop /\ Prompted /\ Ahead => OperatorSeesTurn
  BY SeenTurn
<1> QED BY <1>1, SessionInvariant, PTL
=============================================================================
