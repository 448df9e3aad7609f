----------------------- MODULE SequenceWorkflow_proofs -----------------------
(***************************************************************************)
(* For every set of requests and every number of retries: the typing       *)
(* invariant of SequenceWorkflow, its safety invariants, and that it       *)
(* implements SerialQueue.                                                 *)
(***************************************************************************)
EXTENDS SequenceWorkflow, SequenceTheorems, TLAPS

-----------------------------------------------------------------------------
(* Facts about sequences.                                                  *)

\* Nothing is in the empty sequence.
LEMMA RangeEmpty == Range(<<>>) = {}
BY DEF Range

\* Appending adds exactly the new element.
LEMMA RangeAppend ==
    ASSUME NEW S, NEW s \in Seq(S), NEW x \in S
    PROVE  Range(Append(s, x)) = Range(s) \cup {x}
<1>0. <<x>> \in Seq(S)
  OBVIOUS
<1>1. PICK t \in Seq(S) : t = <<x>>
  BY <1>0, Zenon
<1>2. Append(s, x) = s \o t
  BY <1>1, AppendIsConcat
<1>3. Range(t) = {x}
  BY <1>1 DEF Range
<1>4. Range(s \o t) = Range(s) \cup Range(t)
  BY RangeConcatenation
<1>5. QED BY <1>2, <1>3, <1>4

\* Removing the head of a sequence loses nothing but the head.
LEMMA RangeTail ==
    ASSUME NEW S, NEW s \in Seq(S), s # <<>>
    PROVE  /\ Head(s) \in S
           /\ Tail(s) \in Seq(S)
           /\ s = <<Head(s)>> \o Tail(s)
           /\ Range(s) = {Head(s)} \cup Range(Tail(s))
<1>1. Head(s) \in S /\ Tail(s) \in Seq(S)
  BY HeadTailProperties
<1>2. s = <<Head(s)>> \o Tail(s)
  BY <1>1
<1>0. <<Head(s)>> \in Seq(S)
  BY <1>1
<1>3. PICK h \in Seq(S) : h = <<Head(s)>>
  BY <1>0, Zenon
<1>4. Range(h) = {Head(s)}
  BY <1>3 DEF Range
<1>5. Range(h \o Tail(s)) = Range(h) \cup Range(Tail(s))
  BY <1>1, RangeConcatenation
<1>6. QED BY <1>1, <1>2, <1>3, <1>4, <1>5

\* The head of a queue in two parts is the head of its first part.
LEMMA HeadOfConcat ==
    ASSUME NEW S, NEW s \in Seq(S), NEW t \in Seq(S), s # <<>>
    PROVE  /\ s \o t # <<>>
           /\ Head(s \o t) = Head(s)
           /\ Tail(s \o t) = Tail(s) \o t
  OBVIOUS

\* A new arrival goes to the end of a queue in two parts.
LEMMA AppendToConcat ==
    ASSUME NEW S, NEW s \in Seq(S), NEW t \in Seq(S), NEW x \in S
    PROVE  s \o Append(t, x) = Append(s \o t, x)
<1>1. <<x>> \in Seq(S) /\ s \o t \in Seq(S)
  OBVIOUS
<1>2. Append(t, x) = t \o <<x>> /\ Append(s \o t, x) = (s \o t) \o <<x>>
  BY <1>1, AppendIsConcat
<1>3. QED BY <1>1, <1>2, ConcatAssociative

-----------------------------------------------------------------------------
(* The invariants.                                                         *)

\* What the safety invariants and the refinement rest on.  A caller waits for
\* another attempt only if it has one left.  A closed run holds nothing, and
\* a run that decided to exit has received every signal it had seen: that is
\* what selector.HasPending() is there for.
AttemptsLeft == \A r \in Requests : caller[r] = "waiting" => attempt[r] < MaxRetries

RunShape == /\ run = "closed" => signals = <<>> /\ incoming = <<>>
            /\ run = "exiting" => signals = <<>>
            /\ RunWaitsForItsChild

IInv == TypeOK /\ AttemptsLeft /\ RunShape /\ AcceptedRequestIsKept

\* The short sequences that a new run starts with.
LEMMA ShortSequences == /\ <<>> \in Seq(Requests)
                        /\ \A r \in Requests : /\ <<r>> \in Seq(Requests)
                                               /\ <<r>> = Append(<<>>, r)
<1>1. <<>> \in Seq(Requests)
  BY EmptySeq
<1>2. ASSUME NEW r \in Requests
      PROVE  <<r>> \in Seq(Requests) /\ <<r>> = Append(<<>>, r)
  OBVIOUS
<1>3. QED BY <1>1, <1>2, Zenon

LEMMA InitIInv == Init => IInv
<1> SUFFICES ASSUME Init PROVE IInv
  OBVIOUS
<1>1. TypeOK
  <2>1. incoming \in Seq(Requests) /\ signals \in Seq(Requests)
    BY ShortSequences, Zenon DEF Init
  <2>2. attempt \in [Requests -> 0..MaxRetries]
    BY RetriesAssumption DEF Init
  <2>3. QED
    BY <2>1, <2>2, Zenon DEF Init, TypeOK, CallerStates, RunStates, ChildStates
<1>2. AttemptsLeft /\ RunShape /\ AcceptedRequestIsKept
  BY DEF Init, AttemptsLeft, RunShape, RunWaitsForItsChild, AcceptedRequestIsKept
<1>3. QED BY <1>1, <1>2 DEF IInv

\* A signal that takes effect leaves the types and the shape of the run
\* intact, is queued, and takes nothing out of the queue.
LEMMA SignalIsQueued ==
    ASSUME TypeOK, RunShape, NEW r \in Requests, SignalWithStart(r)
    PROVE  /\ run' \in RunStates
           /\ run' # "closed"
           /\ run' = run \/ (run = "closed" /\ run' = "selecting")
           /\ incoming' \in Seq(Requests)
           /\ signals' = signals
           /\ timerFired' \in BOOLEAN /\ exitFlag' \in BOOLEAN
           /\ current' = current
           /\ incoming' = Append(incoming, r)
           /\ Range(incoming') = Range(incoming) \cup {r}
<1>1. CASE run = "closed"
  <2>1. incoming = <<>> /\ signals = <<>> /\ current = None
    BY <1>1 DEF RunShape, RunWaitsForItsChild
  <2>2. incoming' = Append(incoming, r) /\ incoming' \in Seq(Requests)
    BY <1>1, <2>1, ShortSequences, Zenon DEF SignalWithStart
  <2>3. Range(incoming') = Range(incoming) \cup {r}
    BY <2>2, RangeAppend DEF TypeOK
  <2>4. QED BY <1>1, <2>1, <2>2, <2>3 DEF SignalWithStart, RunStates
<1>2. CASE run # "closed"
  <2>1. incoming' = Append(incoming, r)
    BY <1>2 DEF SignalWithStart
  <2>4. incoming' \in Seq(Requests)
    BY <2>1, AppendProperties DEF TypeOK
  <2>2. Range(incoming') = Range(incoming) \cup {r}
    BY <2>1, RangeAppend DEF TypeOK
  <2>3. QED BY <1>2, <2>1, <2>2, <2>4 DEF SignalWithStart, TypeOK
<1>3. QED BY <1>1, <1>2

\* The typing part of the induction, action by action.
LEMMA NextTypeOK == IInv /\ [Next]_vars => TypeOK'
<1> SUFFICES ASSUME TypeOK, AttemptsLeft, RunShape, [Next]_vars PROVE TypeOK'
  BY DEF IInv
<1> USE DEF TypeOK, CallerStates, ChildStates
<1>1. ASSUME NEW r \in Requests, ExecuteSequentialWorkflow(r) PROVE TypeOK'
  BY <1>1, RetriesAssumption DEF ExecuteSequentialWorkflow, runVars
<1>2. ASSUME NEW r \in Requests, SendOk(r) PROVE TypeOK'
  BY <1>2, SignalIsQueued DEF SendOk
<1>3. ASSUME NEW r \in Requests, SendAmbiguous(r) PROVE TypeOK'
  BY <1>3, SignalIsQueued DEF SendAmbiguous, AfterRetryableError
<1>4. ASSUME NEW r \in Requests, SendRetryableError(r) PROVE TypeOK'
  BY <1>4 DEF SendRetryableError, AfterRetryableError, runVars
<1>5. ASSUME NEW r \in Requests, SendFatalError(r) PROVE TypeOK'
  BY <1>5 DEF SendFatalError, runVars
<1>6. ASSUME NEW r \in Requests, NextAttempt(r) PROVE TypeOK'
  <2>1. attempt[r] + 1 \in 0..MaxRetries
    BY <1>6, RetriesAssumption DEF NextAttempt, AttemptsLeft
  <2>2. QED BY <1>6, <2>1 DEF NextAttempt, runVars
<1>7. ASSUME NEW r \in Requests, ContextDone(r) PROVE TypeOK'
  BY <1>7 DEF ContextDone, runVars
<1>8. CASE DeliverSignals
  <2>1. signals' \in Seq(Requests) /\ incoming' \in Seq(Requests)
    BY <1>8, ShortSequences, ConcatProperties DEF DeliverSignals
  <2>2. QED BY <1>8, <2>1 DEF DeliverSignals, callerVars, RunStates
<1>9. CASE TimerFires
  BY <1>9 DEF TimerFires, callerVars
<1>10. CASE SelectReceive
  BY <1>10, RangeTail DEF SelectReceive, callerVars, RunStates
<1>11. CASE SelectReceiveDuplicate
  BY <1>11, RangeTail DEF SelectReceiveDuplicate, AfterSelect, callerVars, RunStates
<1>12. CASE SelectTimeout
  BY <1>12 DEF SelectTimeout, AfterSelect, callerVars, RunStates
<1>13. CASE CompleteRun
  <2>1. signals' \in Seq(Requests)
    BY <1>13, ShortSequences, Zenon DEF CompleteRun
  <2>2. QED BY <1>13, <2>1 DEF CompleteRun, callerVars, RunStates
<1>14. ASSUME NEW r \in Requests, ChildCloses(r) PROVE TypeOK'
  BY <1>14 DEF ChildCloses, AfterSelect, callerVars, RunStates
<1>15. ASSUME NEW r \in Requests, TerminateOrphan(r) PROVE TypeOK'
  BY <1>15 DEF TerminateOrphan, callerVars, runVars
<1>16. CASE RunTimesOut
  <2>1. signals' \in Seq(Requests) /\ incoming' \in Seq(Requests)
    BY <1>16, ShortSequences, Zenon DEF RunTimesOut
  <2>2. Range(signals) \subseteq Requests /\ Range(incoming) \subseteq Requests
    BY RangeOfSeq
  <2>3. QED BY <1>16, <2>1, <2>2 DEF RunTimesOut, callerVars, RunStates
<1>17. CASE UNCHANGED vars
  BY <1>17 DEF vars
<1>18. QED
  BY <1>1, <1>2, <1>3, <1>4, <1>5, <1>6, <1>7, <1>8, <1>9, <1>10, <1>11,
     <1>12, <1>13, <1>14, <1>15, <1>16, <1>17
  DEF Next, CallerNext, RunNext, ServerNext

\* Retries and the shape of the run.
LEMMA NextRunShape == IInv /\ [Next]_vars => AttemptsLeft' /\ RunShape'
<1> SUFFICES ASSUME TypeOK, AttemptsLeft, RunShape, [Next]_vars
             PROVE  AttemptsLeft' /\ RunShape'
  BY DEF IInv
<1> USE DEF TypeOK, AttemptsLeft, RunShape, RunWaitsForItsChild
<1>1. ASSUME NEW r \in Requests, ExecuteSequentialWorkflow(r)
      PROVE  AttemptsLeft' /\ RunShape'
  BY <1>1 DEF ExecuteSequentialWorkflow, runVars
<1>2. ASSUME NEW r \in Requests, SendOk(r) PROVE AttemptsLeft' /\ RunShape'
  BY <1>2, SignalIsQueued DEF SendOk
<1>3. ASSUME NEW r \in Requests, SendAmbiguous(r) PROVE AttemptsLeft' /\ RunShape'
  BY <1>3, SignalIsQueued DEF SendAmbiguous, AfterRetryableError
<1>4. ASSUME NEW r \in Requests, SendRetryableError(r)
      PROVE  AttemptsLeft' /\ RunShape'
  BY <1>4 DEF SendRetryableError, AfterRetryableError, runVars
<1>5. ASSUME NEW r \in Requests, SendFatalError(r) PROVE AttemptsLeft' /\ RunShape'
  BY <1>5 DEF SendFatalError, runVars
<1>6. ASSUME NEW r \in Requests, NextAttempt(r) PROVE AttemptsLeft' /\ RunShape'
  BY <1>6 DEF NextAttempt, runVars
<1>7. ASSUME NEW r \in Requests, ContextDone(r) PROVE AttemptsLeft' /\ RunShape'
  BY <1>7 DEF ContextDone, runVars
<1>8. CASE DeliverSignals
  BY <1>8 DEF DeliverSignals, callerVars
<1>9. CASE TimerFires
  BY <1>9 DEF TimerFires, callerVars
<1>10. CASE SelectReceive
  BY <1>10, RangeTail, NoneAssumption DEF SelectReceive, callerVars
<1>11. CASE SelectReceiveDuplicate
  BY <1>11 DEF SelectReceiveDuplicate, AfterSelect, HasPending, callerVars
<1>12. CASE SelectTimeout
  BY <1>12 DEF SelectTimeout, AfterSelect, HasPending, callerVars
<1>13. CASE CompleteRun
  BY <1>13 DEF CompleteRun, callerVars
<1>14. ASSUME NEW r \in Requests, ChildCloses(r) PROVE AttemptsLeft' /\ RunShape'
  BY <1>14, NoneAssumption DEF ChildCloses, AfterSelect, HasPending, callerVars
<1>15. ASSUME NEW r \in Requests, TerminateOrphan(r)
       PROVE  AttemptsLeft' /\ RunShape'
  BY <1>15 DEF TerminateOrphan, callerVars, runVars
<1>16. CASE RunTimesOut
  BY <1>16 DEF RunTimesOut, callerVars
<1>17. CASE UNCHANGED vars
  BY <1>17 DEF vars
<1>18. QED
  BY <1>1, <1>2, <1>3, <1>4, <1>5, <1>6, <1>7, <1>8, <1>9, <1>10, <1>11,
     <1>12, <1>13, <1>14, <1>15, <1>16, <1>17
  DEF Next, CallerNext, RunNext, ServerNext

\* An accepted request stays accounted for: nothing leaves the queue without
\* being started before, being started now, or being recorded as dropped.
LEMMA NextKept == IInv /\ [Next]_vars => AcceptedRequestIsKept'
<1> SUFFICES ASSUME TypeOK, RunShape, AcceptedRequestIsKept, [Next]_vars
             PROVE  AcceptedRequestIsKept'
  BY DEF IInv
<1> DEFINE Queued == Range(signals) \cup Range(incoming)
<1> USE DEF AcceptedRequestIsKept
<1>1. ASSUME NEW r \in Requests,
             \/ ExecuteSequentialWorkflow(r)
             \/ SendRetryableError(r)
             \/ SendFatalError(r)
             \/ NextAttempt(r)
             \/ ContextDone(r)
      PROVE  AcceptedRequestIsKept'
  BY <1>1 DEF ExecuteSequentialWorkflow, SendRetryableError, SendFatalError,
              NextAttempt, ContextDone, AfterRetryableError, runVars, TypeOK
<1>2. ASSUME NEW r \in Requests, SendOk(r) \/ SendAmbiguous(r)
      PROVE  AcceptedRequestIsKept'
  <2>1. Queued' = Queued \cup {r}
    BY <1>2, SignalIsQueued DEF SendOk, SendAmbiguous
  <2>2. QED
    BY <1>2, <2>1 DEF SendOk, SendAmbiguous, AfterRetryableError, TypeOK
<1>3. CASE DeliverSignals
  <2>1. Range(signals') = Queued /\ Range(incoming') = {}
    BY <1>3, RangeEmpty, RangeConcatenation DEF DeliverSignals, TypeOK
  <2>2. QED BY <1>3, <2>1 DEF DeliverSignals, callerVars
<1>4. CASE TimerFires \/ SelectTimeout
  BY <1>4 DEF TimerFires, SelectTimeout, callerVars
<1>5. CASE SelectReceive
  <2>1. Range(signals) = {Head(signals)} \cup Range(signals')
    BY <1>5, RangeTail DEF SelectReceive, TypeOK
  <2>2. child'[Head(signals)] # "none" /\ Head(signals) \in Requests
    BY <1>5, RangeTail DEF SelectReceive, TypeOK
  <2>3. QED BY <1>5, <2>1, <2>2 DEF SelectReceive, callerVars, TypeOK
<1>6. CASE SelectReceiveDuplicate
  <2>1. Range(signals) = {Head(signals)} \cup Range(signals')
    BY <1>6, RangeTail DEF SelectReceiveDuplicate, TypeOK
  <2>2. QED BY <1>6, <2>1 DEF SelectReceiveDuplicate, callerVars
<1>7. CASE CompleteRun
  <2>1. signals = signals' /\ incoming = incoming'
    BY <1>7 DEF CompleteRun, RunShape
  <2>2. QED BY <1>7, <2>1 DEF CompleteRun, callerVars
<1>8. ASSUME NEW r \in Requests, ChildCloses(r) \/ TerminateOrphan(r)
      PROVE  AcceptedRequestIsKept'
  BY <1>8 DEF ChildCloses, TerminateOrphan, callerVars, runVars, TypeOK
<1>9. CASE RunTimesOut
  BY <1>9 DEF RunTimesOut, callerVars
<1>10. CASE UNCHANGED vars
  BY <1>10 DEF vars
<1>11. QED
  BY <1>1, <1>2, <1>3, <1>4, <1>5, <1>6, <1>7, <1>8, <1>9, <1>10
  DEF Next, CallerNext, RunNext, ServerNext

LEMMA Invariance == Spec => []IInv
<1>1. IInv /\ [Next]_vars => IInv'
  BY NextTypeOK, NextRunShape, NextKept DEF IInv
<1>2. QED BY InitIInv, <1>1, PTL DEF Spec

\* Every component of the state keeps its type, whatever the requests and the
\* retry limit.
THEOREM TypeCorrect == Spec => []TypeOK
<1>1. IInv => TypeOK
  BY DEF IInv
<1>2. QED BY Invariance, <1>1, PTL

\* No accepted request is lost by the idle exit, for any number of callers
\* whose signals race it: only a run timeout drops requests.
THEOREM NoAcceptedRequestLost == Spec => []AcceptedRequestIsKept
<1>1. IInv => AcceptedRequestIsKept
  BY DEF IInv
<1>2. QED BY Invariance, <1>1, PTL

\* An open run waits for the child it started, and for no other.
THEOREM RunWaits == Spec => []RunWaitsForItsChild
<1>1. IInv => RunWaitsForItsChild
  BY DEF IInv, RunShape
<1>2. QED BY Invariance, <1>1, PTL

-----------------------------------------------------------------------------
(* The refinement.                                                         *)

\* Every step of the control workflow is a step of the serial queue, or
\* leaves the queue alone.
LEMMA StepRefinement == IInv /\ [Next]_vars => [SQ!Next]_(SQ!vars)
<1> SUFFICES ASSUME TypeOK, RunShape, [Next]_vars PROVE [SQ!Next]_(SQ!vars)
  BY DEF IInv
<1> DEFINE q == signals \o incoming
<1>1. ASSUME NEW r \in Requests,
             \/ ExecuteSequentialWorkflow(r)
             \/ SendRetryableError(r)
             \/ SendFatalError(r)
             \/ NextAttempt(r)
             \/ ContextDone(r)
      PROVE  UNCHANGED SQ!vars
  BY <1>1 DEF ExecuteSequentialWorkflow, SendRetryableError, SendFatalError,
              NextAttempt, ContextDone, runVars, SQ!vars
<1>2. ASSUME NEW r \in Requests, SendOk(r) \/ SendAmbiguous(r)
      PROVE  SQ!Enqueue(r)
  <2>1. signals' = signals /\ incoming' = Append(incoming, r)
    BY <1>2, SignalIsQueued DEF SendOk, SendAmbiguous
  <2>2. signals \o Append(incoming, r) = Append(q, r)
    BY AppendToConcat DEF TypeOK
  <2>3. q' = Append(q, r)
    BY <2>1, <2>2
  <2>4. QED
    BY <1>2, <2>3, SignalIsQueued DEF SendOk, SendAmbiguous, SQ!Enqueue
<1>3. CASE DeliverSignals
  <2>1. q \in Seq(Requests)
    BY ConcatProperties DEF TypeOK
  <2>2. q' = q \o <<>>
    BY <1>3 DEF DeliverSignals
  <2>3. q \o <<>> = q
    BY <2>1, ConcatEmptySeq, Zenon
  <2>4. QED BY <1>3, <2>2, <2>3 DEF DeliverSignals, SQ!vars
<1>4. CASE TimerFires \/ SelectTimeout
  BY <1>4 DEF TimerFires, SelectTimeout, SQ!vars
<1>5. CASE SelectReceive
  <2>1. /\ q # <<>>
        /\ Head(q) = Head(signals)
        /\ q' = Tail(q)
    BY <1>5, HeadOfConcat DEF SelectReceive, TypeOK
  <2>2. current = None
    BY <1>5 DEF SelectReceive, RunShape, RunWaitsForItsChild
  <2>3. SQ!Start
    BY <1>5, <2>1, <2>2 DEF SelectReceive, SQ!Start
  <2>4. QED BY <2>3 DEF SQ!Next
<1>6. CASE SelectReceiveDuplicate
  <2>1. /\ q # <<>>
        /\ Head(q) = Head(signals)
        /\ q' = Tail(q)
    BY <1>6, HeadOfConcat DEF SelectReceiveDuplicate, TypeOK
  <2>2. current = None
    BY <1>6 DEF SelectReceiveDuplicate, RunShape, RunWaitsForItsChild
  <2>3. SQ!Skip
    BY <1>6, <2>1, <2>2 DEF SelectReceiveDuplicate, SQ!Skip
  <2>4. QED BY <2>3 DEF SQ!Next
<1>7. CASE CompleteRun
  <2>1. signals = signals' /\ incoming = incoming'
    BY <1>7 DEF CompleteRun, RunShape
  <2>2. QED BY <1>7, <2>1 DEF CompleteRun, SQ!vars
<1>8. ASSUME NEW r \in Requests, ChildCloses(r) PROVE SQ!Finish(r)
  BY <1>8 DEF ChildCloses, SQ!Finish
<1>9. ASSUME NEW r \in Requests, TerminateOrphan(r) PROVE SQ!Kill(r)
  BY <1>9 DEF TerminateOrphan, runVars, SQ!Kill
<1>10. CASE RunTimesOut
  <2>1. q' = <<>>
    BY <1>10, ConcatEmptySeq, ShortSequences DEF RunTimesOut
  <2>2. SQ!Abandon
    BY <1>10, <2>1 DEF RunTimesOut, SQ!Abandon
  <2>3. QED BY <2>2 DEF SQ!Next
<1>11. CASE UNCHANGED vars
  BY <1>11 DEF vars, SQ!vars
<1>12. QED
  BY <1>1, <1>2, <1>3, <1>4, <1>5, <1>6, <1>7, <1>8, <1>9, <1>10, <1>11
  DEF Next, CallerNext, RunNext, ServerNext, SQ!Next

\* The control workflow implements the serial queue: one child at a time per
\* queue, in order of arrival, each request at most once.
THEOREM Refinement == Spec => ImplementsSerialQueue
<1>1. Init => SQ!Init
  <2> SUFFICES ASSUME Init PROVE SQ!Init
    OBVIOUS
  <2>1. signals \o incoming = <<>>
    BY ConcatEmptySeq, ShortSequences DEF Init
  <2>2. QED BY <2>1 DEF Init, SQ!Init
<1>2. QED
  BY <1>1, StepRefinement, Invariance, PTL DEF Spec, ImplementsSerialQueue, SQ!Spec
=============================================================================
