-------------------------- MODULE SequenceWorkflow --------------------------
(***************************************************************************)
(* The control workflow that serialises the operations on one pool         *)
(* (core/orchestrator/workflows/control_workflow.go) and the executor that *)
(* API handlers use to send it work (workflowExecutor.go).                 *)
(*                                                                         *)
(* A caller signals the control workflow, starting it when no run of it is *)
(* open; the run receives one signal at a time, executes the child         *)
(* workflow the signal names and waits for it.  A single three-second      *)
(* timer, armed when the run starts, tells an idle run to exit.            *)
(*                                                                         *)
(* The Temporal server is external.  What the code relies on is modelled:  *)
(* a signal is recorded with the run before the run's code sees it; a run  *)
(* that asks to complete while the server holds a signal it has not seen   *)
(* is executed again; a child workflow ID is accepted once                 *)
(* (REJECT_DUPLICATE); a run that exceeds WorkflowRunTimeout is closed and *)
(* its signals are lost; the child of a closed run is terminated by the    *)
(* server some time later (the default parent close policy).               *)
(***************************************************************************)
EXTENDS Naturals, Sequences, Functions

CONSTANTS Requests,     \* child workflow IDs: one per job
          None,         \* no request
          MaxRetries    \* temporalWorkflowMaxRetries

ASSUME NoneAssumption == None \notin Requests
ASSUME RetriesAssumption == MaxRetries \in Nat \ {0}

VARIABLES caller,       \* the position of each ExecuteSequentialWorkflow call
          attempt,      \* its attempt number
          run,          \* the position of the open run of the control workflow
          incoming,     \* signals the server holds and the run has not seen
          signals,      \* signalChan: signals the run has seen, not received
          timerFired,   \* the timeout future is ready
          exitFlag,
          current,      \* the child workflow the run waits for
          child,        \* the state of each child workflow
          dropped       \* (history) requests lost when a run timed out

callerVars == <<caller, attempt>>
runVars    == <<run, incoming, signals, timerFired, exitFlag, current>>
vars       == <<caller, attempt, run, incoming, signals, timerFired, exitFlag,
                current, child, dropped>>

CallerStates == {"idle", "sending", "waiting", "ok", "failed"}
RunStates    == {"closed", "selecting", "child", "exiting"}
ChildStates  == {"none", "running", "completed", "failed", "terminated"}

TypeOK == /\ caller \in [Requests -> CallerStates]
          /\ attempt \in [Requests -> 0..MaxRetries]
          /\ run \in RunStates
          /\ incoming \in Seq(Requests)
          /\ signals \in Seq(Requests)
          /\ timerFired \in BOOLEAN
          /\ exitFlag \in BOOLEAN
          /\ current \in Requests \cup {None}
          /\ child \in [Requests -> ChildStates]
          /\ dropped \subseteq Requests

Init == /\ caller = [r \in Requests |-> "idle"]
        /\ attempt = [r \in Requests |-> 0]
        /\ run = "closed"
        /\ incoming = <<>>
        /\ signals = <<>>
        /\ timerFired = FALSE
        /\ exitFlag = FALSE
        /\ current = None
        /\ child = [r \in Requests |-> "none"]
        /\ dropped = {}

-----------------------------------------------------------------------------
(* The caller: ExecuteSequentialWorkflow and its retry loop.               *)

ExecuteSequentialWorkflow(r) ==
    /\ caller[r] = "idle"
    /\ caller' = [caller EXCEPT ![r] = "sending"]
    /\ attempt' = [attempt EXCEPT ![r] = 1]
    /\ UNCHANGED <<runVars, child, dropped>>

\* SignalWithStartWorkflow takes effect on the server: the open run gets one
\* more signal, or a new run is started that holds just this one.
SignalWithStart(r) ==
    IF run = "closed"
      THEN /\ run' = "selecting"
           /\ incoming' = <<r>>
           /\ signals' = <<>>
           /\ timerFired' = FALSE
           /\ exitFlag' = FALSE
           /\ current' = None
      ELSE /\ incoming' = Append(incoming, r)
           /\ UNCHANGED <<run, signals, timerFired, exitFlag, current>>

\* (mutant) An attempt too many.
AfterRetryableErrorOneMore(r) ==
    caller' = [caller EXCEPT ![r] =
                  IF attempt[r] <= MaxRetries THEN "waiting" ELSE "failed"]

\* A retryable error: wait for the next attempt, if there is one left.
AfterRetryableError(r) ==
    caller' = [caller EXCEPT ![r] =
                  IF attempt[r] < MaxRetries THEN "waiting" ELSE "failed"]

SendOk(r) ==
    /\ caller[r] = "sending"
    /\ SignalWithStart(r)
    /\ caller' = [caller EXCEPT ![r] = "ok"]
    /\ UNCHANGED <<attempt, child, dropped>>

\* The signal was recorded but the caller sees a deadline or a broken
\* connection; isRetryableError holds of those.
SendAmbiguous(r) ==
    /\ caller[r] = "sending"
    /\ SignalWithStart(r)
    /\ AfterRetryableError(r)
    /\ UNCHANGED <<attempt, child, dropped>>

SendRetryableError(r) ==
    /\ caller[r] = "sending"
    /\ AfterRetryableError(r)
    /\ UNCHANGED <<attempt, runVars, child, dropped>>

SendFatalError(r) ==
    /\ caller[r] = "sending"
    /\ caller' = [caller EXCEPT ![r] = "failed"]
    /\ UNCHANGED <<attempt, runVars, child, dropped>>

\* The retry delay elapses, or the request's context is done first.
NextAttempt(r) ==
    /\ caller[r] = "waiting"
    /\ caller' = [caller EXCEPT ![r] = "sending"]
    /\ attempt' = [attempt EXCEPT ![r] = @ + 1]
    /\ UNCHANGED <<runVars, child, dropped>>

ContextDone(r) ==
    /\ caller[r] = "waiting"
    /\ caller' = [caller EXCEPT ![r] = "failed"]
    /\ UNCHANGED <<attempt, runVars, child, dropped>>

-----------------------------------------------------------------------------
(* The control workflow.                                                   *)

\* A workflow task hands the recorded signals to the run's signal channel.
\* A run that was about to complete is executed again from its selector.
DeliverSignals ==
    /\ run # "closed"
    /\ incoming # <<>>
    /\ signals' = signals \o incoming
    /\ incoming' = <<>>
    /\ run' = IF run = "exiting" THEN "selecting" ELSE run
    /\ UNCHANGED <<callerVars, timerFired, exitFlag, current, child, dropped>>

TimerFires ==
    /\ run # "closed"
    /\ ~timerFired
    /\ timerFired' = TRUE
    /\ UNCHANGED <<callerVars, run, incoming, signals, exitFlag, current,
                   child, dropped>>

\* (mutants) The signal channel is not looked at; the timer that made the run
\* leave counts as pending.
HasPendingIgnoresSignals(taken, chan) == taken = "receive" /\ timerFired
HasPendingCountsTimer(taken, chan) == chan # <<>> \/ timerFired

\* selector.HasPending() after the case "taken" was executed: a future whose
\* callback has run is no longer pending, a ready one that lost the choice is.
HasPending(taken, chan) == chan # <<>> \/ (taken = "receive" /\ timerFired)

\* The end of the loop body: go round again, or leave the loop.
AfterSelect(taken, flag, chan) ==
    run' = IF flag /\ ~HasPending(taken, chan) THEN "exiting" ELSE "selecting"

\* (mutants) The child is started and not waited for.
SelectReceiveNoGet ==
    /\ run = "selecting"
    /\ signals # <<>>
    /\ child[Head(signals)] = "none"
    /\ signals' = Tail(signals)
    /\ child' = [child EXCEPT ![Head(signals)] = "running"]
    /\ current' = Head(signals)
    /\ AfterSelect("receive", exitFlag, signals')
    /\ UNCHANGED <<callerVars, incoming, timerFired, exitFlag, dropped>>

\* The receive case: start the child the signal names and wait for it.
SelectReceive ==
    /\ run = "selecting"
    /\ signals # <<>>
    /\ child[Head(signals)] = "none"
    /\ signals' = Tail(signals)
    /\ current' = Head(signals)
    /\ child' = [child EXCEPT ![Head(signals)] = "running"]
    /\ run' = "child"
    /\ UNCHANGED <<callerVars, incoming, timerFired, exitFlag, dropped>>

\* The receive case when the child workflow ID was used before: starting it
\* fails, the error is logged and the loop goes on.
SelectReceiveDuplicate ==
    /\ run = "selecting"
    /\ signals # <<>>
    /\ child[Head(signals)] # "none"
    /\ signals' = Tail(signals)
    /\ AfterSelect("receive", exitFlag, signals')
    /\ UNCHANGED <<callerVars, incoming, timerFired, exitFlag, current, child,
                   dropped>>

\* The timer case.
SelectTimeout ==
    /\ run = "selecting"
    /\ timerFired
    /\ exitFlag' = TRUE
    /\ AfterSelect("timeout", TRUE, signals)
    /\ UNCHANGED <<callerVars, incoming, signals, timerFired, current, child,
                   dropped>>

\* A child finishes, with a result or with an error (its own run timeout
\* included).  Get returns to the run that waits for it, if that is open.
ChildCloses(r) ==
    /\ child[r] = "running"
    /\ \E s \in {"completed", "failed"} : child' = [child EXCEPT ![r] = s]
    /\ IF current = r
         THEN /\ current' = None
              /\ AfterSelect("receive", exitFlag, signals)
         ELSE UNCHANGED <<run, current>>
    /\ UNCHANGED <<callerVars, incoming, signals, timerFired, exitFlag, dropped>>

\* return nil: the server closes the run, unless it holds an unseen signal.
\* Signals the run has seen and not received go with it.
CompleteRun ==
    /\ run = "exiting"
    /\ incoming = <<>>
    /\ run' = "closed"
    /\ signals' = <<>>
    /\ UNCHANGED <<callerVars, incoming, timerFired, exitFlag, current, child,
                   dropped>>

-----------------------------------------------------------------------------
(* The Temporal server: WorkflowRunTimeout and the parent close policy.    *)

RunTimesOut ==
    /\ run # "closed"
    /\ run' = "closed"
    /\ dropped' = dropped \cup Range(signals) \cup Range(incoming)
    /\ incoming' = <<>>
    /\ signals' = <<>>
    /\ current' = None
    /\ UNCHANGED <<callerVars, timerFired, exitFlag, child>>

TerminateOrphan(r) ==
    /\ child[r] = "running"
    /\ current # r
    /\ child' = [child EXCEPT ![r] = "terminated"]
    /\ UNCHANGED <<callerVars, runVars, dropped>>

-----------------------------------------------------------------------------
CallerNext == \E r \in Requests : \/ ExecuteSequentialWorkflow(r)
                                  \/ SendOk(r)
                                  \/ SendAmbiguous(r)
                                  \/ SendRetryableError(r)
                                  \/ SendFatalError(r)
                                  \/ NextAttempt(r)
                                  \/ ContextDone(r)

RunNext == \/ DeliverSignals
           \/ TimerFires
           \/ SelectReceive
           \/ SelectReceiveDuplicate
           \/ SelectTimeout
           \/ CompleteRun

ServerNext == \/ \E r \in Requests : ChildCloses(r) \/ TerminateOrphan(r)
              \/ RunTimesOut

Next == CallerNext \/ RunNext \/ ServerNext

Spec == Init /\ [][Next]_vars

\* Workers poll the task queue, timers fire and every child has a run
\* timeout, so none of these stays enabled for ever without happening.
\* Nothing forces a caller to send or a run to time out.
Fairness == /\ WF_vars(DeliverSignals)
            /\ WF_vars(TimerFires)
            /\ WF_vars(SelectReceive)
            /\ WF_vars(SelectReceiveDuplicate)
            /\ WF_vars(SelectTimeout)
            /\ WF_vars(CompleteRun)
            /\ \A r \in Requests : WF_vars(ChildCloses(r))

FairSpec == Spec /\ Fairness

-----------------------------------------------------------------------------
(* Properties.                                                             *)

\* A request whose caller was told that it was accepted is queued, was
\* started, or was lost with a run that exceeded its run timeout: the idle
\* exit of SequenceWorkflow, racing the signal, never loses it.
AcceptedRequestIsKept ==
    \A r \in Requests :
        caller[r] = "ok" => \/ r \in Range(signals) \cup Range(incoming)
                            \/ child[r] # "none"
                            \/ r \in dropped

\* While a run is open it waits for its own child, and the only other running
\* children are those of runs that timed out: an open run that is choosing or
\* leaving has no child of its own at work.
RunWaitsForItsChild ==
    /\ run = "child" <=> current # None
    /\ current # None => child[current] = "running"

SQ == INSTANCE SerialQueue WITH queue <- signals \o incoming,
                                active <- current

\* SequenceWorkflow, with its runs, selectors, idle timer and retried
\* signals, executes requests serially, in order of arrival and at most once.
ImplementsSerialQueue == SQ!Spec

\* Every signal the server recorded is acted upon, or its run timed out.
EverySignalIsHandled ==
    \A r \in Requests :
        r \in Range(signals) \cup Range(incoming)
            ~> child[r] # "none" \/ r \in dropped

\* A run does not stay open for ever: once the callers stop, it drains its
\* queue and exits ("exit, if sitting idle", control_workflow.go:60).
IdleRunExits == (run # "closed") ~> (run = "closed")
=============================================================================
