---------------------------- MODULE TaskProcessor ----------------------------
(***************************************************************************)
(* InMemoTasksProcessor (core/inmemotasksprocessor/processor.go), which    *)
(* SyncVSAClusterHealth uses to visit all pools.                           *)
(*                                                                         *)
(* The caller adds tasks to a buffered channel and calls Run.  Workers     *)
(* take tasks; each task runs in a goroutine of its own that the worker    *)
(* gives up on when the task's context is done.  A task calls RunUnit one  *)
(* unit after the other, and RunUnit starts a goroutine for the unit's     *)
(* function and gives up on it in the same way.  Giving up stops nothing:  *)
(* the goroutines go on until they return or block for ever on a channel   *)
(* nobody reads.  A task function may return after any unit, whatever its  *)
(* outcome, as SyncVSAClusterHealthTask does when one of its other calls   *)
(* fails.  Functions of tasks and units may hang.                          *)
(***************************************************************************)
EXTENDS Naturals, Sequences, FiniteSets, SequencesExt

CONSTANTS Tasks,      \* the tasks the caller may add
          Workers,    \* numWorkers goroutines
          BufferSize, \* capacity of both channels
          Units,      \* bound: units of a task
          None        \* a worker without a task

\* The caller makes the buffer as large as the list of pools; Add would block
\* otherwise, because nobody receives before Run.
ASSUME ProcessorAssumption == /\ IsFiniteSet(Tasks) /\ IsFiniteSet(Workers)
                              /\ Workers # {}
                              /\ BufferSize \in Nat \ {0}
                              /\ Cardinality(Tasks) <= BufferSize
                              /\ Units \in Nat
                              /\ None # "exited" /\ {None, "exited"} \cap Tasks = {}

VARIABLES main,      \* the caller: adding tasks, in Run, after Run
          tasks,     \* channel of tasks
          worker,    \* the task each worker waits for
          expired,   \* tasks whose context is done
          unitExp,   \* units whose own context is done
          tf,        \* goroutine of each task
          uf,        \* goroutine of each unit
          outcomes,  \* IMTPContext.unitResults
          results,   \* channel of results
          allResults \* what Run has collected

procVars == <<main, tasks, worker, results, allResults>>
unitVars == <<unitExp, uf, outcomes>>
vars     == <<procVars, expired, tf, unitVars>>

UnitIDs  == 1 .. Units
Outcomes == {"ok", "fail", "expired"}
Results  == [task : Tasks, err : {"none", "timeout", "context"}, units : Seq(Outcomes)]

TypeOK == /\ main \in {"adding", "running", "returned"}
          /\ tasks \in Seq(Tasks) /\ Len(tasks) <= BufferSize
          /\ worker \in [Workers -> Tasks \cup {None} \cup {"exited"}]
          /\ expired \subseteq Tasks
          /\ unitExp \subseteq Tasks \X UnitIDs
          /\ tf \in [Tasks -> {"none", "new", "work", "unit", "send", "sendErr", "ended"}]
          /\ uf \in [Tasks \X UnitIDs -> {"none", "new", "run", "ended"} \cup Outcomes]
          /\ outcomes \in [Tasks -> Seq(Outcomes)]
          /\ results \in Seq(Results) /\ Len(results) <= BufferSize
          /\ allResults \in Seq(Results)

Init == /\ main = "adding"
        /\ tasks = <<>>
        /\ worker = [w \in Workers |-> None]
        /\ expired = {} /\ unitExp = {}
        /\ tf = [t \in Tasks |-> "none"]
        /\ uf = [x \in Tasks \X UnitIDs |-> "none"]
        /\ outcomes = [t \in Tasks |-> <<>>]
        /\ results = <<>> /\ allResults = <<>>

\* The unit a task has called or will call next.
Current(t) == Len(outcomes[t]) + 1

\* A unit's context derives from its task's.
UnitDone(t, u) == t \in expired \/ <<t, u>> \in unitExp

-----------------------------------------------------------------------------
(* Add and Run                                                             *)

Add(t) == /\ main = "adding"
          /\ t \notin ToSet(tasks)
          /\ Len(tasks) < BufferSize
          /\ tasks' = Append(tasks, t)
          /\ UNCHANGED <<main, worker, expired, tf, results, allResults, unitVars>>

\* Run starts the workers and closes the channel of tasks.
Run == /\ main = "adding"
       /\ main' = "running"
       /\ UNCHANGED <<tasks, worker, expired, tf, results, allResults, unitVars>>

Collect == /\ main = "running"
           /\ results # <<>>
           /\ allResults' = Append(allResults, Head(results))
           /\ results' = Tail(results)
           /\ UNCHANGED <<main, tasks, worker, expired, tf, unitVars>>

\* (mutant of Return) The channel of results is closed when the last task is taken.
ReturnEarly == /\ main = "running"
               /\ tasks = <<>>
               /\ results = <<>>
               /\ main' = "returned"
               /\ UNCHANGED <<tasks, worker, expired, tf, results, allResults, unitVars>>

\* All workers are done, the channel of results is closed and empty.
Return == /\ main = "running"
          /\ \A w \in Workers : worker[w] = "exited"
          /\ results = <<>>
          /\ main' = "returned"
          /\ UNCHANGED <<tasks, worker, expired, tf, results, allResults, unitVars>>

-----------------------------------------------------------------------------
(* worker and processTask                                                  *)

\* The worker receives a task and starts its goroutine.
Take(w) == /\ main = "running"
           /\ worker[w] = None
           /\ tasks # <<>>
           /\ worker' = [worker EXCEPT ![w] = Head(tasks)]
           /\ tf' = [tf EXCEPT ![Head(tasks)] = "new"]
           /\ tasks' = Tail(tasks)
           /\ UNCHANGED <<main, expired, results, allResults, unitVars>>

Exit(w) == /\ main = "running"
           /\ worker[w] = None
           /\ tasks = <<>>
           /\ worker' = [worker EXCEPT ![w] = "exited"]
           /\ UNCHANGED <<main, tasks, expired, tf, results, allResults, unitVars>>

\* (mutant of Deliver) The error is dropped.
DeliverNoError(w, e, us) ==
  /\ Len(results) < BufferSize
  /\ results' = Append(results, [task |-> worker[w], err |-> "none", units |-> us])
  /\ expired' = expired \cup {worker[w]}
  /\ worker' = [worker EXCEPT ![w] = None]

\* processTask returns, which cancels the context, and the worker sends.
Deliver(w, e, us) ==
  /\ Len(results) < BufferSize
  /\ results' = Append(results, [task |-> worker[w], err |-> e, units |-> us])
  /\ expired' = expired \cup {worker[w]}
  /\ worker' = [worker EXCEPT ![w] = None]

\* The task's goroutine and the worker meet on the channel done.
TaskDone(w) ==
  /\ worker[w] \in Tasks
  /\ \/ tf[worker[w]] = "send" /\ Deliver(w, "none", outcomes[worker[w]])
     \/ tf[worker[w]] = "sendErr" /\ Deliver(w, "context", <<>>)
  /\ tf' = [tf EXCEPT ![worker[w]] = "ended"]
  /\ UNCHANGED <<main, tasks, allResults, unitVars>>

\* (mutant of TaskTimeout) The worker waits for the task's goroutine only.
TaskTimeoutNever(w) == FALSE /\ UNCHANGED vars

\* The context is done: the worker returns the unit results there are.
TaskTimeout(w) ==
  /\ worker[w] \in Tasks /\ worker[w] \in expired
  /\ Deliver(w, "timeout", outcomes[worker[w]])
  /\ UNCHANGED <<main, tasks, tf, allResults, unitVars>>

\* The task's timer.
Expire(w) == /\ worker[w] \in Tasks \ expired
             /\ expired' = expired \cup {worker[w]}
             /\ UNCHANGED <<procVars, tf, unitVars>>

-----------------------------------------------------------------------------
(* The goroutine of a task                                                 *)

\* The context is looked at once.  If it is done, the goroutine sends without
\* a way out.
TStart(t) == /\ tf[t] = "new"
             /\ tf' = [tf EXCEPT ![t] = IF t \in expired THEN "sendErr" ELSE "work"]
             /\ UNCHANGED <<procVars, expired, unitVars>>

\* The task function calls RunUnit, or returns.
TWork(t) ==
  /\ tf[t] = "work"
  /\ \/ /\ Current(t) <= Units
        /\ tf' = [tf EXCEPT ![t] = "unit"]
        /\ uf' = [uf EXCEPT ![<<t, Current(t)>>] = "new"]
     \/ /\ tf' = [tf EXCEPT ![t] = "send"]
        /\ UNCHANGED uf
  /\ UNCHANGED <<procVars, expired, unitExp, outcomes>>

\* Nobody waits any more.
TQuit(t) == /\ tf[t] = "send"
            /\ t \in expired
            /\ tf' = [tf EXCEPT ![t] = "ended"]
            /\ UNCHANGED <<procVars, expired, unitVars>>

-----------------------------------------------------------------------------
(* RunUnit and the goroutine of a unit                                     *)

\* (mutant of UStart) The unit's goroutine does not look at its context.
UStartAnyway(t, u) ==
  /\ uf[<<t, u>>] = "new"
  /\ uf' = [uf EXCEPT ![<<t, u>>] = "run"]
  /\ UNCHANGED <<procVars, expired, unitExp, tf, outcomes>>

\* The goroutine looks at its context and, if that is not done, calls the function:
\* "run" means that it is past the look.  applyDefaults has set Retries to 0: there
\* is one attempt.
UStart(t, u) ==
  /\ uf[<<t, u>>] = "new"
  /\ uf' = [uf EXCEPT ![<<t, u>>] = IF UnitDone(t, u) THEN "expired" ELSE "run"]
  /\ UNCHANGED <<procVars, expired, unitExp, tf, outcomes>>

\* The unit's function returns; it may never do so.
UReturn(t, u) ==
  /\ uf[<<t, u>>] = "run"
  /\ \E o \in {"ok", "fail"} : uf' = [uf EXCEPT ![<<t, u>>] = o]
  /\ UNCHANGED <<procVars, expired, unitExp, tf, outcomes>>

\* (mutant of UReceive) RunUnit does not wait for the unit's goroutine.
UReceiveEarly(t) ==
  /\ tf[t] = "unit"
  /\ outcomes' = [outcomes EXCEPT ![t] = Append(@, uf[<<t, Current(t)>>])]
  /\ uf' = [uf EXCEPT ![<<t, Current(t)>>] = "ended"]
  /\ tf' = [tf EXCEPT ![t] = "work"]
  /\ UNCHANGED <<procVars, expired, unitExp>>

\* RunUnit receives what the unit's goroutine sends.
UReceive(t) ==
  /\ tf[t] = "unit"
  /\ uf[<<t, Current(t)>>] \in Outcomes
  /\ outcomes' = [outcomes EXCEPT ![t] = Append(@, uf[<<t, Current(t)>>])]
  /\ uf' = [uf EXCEPT ![<<t, Current(t)>>] = "ended"]
  /\ tf' = [tf EXCEPT ![t] = "work"]
  /\ UNCHANGED <<procVars, expired, unitExp>>

\* RunUnit gives up on the unit; its goroutine goes on.
UTimeout(t) ==
  /\ tf[t] = "unit"
  /\ UnitDone(t, Current(t))
  /\ outcomes' = [outcomes EXCEPT ![t] = Append(@, "expired")]
  /\ tf' = [tf EXCEPT ![t] = "work"]
  /\ UNCHANGED <<procVars, expired, unitExp, uf>>

\* The unit's own timer.
UExpire(t) ==
  /\ tf[t] = "unit"
  /\ ~UnitDone(t, Current(t))
  /\ unitExp' = unitExp \cup {<<t, Current(t)>>}
  /\ UNCHANGED <<procVars, expired, tf, uf, outcomes>>

-----------------------------------------------------------------------------
Processor == \/ Collect \/ Return
             \/ \E w \in Workers : Take(w) \/ Exit(w) \/ TaskDone(w) \/ TaskTimeout(w)

TaskFunc == \E t \in Tasks : TStart(t) \/ TWork(t) \/ TQuit(t) \/ UReceive(t) \/ UTimeout(t)

Timers == (\E w \in Workers : Expire(w)) \/ (\E t \in Tasks : UExpire(t))

UnitFunc == \E t \in Tasks, u \in UnitIDs : UStart(t, u) \/ UReturn(t, u)

Next == (\E t \in Tasks : Add(t)) \/ Run \/ Processor \/ TaskFunc \/ Timers \/ UnitFunc

\* Goroutines that can run do run and the tasks' timers fire.  Nothing is assumed
\* of the tasks and the units: their functions may hang.
Spec == /\ Init /\ [][Next]_vars
        /\ WF_vars(Processor)
        /\ \A w \in Workers : WF_vars(Expire(w))

-----------------------------------------------------------------------------
(* Properties                                                              *)

\* When Run returns it has processed every task that was added and holds exactly
\* one result for each, whether its goroutine answered, timed out or hangs.
OneResultPerTask ==
  main = "returned" =>
    /\ tasks = <<>>
    /\ \A t \in Tasks : tf[t] # "none" <=> \E i \in DOMAIN allResults : allResults[i].task = t
    /\ \A i, j \in DOMAIN allResults : allResults[i].task = allResults[j].task => i = j

\* A result without an error whose units all succeeded means that the task is
\* over: it has called no unit but those, and none of its goroutines does
\* anything any more.
CleanResultMeansOver ==
  \A i \in DOMAIN allResults :
    LET r == allResults[i] IN
    r.err = "none" /\ (\A k \in DOMAIN r.units : r.units[k] = "ok") =>
      /\ tf[r.task] = "ended"
      /\ \A u \in UnitIDs :
           uf[<<r.task, u>>] = IF u <= Len(r.units) THEN "ended" ELSE "none"

\* Goroutines may outlive Run, but after Run has returned none of them passes the
\* look at its context that precedes the call of its unit's function
\* (processor.go:81); one that is past it may still make the call.
NothingStartsAfterRun ==
  [][main = "returned" => \A x \in Tasks \X UnitIDs : uf'[x] = "run" => uf[x] = "run"]_vars

\* Run returns although functions of tasks and units hang.
RunReturns == main = "running" ~> main = "returned"
==============================================================================
