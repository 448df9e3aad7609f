----------------------------- MODULE SerialQueue -----------------------------
(***************************************************************************)
(* What the control ("sequence") workflow promises to its callers: the     *)
(* requests sent under one control workflow ID are executed one at a time, *)
(* in the order in which they were received, each at most once.  Nothing   *)
(* is said of workflow runs, idle timers, selectors or retries: those are  *)
(* the business of module SequenceWorkflow, which implements this one.     *)
(***************************************************************************)
EXTENDS Sequences

CONSTANTS Requests,   \* child workflow IDs (a job's UUID)
          None        \* no request

VARIABLES queue,      \* received requests that have not been looked at
          active,     \* the request the queue is executing, or None
          child       \* what became of each request's child workflow

vars == <<queue, active, child>>

Init == /\ queue = <<>>
        /\ active = None
        /\ child = [r \in Requests |-> "none"]

Enqueue(r) == /\ queue' = Append(queue, r)
              /\ UNCHANGED <<active, child>>

\* The oldest request starts, if nothing is active.
Start == /\ active = None
         /\ queue # <<>>
         /\ child[Head(queue)] = "none"
         /\ active' = Head(queue)
         /\ child' = [child EXCEPT ![Head(queue)] = "running"]
         /\ queue' = Tail(queue)

\* A duplicate of a request that was executed before is dropped.
Skip == /\ active = None
        /\ queue # <<>>
        /\ child[Head(queue)] # "none"
        /\ queue' = Tail(queue)
        /\ UNCHANGED <<active, child>>

Finish(r) == /\ child[r] = "running"
             /\ \E s \in {"completed", "failed"} : child' = [child EXCEPT ![r] = s]
             /\ active' = IF active = r THEN None ELSE active
             /\ UNCHANGED queue

\* The queue gives up everything it holds; its active child is left behind.
Abandon == /\ queue' = <<>>
           /\ active' = None
           /\ UNCHANGED child

\* Only a child that was left behind can be killed.
Kill(r) == /\ child[r] = "running"
           /\ active # r
           /\ child' = [child EXCEPT ![r] = "terminated"]
           /\ UNCHANGED <<queue, active>>

Next == \/ \E r \in Requests : Enqueue(r) \/ Finish(r) \/ Kill(r)
        \/ Start
        \/ Skip
        \/ Abandon

Spec == Init /\ [][Next]_vars
==============================================================================
