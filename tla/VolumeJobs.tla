----------------------------- MODULE VolumeJobs -----------------------------
(***************************************************************************)
(* One volume, the jobs that API calls create for it, the Temporal         *)
(* workflows that execute them, and the workflow supervisor that sweeps    *)
(* jobs whose workflow never started or timed out.                         *)
(*                                                                         *)
(*   API calls      core/orchestrator/factory/gcp/volume.go                *)
(*   workflows      core/orchestrator/workflows/volume_*_workflow.go and   *)
(*                  BaseWorkflow in common_workflows.go                    *)
(*   supervisor     core/tasks/workflow_supervisor_task.go and             *)
(*                  core/tasks/supervisor-handler/volume_*_handler.go      *)
(*   tables         database/vcp/jobs.go, volumes.go, job_helpers.go       *)
(*                                                                         *)
(* Create and delete are sent through the control workflow of the pool, of *)
(* which only what module SerialQueue promises is used here; update starts *)
(* its workflow directly.  A step is one database transaction or one call  *)
(* to Temporal.  A workflow's activity that is executing when the workflow *)
(* is closed is not stopped: its write may still reach the database.       *)
(*                                                                         *)
(* Time is abstracted by one assumption: an API call ends (or its process  *)
(* dies) before its job is as old as WORKFLOW_SUPERVISOR_NOT_FOUND_GRACE_  *)
(* PERIOD.  A job waits in the queue for longer than that only when the    *)
(* constant Faults says so ("longWait"): the pool is busy.                 *)
(***************************************************************************)
EXTENDS Naturals, Sequences

CONSTANTS Jobs,     \* the requests, and the jobs and workflows they create
          None,     \* no job
          Faults    \* what may go wrong

ASSUME NoneAssumption == None \notin Jobs

VARIABLES vol,      \* state of the volume's row
          lastID,   \* last primary key given to a job
          id,       \* primary key of each job, 0 when it has no row
          kind,     \* job type
          state,    \* job state
          prev,     \* the volume's state when the API call read it: the
                    \* job's PreviousState and the workflow's volume.State
          api,      \* position of the API call
          wf,       \* position of the workflow, or how it closed
          late,     \* write of a closed workflow's activity, still executing
          queue,    \* workflows the control workflow has not started
          sup,      \* position of the supervisor
          sweep,    \* the job state it scans for: expectedState
          todo,     \* jobs fetched and not visited
          target    \* the job it cleans up

supVars == <<sup, sweep, todo, target>>
apiVars == <<lastID, id, kind, prev, api>>
vars    == <<vol, lastID, id, kind, state, prev, api, wf, late, queue, sup,
             sweep, todo, target>>

VolumeStates == {"none", "CREATING", "READY", "UPDATING", "DELETING", "ERROR",
                 "DELETED"}
JobStates    == {"none", "NEW", "PROCESSING", "DONE", "ERROR"}
Kinds        == {"create", "update", "delete"}
ApiStates    == {"idle", "read", "checked", "job", "start", "undoVolume",
                 "undoJob", "done", "crashed"}
Working      == {"run", "done", "fail"}          \* job claimed, not yet closed
Open         == {"ensure", "claim"} \cup Working
WfStates     == {"none", "queued", "completed", "failed", "terminated",
                 "timedOut"} \cup Open
LateWrites   == {"none", "volume", "PROCESSING", "DONE", "ERROR"}
SupStates    == {"idle", "visit", "terminate", "handle", "revert", "mark"}

TypeOK == /\ vol \in VolumeStates
          /\ lastID \in Nat
          /\ id \in [Jobs -> Nat]
          /\ kind \in [Jobs -> Kinds \cup {"none"}]
          /\ state \in [Jobs -> JobStates]
          /\ prev \in [Jobs -> VolumeStates]
          /\ api \in [Jobs -> ApiStates]
          /\ wf \in [Jobs -> WfStates]
          /\ late \in [Jobs -> LateWrites]
          /\ queue \in Seq(Jobs)
          /\ sup \in SupStates
          /\ sweep \in {"NEW", "PROCESSING"}
          /\ todo \subseteq Jobs
          /\ target \in Jobs \cup {None}

Init == /\ vol \in {"none", "READY"}
        /\ lastID = 0
        /\ id = [j \in Jobs |-> 0]
        /\ kind = [j \in Jobs |-> "none"]
        /\ state = [j \in Jobs |-> "none"]
        /\ prev = [j \in Jobs |-> "none"]
        /\ api = [j \in Jobs |-> "idle"]
        /\ wf = [j \in Jobs |-> "none"]
        /\ late = [j \in Jobs |-> "none"]
        /\ queue = <<>>
        /\ sup = "idle"
        /\ sweep = "NEW"
        /\ todo = {}
        /\ target = None

-----------------------------------------------------------------------------
(* The tables.                                                             *)

\* getVolumeWithDetails finds a row that is not (soft-)deleted.
VolumeExists == vol \notin {"none", "DELETED"}

\* UpdateVolumeFields, UpdateVolume and DeleteVolume fail when it does not.
Written(s) == IF VolumeExists THEN s ELSE vol

\* UpdateJob: unconditional.
UpdateJob(j, s) == state' = [state EXCEPT ![j] = s]

\* GetJobByResourceUUID(volume, k): First orders by primary key.
IsFirstJob(j, k) == /\ id[j] # 0
                    /\ kind[j] = k
                    /\ \A i \in Jobs : id[i] # 0 /\ kind[i] = k => id[j] <= id[i]

\* GetExistingDeleteJobForDeletingState
ExistingDeleteJob == \E j \in Jobs : /\ IsFirstJob(j, "delete")
                                     /\ state[j] \notin {"DONE", "ERROR"}

-----------------------------------------------------------------------------
(* The API calls: _createVolume, _updateVolume, _deleteVolume.             *)

\* _createVolume inserts the row before the job.
CreateVolume(j) ==
    /\ api[j] = "idle"
    /\ vol = "none"
    /\ vol' = "CREATING"
    /\ kind' = [kind EXCEPT ![j] = "create"]
    /\ api' = [api EXCEPT ![j] = "checked"]
    /\ UNCHANGED <<lastID, id, state, prev, wf, late, queue, supVars>>

\* _updateVolume reads the volume and refuses it in a transitional state.
UpdateVolume(j) ==
    /\ api[j] = "idle"
    /\ vol \in {"READY", "ERROR"}
    /\ kind' = [kind EXCEPT ![j] = "update"]
    /\ prev' = [prev EXCEPT ![j] = vol]
    /\ api' = [api EXCEPT ![j] = "checked"]
    /\ UNCHANGED <<vol, lastID, id, state, wf, late, queue, supVars>>

\* _deleteVolume also accepts DELETING.  (Deleting a volume that is CREATING
\* cancels its creation: not here.)
DeleteVolume(j) ==
    /\ api[j] = "idle"
    /\ vol \in {"READY", "ERROR", "DELETING"}
    /\ kind' = [kind EXCEPT ![j] = "delete"]
    /\ prev' = [prev EXCEPT ![j] = vol]
    /\ api' = [api EXCEPT ![j] = "read"]
    /\ UNCHANGED <<vol, lastID, id, state, wf, late, queue, supVars>>

\* ... and returns a delete job that is in progress instead of a new one.
CheckExistingDeleteJob(j) ==
    /\ api[j] = "read"
    /\ api' = [api EXCEPT ![j] = IF ExistingDeleteJob THEN "done" ELSE "checked"]
    /\ UNCHANGED <<vol, lastID, id, kind, state, prev, wf, late, queue, supVars>>

CreateJob(j) ==
    /\ api[j] = "checked"
    /\ lastID' = lastID + 1
    /\ id' = [id EXCEPT ![j] = lastID + 1]
    /\ UpdateJob(j, "NEW")
    /\ api' = [api EXCEPT ![j] = IF kind[j] = "create" THEN "start" ELSE "job"]
    /\ UNCHANGED <<vol, kind, prev, wf, late, queue, supVars>>

\* The job cannot be inserted: _createVolume's deferred call removes the row.
CreateJobFails(j) ==
    /\ "dbError" \in Faults
    /\ api[j] = "checked"
    /\ api' = [api EXCEPT ![j] = IF kind[j] = "create" THEN "undoVolume" ELSE "done"]
    /\ UNCHANGED <<vol, lastID, id, kind, state, prev, wf, late, queue, supVars>>

\* The volume becomes UPDATING or DELETING, if its row is still there.
Transition(k) == IF k = "update" THEN "UPDATING" ELSE "DELETING"

SetTransitional(j) ==
    /\ api[j] = "job"
    /\ \/ /\ vol' = Written(Transition(kind[j]))
          /\ api' = [api EXCEPT ![j] = IF VolumeExists THEN "start" ELSE "undoJob"]
       \/ /\ "dbError" \in Faults
          /\ api' = [api EXCEPT ![j] = "undoJob"]
          /\ UNCHANGED vol
    /\ UNCHANGED <<lastID, id, kind, state, prev, wf, late, queue, supVars>>

\* ExecuteWorkflow starts the workflow; ExecuteSequentialWorkflow queues it.
Send(j) == IF kind[j] = "update"
           THEN /\ wf' = [wf EXCEPT ![j] = "ensure"]
                /\ UNCHANGED queue
           ELSE /\ wf' = [wf EXCEPT ![j] = "queued"]
                /\ queue' = Append(queue, j)

StartWorkflow(j) ==
    /\ api[j] = "start"
    /\ Send(j)
    /\ api' = [api EXCEPT ![j] = "done"]
    /\ UNCHANGED <<vol, lastID, id, kind, state, prev, late, supVars>>

\* Deferred calls run last in, first out.
StartWorkflowFails(j) ==
    /\ api[j] = "start"
    /\ \/ /\ "startError" \in Faults
          /\ UNCHANGED <<wf, queue>>
       \/ /\ "ambiguousStart" \in Faults   \* the last answer was lost
          /\ Send(j)
    /\ api' = [api EXCEPT ![j] = IF kind[j] = "create" THEN "undoJob" ELSE "undoVolume"]
    /\ UNCHANGED <<vol, lastID, id, kind, state, prev, late, supVars>>

\* The deferred calls log an error of the database and go on.
UndoVolume(j) ==
    /\ api[j] = "undoVolume"
    /\ \/ vol' = Written(IF kind[j] = "create" THEN "DELETED" ELSE "ERROR")
       \/ "dbError" \in Faults /\ UNCHANGED vol
    /\ api' = [api EXCEPT ![j] = IF kind[j] = "create" THEN "done" ELSE "undoJob"]
    /\ UNCHANGED <<lastID, id, kind, state, prev, wf, late, queue, supVars>>

UndoJob(j) ==
    /\ api[j] = "undoJob"
    /\ \/ UpdateJob(j, "ERROR")
       \/ "dbError" \in Faults /\ UNCHANGED state
    /\ api' = [api EXCEPT ![j] = IF kind[j] = "create" THEN "undoVolume" ELSE "done"]
    /\ UNCHANGED <<vol, lastID, id, kind, prev, wf, late, queue, supVars>>

ApiCrashes(j) ==
    /\ "apiCrash" \in Faults
    /\ api[j] \notin {"idle", "done", "crashed"}
    /\ api' = [api EXCEPT ![j] = "crashed"]
    /\ UNCHANGED <<vol, lastID, id, kind, state, prev, wf, late, queue, supVars>>

-----------------------------------------------------------------------------
(* The workflows: CreateVolumeWorkflow, UpdateVolumeWorkflow and           *)
(* DeleteVolumeWorkflow share this frame.                                  *)

Sequential(j) == kind[j] \in {"create", "delete"}

\* The control workflow starts the oldest request, one at a time.
StartQueued ==
    /\ queue # <<>>
    /\ \A j \in Jobs : Sequential(j) => wf[j] \notin Open
    /\ wf' = [wf EXCEPT ![Head(queue)] = "ensure"]
    /\ queue' = Tail(queue)
    /\ UNCHANGED <<vol, apiVars, state, late, supVars>>

EnsureJobState(j) ==
    /\ wf[j] = "ensure"
    /\ wf' = [wf EXCEPT ![j] = IF state[j] = "NEW" THEN "claim" ELSE "failed"]
    /\ UNCHANGED <<vol, apiVars, state, late, queue, supVars>>

\* UpdateJobStatus(PROCESSING)
ClaimJob(j) ==
    /\ wf[j] = "claim"
    /\ UpdateJob(j, "PROCESSING")
    /\ wf' = [wf EXCEPT ![j] = "run"]
    /\ UNCHANGED <<vol, apiVars, late, queue, supVars>>

\* The volume state Run writes when it succeeds: UpdateVolumeDetails,
\* UpdateVolumeInDB, DeleteVolume.
SuccessState(j) == IF kind[j] = "delete" THEN "DELETED" ELSE "READY"

\* The ones its deferred function may write when it fails.  A create may
\* have registered the removal of the row as a rollback.
CreateFailureStates == {"ERROR", "DELETED"}

UpdateFailureStates == {"READY"}

\* A delete that is refused restores the state the API call read; one whose
\* last activity, the cleanup of the volume performance group, fails has
\* already removed the row.
DeleteFailureStates(j) == {"ERROR"}
                          \cup {s \in {prev[j]} : "deleteDenied" \in Faults}
                          \cup {s \in {"DELETED"} : "vpgError" \in Faults}

FailureStates(j) == CASE kind[j] = "create" -> CreateFailureStates
                      [] kind[j] = "update" -> UpdateFailureStates
                      [] OTHER -> DeleteFailureStates(j)

\* DeleteVolume tolerates a missing row, the other writes do not.
RunSucceeds(j) ==
    /\ wf[j] = "run"
    /\ VolumeExists \/ kind[j] = "delete"
    /\ vol' = Written(SuccessState(j))
    /\ wf' = [wf EXCEPT ![j] = "done"]
    /\ UNCHANGED <<apiVars, state, late, queue, supVars>>

\* A failure to write the state is logged and ignored.  And some statements
\* of Run return an error without assigning the variable err that its
\* deferred function looks at ("unassignedErr"): no state is written.
RunFails(j) ==
    /\ wf[j] = "run"
    /\ \/ \E s \in FailureStates(j) : vol' = Written(s)
       \/ Faults \cap {"dbError", "unassignedErr"} # {} /\ UNCHANGED vol
    /\ wf' = [wf EXCEPT ![j] = "fail"]
    /\ UNCHANGED <<apiVars, state, late, queue, supVars>>

\* (mutant of FinishJob) A failed Run is reported as DONE.
FinishJobAlwaysDone(j) ==
    /\ wf[j] \in {"done", "fail"}
    /\ UpdateJob(j, "DONE")
    /\ wf' = [wf EXCEPT ![j] = "completed"]
    /\ UNCHANGED <<vol, apiVars, late, queue, supVars>>

\* The last UpdateJobStatus.
FinishJob(j) ==
    /\ wf[j] \in {"done", "fail"}
    /\ UpdateJob(j, IF wf[j] = "done" THEN "DONE" ELSE "ERROR")
    /\ wf' = [wf EXCEPT ![j] = IF wf[j] = "done" THEN "completed" ELSE "failed"]
    /\ UNCHANGED <<vol, apiVars, late, queue, supVars>>

\* The write an open workflow's activity may be executing.
InFlight == [ensure |-> "none", claim |-> "PROCESSING", run |-> "volume",
             done |-> "DONE", fail |-> "ERROR"]

\* The workflow is closed from outside, whatever its activity is doing.
Close(j, how) == /\ wf' = [wf EXCEPT ![j] = how]
                 /\ \E w \in {"none", InFlight[wf[j]]} :
                        late' = [late EXCEPT ![j] = w]

\* WorkflowRunTimeout
WorkflowTimesOut(j) ==
    /\ "runTimeout" \in Faults
    /\ wf[j] \in Open
    /\ Close(j, "timedOut")
    /\ UNCHANGED <<vol, apiVars, state, queue, supVars>>

\* The control workflow times out: its queue is lost and the child it waits
\* for is terminated.
ControlWorkflowTimesOut ==
    /\ "queueLost" \in Faults
    /\ \E j \in Jobs : Sequential(j) /\ wf[j] \in Open \cup {"queued"}
    /\ queue' = <<>>
    /\ wf' = [j \in Jobs |-> CASE wf[j] = "queued" -> "none"
                               [] Sequential(j) /\ wf[j] \in Open -> "terminated"
                               [] OTHER -> wf[j]]
    /\ \E k \in SUBSET {j \in Jobs : Sequential(j) /\ wf[j] \in Open} :
           late' = [j \in Jobs |-> IF j \in k THEN InFlight[wf[j]] ELSE late[j]]
    /\ UNCHANGED <<vol, apiVars, state, supVars>>

LateWrite(j) ==
    /\ late[j] # "none"
    /\ late' = [late EXCEPT ![j] = "none"]
    /\ \/ /\ late[j] = "volume"
          /\ \E s \in {SuccessState(j)} \cup FailureStates(j) : vol' = Written(s)
          /\ UNCHANGED state
       \/ /\ late[j] # "volume"
          /\ UpdateJob(j, late[j])
          /\ UNCHANGED vol
    /\ UNCHANGED <<apiVars, wf, queue, supVars>>

-----------------------------------------------------------------------------
(* The supervisor: workflowSupervisorTaskRunner.scan.                      *)

\* scanNewStateJobs: jobs older than the grace period.
IsStale(j) == /\ state[j] = "NEW"
              /\ api[j] \in {"done", "crashed"}
              /\ wf[j] = "queued" => "longWait" \in Faults

\* scanProcessingStateTimeouts: processingStateEligibleJobTypes.
MayHaveTimedOut(j) == state[j] = "PROCESSING" /\ kind[j] = "delete"

Fetch(s) ==
    /\ sweep' = s
    /\ sup' = "visit"
    /\ \/ todo' = {j \in Jobs : IF s = "NEW" THEN IsStale(j) ELSE MayHaveTimedOut(j)}
       \/ "dbError" \in Faults /\ todo' = {}
    /\ UNCHANGED <<vol, apiVars, state, wf, late, queue, target>>

ScanNewStateJobs == sup = "idle" /\ Fetch("NEW")

ScanProcessingStateTimeouts ==
    sup = "visit" /\ todo = {} /\ sweep = "NEW" /\ Fetch("PROCESSING")

ScanEnds == /\ sup = "visit" /\ todo = {} /\ sweep = "PROCESSING"
            /\ sup' = "idle"
            /\ UNCHANGED <<vol, apiVars, state, wf, late, queue, sweep, todo, target>>

\* (mutant of NeedsCleanup) A missing workflow is not cleaned up.
NeedsCleanupTimedOutOnly(j) == wf[j] = "timedOut"

\* (mutant of NeedsCleanup) A timed-out workflow counts only for NEW jobs.
NeedsCleanupNewOnly(j) == sweep = "NEW" /\ wf[j] \in {"none", "queued", "timedOut"}

\* Describe answers NotFound for a workflow that never started, which
\* evaluateJob treats as an error and evaluateProcessingJob skips.
NeedsCleanup(j) == \/ wf[j] = "timedOut"
                   \/ sweep = "NEW" /\ wf[j] \in {"none", "queued"}

Visit(j) == /\ sup = "visit"
            /\ j \in todo
            /\ \A i \in todo : id[j] <= id[i]
            /\ todo' = todo \ {j}

\* evaluateJob, evaluateProcessingJob
EvaluateJob(j) ==
    /\ Visit(j)
    /\ sup' = IF NeedsCleanup(j) THEN "terminate" ELSE "visit"
    /\ target' = IF NeedsCleanup(j) THEN j ELSE None
    /\ UNCHANGED <<vol, apiVars, state, wf, late, queue, sweep>>

\* (mutant of DescribeFails) PROCESSING jobs are treated like NEW ones.
DescribeFailsAlwaysCleans(j) ==
    /\ "describeError" \in Faults
    /\ Visit(j)
    /\ sup' = "terminate"
    /\ target' = j
    /\ UNCHANGED <<vol, apiVars, state, wf, late, queue, sweep>>

\* Describe fails for another reason.
DescribeFails(j) ==
    /\ "describeError" \in Faults
    /\ Visit(j)
    /\ sup' = IF sweep = "NEW" THEN "terminate" ELSE "visit"
    /\ target' = IF sweep = "NEW" THEN j ELSE None
    /\ UNCHANGED <<vol, apiVars, state, wf, late, queue, sweep>>

NextJob == /\ sup' = "visit"
           /\ target' = None
           /\ UNCHANGED <<sweep, todo>>

\* cleanupJob gives up when the job has left the expected state, or when it
\* cannot lock the row.
SkipCleanup ==
    /\ sup = "terminate"
    /\ state[target] # sweep \/ "dbError" \in Faults
    /\ NextJob
    /\ UNCHANGED <<vol, apiVars, state, wf, late, queue>>

\* (mutant of TerminateWorkflow) The lock query forgets the expected state.
TerminateWorkflowUnchecked ==
    /\ sup = "terminate"
    /\ IF wf[target] \in Open THEN Close(target, "terminated") ELSE UNCHANGED <<wf, late>>
    /\ sup' = "handle"
    /\ UNCHANGED <<vol, apiVars, state, queue, sweep, todo, target>>

\* Otherwise it terminates the workflow while it holds the row; an error of
\* that call is ignored.
TerminateWorkflow ==
    /\ sup = "terminate"
    /\ state[target] = sweep
    /\ IF wf[target] \in Open
       THEN \/ Close(target, "terminated")
            \/ "terminateError" \in Faults /\ UNCHANGED <<wf, late>>
       ELSE UNCHANGED <<wf, late>>
    /\ sup' = "handle"
    /\ UNCHANGED <<vol, apiVars, state, queue, sweep, todo, target>>

\* (mutant of Handle) The volume is not looked at.
HandleSkips ==
    /\ sup = "handle"
    /\ sup' = "mark"
    /\ UNCHANGED <<vol, apiVars, state, wf, late, queue, sweep, todo, target>>

\* VolumeHandler removes the row; VolumeUpdateHandler and VolumeDeleteHandler
\* look whether the volume still is in the job's transitional state.
Handle ==
    /\ sup = "handle"
    /\ vol' = IF kind[target] = "create" THEN Written("DELETED") ELSE vol
    /\ sup' = IF \/ kind[target] = "update" /\ vol = "UPDATING"
                 \/ kind[target] = "delete" /\ vol = "DELETING"
              THEN "revert" ELSE "mark"
    /\ UNCHANGED <<apiVars, state, wf, late, queue, sweep, todo, target>>

\* (mutant of RevertState) PreviousState was not stored, and no fallback.
RevertStateEmpty(j) == IF sweep = "PROCESSING" THEN "ERROR" ELSE ""

RevertState(j) == IF kind[j] = "delete" /\ sweep = "PROCESSING"
                  THEN "ERROR" ELSE prev[j]

\* UpdateVolumeFields fails when the row was deleted in the meantime.
RevertVolume ==
    /\ sup = "revert"
    /\ IF VolumeExists
       THEN /\ sup' = "mark"
            /\ UNCHANGED <<sweep, todo, target>>
       ELSE NextJob
    /\ vol' = Written(RevertState(target))
    /\ UNCHANGED <<apiVars, state, wf, late, queue>>

\* (mutant of HandlerFails) The job is marked all the same.
HandlerFailsMarks ==
    /\ "handlerError" \in Faults
    /\ sup \in {"handle", "revert"}
    /\ UpdateJob(target, "ERROR")
    /\ NextJob
    /\ UNCHANGED <<vol, apiVars, wf, late, queue>>

\* An error of the handler leaves the job as it is.
HandlerFails ==
    /\ "handlerError" \in Faults
    /\ sup \in {"handle", "revert"}
    /\ NextJob
    /\ UNCHANGED <<vol, apiVars, state, wf, late, queue>>

MarkJobAsError ==
    /\ sup = "mark"
    /\ \/ UpdateJob(target, "ERROR")
       \/ "dbError" \in Faults /\ UNCHANGED state
    /\ NextJob
    /\ UNCHANGED <<vol, apiVars, wf, late, queue>>

-----------------------------------------------------------------------------
ApiStep(j) == \/ CheckExistingDeleteJob(j) \/ CreateJob(j)
              \/ SetTransitional(j) \/ StartWorkflow(j)
              \/ UndoVolume(j) \/ UndoJob(j)

WorkflowStep(j) == \/ EnsureJobState(j) \/ ClaimJob(j)
                   \/ RunSucceeds(j) \/ RunFails(j) \/ FinishJob(j)

SupervisorStep == \/ ScanNewStateJobs \/ ScanProcessingStateTimeouts \/ ScanEnds
                  \/ \E j \in Jobs : EvaluateJob(j)
                  \/ SkipCleanup \/ TerminateWorkflow
                  \/ Handle \/ RevertVolume \/ MarkJobAsError

Fault(j) == \/ CreateJobFails(j) \/ StartWorkflowFails(j) \/ ApiCrashes(j)
            \/ WorkflowTimesOut(j) \/ DescribeFails(j)

Next == \/ \E j \in Jobs : \/ CreateVolume(j) \/ UpdateVolume(j) \/ DeleteVolume(j)
                           \/ ApiStep(j) \/ WorkflowStep(j) \/ LateWrite(j)
                           \/ Fault(j)
        \/ StartQueued
        \/ SupervisorStep
        \/ ControlWorkflowTimesOut
        \/ HandlerFails

Spec == Init /\ [][Next]_vars

\* A live process keeps executing; Temporal retries activities until they
\* are executed and starts what is queued; the supervisor is scheduled again
\* and again.
Fairness == /\ \A j \in Jobs : /\ WF_vars(ApiStep(j))
                               /\ WF_vars(WorkflowStep(j))
                               /\ WF_vars(LateWrite(j))
            /\ WF_vars(StartQueued)
            /\ WF_vars(SupervisorStep)

FairSpec == Spec /\ Fairness

-----------------------------------------------------------------------------
(* Properties.                                                             *)

\* cleanupJob terminates a workflow under the lock of a job row that is still
\* in the expected state: a workflow that claimed its job (UpdateJobStatus
\* PROCESSING comes before Run) is never killed in the middle of its work.
SupervisorSparesWork ==
    [][sup = "terminate" /\ sup' = "handle" =>
         \A j \in Jobs : wf[j] \in Working => wf'[j] = wf[j]]_vars

\* evaluateProcessingJob cleans up after an explicit TIMED_OUT only: while it
\* handles a PROCESSING job, that job's workflow is dead and stays dead.
TimeoutSweepIsSafe ==
    sweep = "PROCESSING" /\ sup \in {"terminate", "handle", "revert", "mark"}
       => wf[target] = "timedOut"

\* A delete job is DONE only when the volume is gone, and no late write, undo,
\* revert or other job brings the row back (the row lookups of volumes.go).
DeleteDoneMeansGone ==
    \A j \in Jobs : state[j] = "DONE" /\ kind[j] = "delete" => vol = "DELETED"

InProgress(j) == state[j] \in {"NEW", "PROCESSING"}

\* A second delete request read the volume while it was DELETING.
ReRequested == \E j \in Jobs : kind[j] = "delete" /\ prev[j] = "DELETING"

\* A volume is UPDATING or DELETING only while a job of that type is in
\* progress: whoever ends the job has settled the volume first (RunFails before
\* FinishJob, Handle before MarkJobAsError, the order of the deferred calls).
\* The exception is a delete that was requested again: its PreviousState is
\* DELETING itself.
TransitionalHasOwner ==
    \A k \in {"update", "delete"} :
       vol = Transition(k) => \/ \E j \in Jobs : kind[j] = k /\ InProgress(j)
                              \/ k = "delete" /\ ReRequested

\* With API crashes, failed starts and workflow timeouts, every job leaves
\* NEW: it is claimed, undone by its API call, or swept by scanNewStateJobs.
NewJobIsPicked == \A j \in Jobs : state[j] = "NEW" ~> state[j] # "NEW"

\* ... and a delete job ends: scanProcessingStateTimeouts catches the ones
\* whose workflow timed out, even when a late write reopened them.
DeleteJobEnds == \A j \in Jobs : kind[j] = "delete" /\ InProgress(j) ~> ~InProgress(j)

\* ... and the volume leaves DELETING, unless the delete was requested again.
DeletingEnds == vol = "DELETING" ~> vol # "DELETING" \/ ReRequested

\* (violated) doc/architecture/designs/0018-workflow-supervisor-update-delete-
\* support.md: for NEW jobs "the workflow never executes, no
\* external systems (ONTAP, GCP, VLM) are modified, so only state reversion is
\* needed".
SweptWorkNeverExecutes ==
    sweep = "NEW" /\ sup \in {"handle", "revert", "mark"} => wf[target] \notin Working
=============================================================================
