------------------------- MODULE VolumeJobs_proofs -------------------------
(***************************************************************************)
(* For every set of requests and every set of faults: the typing invariant *)
(* of VolumeJobs, and its safety properties TimeoutSweepIsSafe,            *)
(* DeleteDoneMeansGone and SupervisorSparesWork.                           *)
(***************************************************************************)
EXTENDS VolumeJobs, TLAPS

-----------------------------------------------------------------------------
(* The inductive invariant.                                                *)

\* Positions of an API call before its job is inserted, and before its
\* workflow is sent.
Early  == {"idle", "read", "checked"}
Unsent == Early \cup {"job", "start"}

\* An API call inserts the job before it sends the workflow, so that nobody
\* has touched the job, or closed its workflow, before.
ApiShape ==
    \A j \in Jobs : /\ api[j] = "idle" <=> kind[j] = "none"
                    /\ api[j] \in Early => state[j] = "none"
                    /\ api[j] \in Unsent => wf[j] = "none" /\ late[j] = "none"

\* UpdateJobStatus(PROCESSING) comes before Run, and no write makes a job NEW
\* again.
ClaimShape == \A j \in Jobs : wf[j] \in Working => state[j] # "NEW"

\* A request is in the queue once, and only while it has not been started.
QueueShape == /\ \A i \in 1..Len(queue) : wf[queue[i]] = "queued"
              /\ \A i, k \in 1..Len(queue) : queue[i] = queue[k] => i = k

Cleaning == sup \in {"terminate", "handle", "revert", "mark"}

\* The supervisor visits and cleans up jobs that have a row, and reverts the
\* volume for updates and deletes only.
SupShape == /\ Cleaning => target \in Jobs /\ api[target] \notin Early
            /\ \A j \in todo : api[j] \notin Early
            /\ sup = "revert" => kind[target] \in {"update", "delete"}

\* DeleteDoneMeansGone, of the DONE that a workflow, or an activity it left
\* behind, is still to write.
DoneShape ==
    \A j \in Jobs :
        /\ kind[j] = "delete"
        /\ state[j] = "DONE" \/ late[j] = "DONE" \/ wf[j] = "done"
        => vol = "DELETED"

\* An update or a delete was requested of a volume that had been inserted,
\* and the state it would restore is one the API call accepts.
SnapShape ==
    \A j \in Jobs :
        kind[j] \in {"update", "delete"} =>
            vol # "none" /\ prev[j] \in {"READY", "ERROR", "DELETING"}

IInv == /\ TypeOK
        /\ ApiShape
        /\ ClaimShape
        /\ QueueShape
        /\ SupShape
        /\ TimeoutSweepIsSafe
        /\ DoneShape
        /\ SnapShape

\* What Send leaves: a queue of jobs, each one once.
LEMMA SendKeeps ==
    ASSUME TypeOK, ApiShape, QueueShape, NEW j \in Jobs, api[j] = "start", Send(j)
    PROVE  /\ wf' \in [Jobs -> WfStates]
           /\ queue' \in Seq(Jobs)
           /\ QueueShape'
<1>1. wf[j] = "none"
  BY DEF ApiShape, Unsent
<1>2. CASE kind[j] = "update"
  <2>1. wf' = [wf EXCEPT ![j] = "ensure"] /\ queue' = queue
    BY <1>2 DEF Send
  <2>2. wf' \in [Jobs -> WfStates] /\ queue' \in Seq(Jobs)
    BY <2>1 DEF TypeOK, WfStates, Open
  <2>3. QueueShape'
    BY <1>1, <2>1 DEF QueueShape, TypeOK
  <2>4. QED BY <2>2, <2>3
<1>3. CASE kind[j] # "update"
  <2>1. /\ wf' = [wf EXCEPT ![j] = "queued"]
        /\ queue' = Append(queue, j)
    BY <1>3 DEF Send
  <2>2. wf' \in [Jobs -> WfStates] /\ queue' \in Seq(Jobs)
    BY <2>1 DEF TypeOK, WfStates
  <2>3. \A i \in 1..Len(queue) : queue[i] # j
    BY <1>1 DEF QueueShape
  <2>4. QueueShape'
    BY <2>1, <2>3 DEF QueueShape, TypeOK
  <2>5. QED BY <2>2, <2>4
<1>4. QED BY <1>2, <1>3

\* The control workflow starts a job that is waiting.
LEMMA HeadIsQueued ==
    ASSUME TypeOK, QueueShape, queue # <<>>
    PROVE  Head(queue) \in Jobs /\ wf[Head(queue)] = "queued"
<1>1. Head(queue) = queue[1] /\ 1 \in 1..Len(queue)
  BY DEF TypeOK
<1>2. QED BY <1>1 DEF TypeOK, QueueShape

\* What an activity leaves behind is a late write.
LEMMA CloseKeeps ==
    ASSUME TypeOK, NEW j \in Jobs, wf[j] \in Open, NEW how \in WfStates, Close(j, how)
    PROVE  wf' \in [Jobs -> WfStates] /\ late' \in [Jobs -> LateWrites]
<1>1. InFlight[wf[j]] \in LateWrites
  BY DEF InFlight, LateWrites, Open, Working
<1>2. QED BY <1>1 DEF Close, TypeOK, LateWrites

\* What a failing workflow writes is the state of a volume that exists.
LEMMA FailureStateExists ==
    ASSUME TypeOK, SnapShape, NEW j \in Jobs, kind[j] # "none", NEW s \in FailureStates(j)
    PROVE  s # "none"
BY DEF TypeOK, SnapShape, FailureStates, CreateFailureStates,
         UpdateFailureStates, DeleteFailureStates, Kinds

-----------------------------------------------------------------------------
(* The steps of the API calls.                                             *)

\* A new row: no job has been requested of it, none is touched.
LEMMA CreateVolumeStep ==
    ASSUME IInv, NEW j \in Jobs, CreateVolume(j)
    PROVE  IInv'
<1>1. TypeOK'
  BY DEF IInv, TypeOK, CreateVolume, supVars, VolumeStates, Kinds, ApiStates
<1>2. ApiShape'
  BY DEF IInv, TypeOK, ApiShape, Early, Unsent, CreateVolume, supVars
<1>3. SupShape'
  BY DEF IInv, TypeOK, SupShape, Cleaning, Early, CreateVolume, supVars
<1>4. DoneShape'
  BY DEF IInv, TypeOK, DoneShape, ApiShape, Early, Unsent, CreateVolume,
         supVars
<1>5. SnapShape'
  BY DEF IInv, TypeOK, SnapShape, ApiShape, Early, CreateVolume, supVars
<1>6. ClaimShape' /\ QueueShape' /\ TimeoutSweepIsSafe'
  BY DEF IInv, ClaimShape, QueueShape, TimeoutSweepIsSafe, CreateVolume,
         supVars
<1>7. QED BY <1>1, <1>2, <1>3, <1>4, <1>5, <1>6 DEF IInv

\* The snapshot is of a volume that is READY or in ERROR.
LEMMA UpdateVolumeStep ==
    ASSUME IInv, NEW j \in Jobs, UpdateVolume(j)
    PROVE  IInv'
<1>1. TypeOK'
  BY DEF IInv, TypeOK, UpdateVolume, supVars, Kinds, VolumeStates, ApiStates
<1>2. ApiShape'
  BY DEF IInv, TypeOK, ApiShape, Early, Unsent, UpdateVolume, supVars
<1>3. SupShape'
  BY DEF IInv, TypeOK, SupShape, Cleaning, Early, UpdateVolume, supVars
<1>4. DoneShape'
  BY DEF IInv, TypeOK, DoneShape, ApiShape, Early, Unsent, UpdateVolume,
         supVars
<1>5. SnapShape'
  BY DEF IInv, TypeOK, SnapShape, ApiShape, Early, UpdateVolume, supVars
<1>6. ClaimShape' /\ QueueShape' /\ TimeoutSweepIsSafe'
  BY DEF IInv, ClaimShape, QueueShape, TimeoutSweepIsSafe, UpdateVolume,
         supVars
<1>7. QED BY <1>1, <1>2, <1>3, <1>4, <1>5, <1>6 DEF IInv

\* ... or DELETING.
LEMMA DeleteVolumeStep ==
    ASSUME IInv, NEW j \in Jobs, DeleteVolume(j)
    PROVE  IInv'
<1>1. TypeOK'
  BY DEF IInv, TypeOK, DeleteVolume, supVars, Kinds, VolumeStates, ApiStates
<1>2. ApiShape'
  BY DEF IInv, TypeOK, ApiShape, Early, Unsent, DeleteVolume, supVars
<1>3. SupShape'
  BY DEF IInv, TypeOK, SupShape, Cleaning, Early, DeleteVolume, supVars
<1>4. DoneShape'
  BY DEF IInv, TypeOK, DoneShape, ApiShape, Early, Unsent, DeleteVolume,
         supVars
<1>5. SnapShape'
  BY DEF IInv, TypeOK, SnapShape, ApiShape, Early, DeleteVolume, supVars
<1>6. ClaimShape' /\ QueueShape' /\ TimeoutSweepIsSafe'
  BY DEF IInv, ClaimShape, QueueShape, TimeoutSweepIsSafe, DeleteVolume,
         supVars
<1>7. QED BY <1>1, <1>2, <1>3, <1>4, <1>5, <1>6 DEF IInv

\* Only the position of the call changes.
LEMMA CheckExistingDeleteJobStep ==
    ASSUME IInv, NEW j \in Jobs, CheckExistingDeleteJob(j)
    PROVE  IInv'
<1>1. TypeOK'
  BY DEF IInv, TypeOK, CheckExistingDeleteJob, ExistingDeleteJob, IsFirstJob,
         supVars, ApiStates
<1>2. ApiShape'
  BY DEF IInv, TypeOK, ApiShape, Early, Unsent, CheckExistingDeleteJob,
         ExistingDeleteJob, IsFirstJob, supVars
<1>3. SupShape'
  BY DEF IInv, TypeOK, SupShape, Cleaning, Early, CheckExistingDeleteJob,
         ExistingDeleteJob, IsFirstJob, supVars
<1>4. ClaimShape' /\ QueueShape' /\ TimeoutSweepIsSafe' /\ DoneShape' /\ SnapShape'
  BY DEF IInv, ClaimShape, QueueShape, TimeoutSweepIsSafe, DoneShape,
         SnapShape, CheckExistingDeleteJob, ExistingDeleteJob, IsFirstJob,
         supVars
<1>5. QED BY <1>1, <1>2, <1>3, <1>4 DEF IInv

\* The job becomes NEW before it has a workflow.
LEMMA CreateJobStep ==
    ASSUME IInv, NEW j \in Jobs, CreateJob(j)
    PROVE  IInv'
<1>1. TypeOK'
  BY DEF IInv, TypeOK, CreateJob, UpdateJob, supVars, JobStates, ApiStates
<1>2. ApiShape'
  BY DEF IInv, TypeOK, ApiShape, Early, Unsent, CreateJob, UpdateJob, supVars
<1>3. ClaimShape'
  BY DEF IInv, TypeOK, ApiShape, ClaimShape, Early, Unsent, Working,
         CreateJob, UpdateJob, supVars
<1>4. SupShape'
  BY DEF IInv, TypeOK, SupShape, Cleaning, Early, CreateJob, UpdateJob,
         supVars
<1>5. DoneShape'
  BY DEF IInv, TypeOK, DoneShape, ApiShape, Early, Unsent, CreateJob,
         UpdateJob, supVars
<1>6. QueueShape' /\ TimeoutSweepIsSafe' /\ SnapShape'
  BY DEF IInv, QueueShape, TimeoutSweepIsSafe, SnapShape, CreateJob,
         UpdateJob, supVars
<1>7. QED BY <1>1, <1>2, <1>3, <1>4, <1>5, <1>6 DEF IInv

\* The call leaves without a job.
LEMMA CreateJobFailsStep ==
    ASSUME IInv, NEW j \in Jobs, CreateJobFails(j)
    PROVE  IInv'
<1>1. TypeOK'
  BY DEF IInv, TypeOK, CreateJobFails, supVars, ApiStates
<1>2. ApiShape'
  BY DEF IInv, TypeOK, ApiShape, Early, Unsent, CreateJobFails, supVars
<1>3. SupShape'
  BY DEF IInv, TypeOK, SupShape, Cleaning, Early, CreateJobFails, supVars
<1>4. ClaimShape' /\ QueueShape' /\ TimeoutSweepIsSafe' /\ DoneShape' /\ SnapShape'
  BY DEF IInv, ClaimShape, QueueShape, TimeoutSweepIsSafe, DoneShape,
         SnapShape, CreateJobFails, supVars
<1>5. QED BY <1>1, <1>2, <1>3, <1>4 DEF IInv

\* A row that is DELETED is not written.
LEMMA SetTransitionalStep ==
    ASSUME IInv, NEW j \in Jobs, SetTransitional(j)
    PROVE  IInv'
<1>1. TypeOK'
  BY DEF IInv, TypeOK, SetTransitional, Written, VolumeExists, Transition,
         supVars, VolumeStates, ApiStates
<1>2. ApiShape'
  BY DEF IInv, TypeOK, ApiShape, Early, Unsent, SetTransitional, Written,
         VolumeExists, Transition, supVars
<1>3. SupShape'
  BY DEF IInv, TypeOK, SupShape, Cleaning, Early, SetTransitional, Written,
         VolumeExists, Transition, supVars
<1>4. DoneShape'
  BY DEF IInv, TypeOK, DoneShape, ApiShape, Early, Unsent, SetTransitional,
         Written, VolumeExists, Transition, supVars
<1>5. SnapShape'
  BY DEF IInv, TypeOK, SnapShape, ApiShape, Early, SetTransitional, Written,
         VolumeExists, Transition, supVars
<1>6. ClaimShape' /\ QueueShape' /\ TimeoutSweepIsSafe'
  BY DEF IInv, ClaimShape, QueueShape, TimeoutSweepIsSafe, SetTransitional,
         Written, VolumeExists, Transition, supVars
<1>7. QED BY <1>1, <1>2, <1>3, <1>4, <1>5, <1>6 DEF IInv

\* The workflow is sent for the first time.
LEMMA StartWorkflowStep ==
    ASSUME IInv, NEW j \in Jobs, StartWorkflow(j)
    PROVE  IInv'
<1>1. TypeOK'
  BY SendKeeps DEF IInv, TypeOK, StartWorkflow, supVars, ApiStates, ApiShape,
         QueueShape
<1>2. ApiShape'
  BY DEF IInv, TypeOK, ApiShape, Early, Unsent, StartWorkflow, Send, supVars
<1>3. ClaimShape'
  BY DEF IInv, TypeOK, ApiShape, ClaimShape, Early, Unsent, Working,
         StartWorkflow, Send, supVars
<1>4. QueueShape'
  BY SendKeeps DEF IInv, TypeOK, ApiShape, QueueShape, StartWorkflow, supVars
<1>5. SupShape'
  BY DEF IInv, TypeOK, SupShape, Cleaning, Early, StartWorkflow, Send,
         supVars
<1>6. TimeoutSweepIsSafe'
  BY DEF IInv, TypeOK, TimeoutSweepIsSafe, SupShape, Cleaning, StartWorkflow,
         Send, supVars, ApiShape, Unsent
<1>7. DoneShape'
  BY DEF IInv, TypeOK, DoneShape, ApiShape, Early, Unsent, StartWorkflow,
         Send, supVars
<1>8. SnapShape'
  BY DEF IInv, SnapShape, StartWorkflow, Send, supVars
<1>9. QED BY <1>1, <1>2, <1>3, <1>4, <1>5, <1>6, <1>7, <1>8 DEF IInv

\* Even when the answer was lost, for the first time.
LEMMA StartWorkflowFailsStep ==
    ASSUME IInv, NEW j \in Jobs, StartWorkflowFails(j)
    PROVE  IInv'
<1>1. TypeOK'
  BY SendKeeps DEF IInv, TypeOK, StartWorkflowFails, supVars, ApiStates,
         ApiShape, QueueShape
<1>2. ApiShape'
  BY DEF IInv, TypeOK, ApiShape, Early, Unsent, StartWorkflowFails, Send,
         supVars
<1>3. ClaimShape'
  BY DEF IInv, TypeOK, ApiShape, ClaimShape, Early, Unsent, Working,
         StartWorkflowFails, Send, supVars
<1>4. QueueShape'
  BY SendKeeps DEF IInv, TypeOK, ApiShape, QueueShape, StartWorkflowFails,
         supVars
<1>5. SupShape'
  BY DEF IInv, TypeOK, SupShape, Cleaning, Early, StartWorkflowFails, Send,
         supVars
<1>6. TimeoutSweepIsSafe'
  BY DEF IInv, TypeOK, TimeoutSweepIsSafe, SupShape, Cleaning,
         StartWorkflowFails, Send, supVars, ApiShape, Unsent
<1>7. DoneShape'
  BY DEF IInv, TypeOK, DoneShape, ApiShape, Early, Unsent,
         StartWorkflowFails, Send, supVars
<1>8. SnapShape'
  BY DEF IInv, SnapShape, StartWorkflowFails, Send, supVars
<1>9. QED BY <1>1, <1>2, <1>3, <1>4, <1>5, <1>6, <1>7, <1>8 DEF IInv

\* A row that is DELETED is not written.
LEMMA UndoVolumeStep ==
    ASSUME IInv, NEW j \in Jobs, UndoVolume(j)
    PROVE  IInv'
<1>1. TypeOK'
  BY DEF IInv, TypeOK, UndoVolume, Written, VolumeExists, supVars,
         VolumeStates, ApiStates
<1>2. ApiShape'
  BY DEF IInv, TypeOK, ApiShape, Early, Unsent, UndoVolume, Written,
         VolumeExists, supVars
<1>3. SupShape'
  BY DEF IInv, TypeOK, SupShape, Cleaning, Early, UndoVolume, Written,
         VolumeExists, supVars
<1>4. DoneShape'
  BY DEF IInv, TypeOK, DoneShape, ApiShape, Early, Unsent, UndoVolume,
         Written, VolumeExists, supVars
<1>5. SnapShape'
  BY DEF IInv, TypeOK, SnapShape, ApiShape, Early, UndoVolume, Written,
         VolumeExists, supVars
<1>6. ClaimShape' /\ QueueShape' /\ TimeoutSweepIsSafe'
  BY DEF IInv, ClaimShape, QueueShape, TimeoutSweepIsSafe, UndoVolume,
         Written, VolumeExists, supVars
<1>7. QED BY <1>1, <1>2, <1>3, <1>4, <1>5, <1>6 DEF IInv

\* The job has a row, and is not made NEW or DONE.
LEMMA UndoJobStep ==
    ASSUME IInv, NEW j \in Jobs, UndoJob(j)
    PROVE  IInv'
<1>1. TypeOK'
  BY DEF IInv, TypeOK, UndoJob, UpdateJob, supVars, JobStates, ApiStates
<1>2. ApiShape'
  BY DEF IInv, TypeOK, ApiShape, Early, Unsent, UndoJob, UpdateJob, supVars
<1>3. ClaimShape'
  BY DEF IInv, TypeOK, ApiShape, ClaimShape, Early, Unsent, Working, UndoJob,
         UpdateJob, supVars
<1>4. SupShape'
  BY DEF IInv, TypeOK, SupShape, Cleaning, Early, UndoJob, UpdateJob, supVars
<1>5. DoneShape'
  BY DEF IInv, TypeOK, DoneShape, ApiShape, Early, Unsent, UndoJob,
         UpdateJob, supVars
<1>6. QueueShape' /\ TimeoutSweepIsSafe' /\ SnapShape'
  BY DEF IInv, QueueShape, TimeoutSweepIsSafe, SnapShape, UndoJob, UpdateJob,
         supVars
<1>7. QED BY <1>1, <1>2, <1>3, <1>4, <1>5, <1>6 DEF IInv

\* A crash moves the call forward only.
LEMMA ApiCrashesStep ==
    ASSUME IInv, NEW j \in Jobs, ApiCrashes(j)
    PROVE  IInv'
<1>1. TypeOK'
  BY DEF IInv, TypeOK, ApiCrashes, supVars, ApiStates
<1>2. ApiShape'
  BY DEF IInv, TypeOK, ApiShape, Early, Unsent, ApiCrashes, supVars
<1>3. SupShape'
  BY DEF IInv, TypeOK, SupShape, Cleaning, Early, ApiCrashes, supVars
<1>4. ClaimShape' /\ QueueShape' /\ TimeoutSweepIsSafe' /\ DoneShape' /\ SnapShape'
  BY DEF IInv, ClaimShape, QueueShape, TimeoutSweepIsSafe, DoneShape,
         SnapShape, ApiCrashes, supVars
<1>5. QED BY <1>1, <1>2, <1>3, <1>4 DEF IInv

-----------------------------------------------------------------------------
(* The steps of the workflows.                                             *)

\* The oldest request leaves the queue.
LEMMA StartQueuedStep ==
    ASSUME IInv, StartQueued
    PROVE  IInv'
<1>1. TypeOK'
  BY DEF IInv, TypeOK, StartQueued, Sequential, apiVars, supVars, WfStates,
         Open, Working
<1>2. ApiShape'
  BY HeadIsQueued DEF IInv, TypeOK, ApiShape, Early, Unsent, StartQueued,
         Sequential, apiVars, supVars
<1>3. ClaimShape'
  BY DEF IInv, TypeOK, ApiShape, ClaimShape, Early, Unsent, Working,
         StartQueued, Sequential, apiVars, supVars
<1>4. QueueShape'
  BY DEF IInv, TypeOK, ApiShape, QueueShape, Early, Unsent, StartQueued,
         Sequential, apiVars, supVars
<1>5. TimeoutSweepIsSafe'
  BY HeadIsQueued DEF IInv, TypeOK, TimeoutSweepIsSafe, SupShape, Cleaning,
         StartQueued, Sequential, apiVars, supVars
<1>6. DoneShape'
  BY DEF IInv, TypeOK, DoneShape, ApiShape, Early, Unsent, StartQueued,
         Sequential, apiVars, supVars
<1>7. SupShape' /\ SnapShape'
  BY DEF IInv, SupShape, SnapShape, Cleaning, StartQueued, Sequential,
         apiVars, supVars
<1>8. QED BY <1>1, <1>2, <1>3, <1>4, <1>5, <1>6, <1>7 DEF IInv

\* A workflow that is open is not in the queue.
LEMMA EnsureJobStateStep ==
    ASSUME IInv, NEW j \in Jobs, EnsureJobState(j)
    PROVE  IInv'
<1>1. TypeOK'
  BY DEF IInv, TypeOK, EnsureJobState, apiVars, supVars, WfStates, Open,
         Working
<1>2. ApiShape'
  BY DEF IInv, TypeOK, ApiShape, Early, Unsent, EnsureJobState, apiVars,
         supVars
<1>3. ClaimShape'
  BY DEF IInv, TypeOK, ApiShape, ClaimShape, Early, Unsent, Working,
         EnsureJobState, apiVars, supVars
<1>4. QueueShape'
  BY DEF IInv, TypeOK, ApiShape, QueueShape, Early, Unsent, EnsureJobState,
         apiVars, supVars
<1>5. TimeoutSweepIsSafe'
  BY DEF IInv, TypeOK, TimeoutSweepIsSafe, SupShape, Cleaning,
         EnsureJobState, apiVars, supVars
<1>6. DoneShape'
  BY DEF IInv, TypeOK, DoneShape, ApiShape, Early, Unsent, EnsureJobState,
         apiVars, supVars
<1>7. SupShape' /\ SnapShape'
  BY DEF IInv, SupShape, SnapShape, Cleaning, EnsureJobState, apiVars,
         supVars
<1>8. QED BY <1>1, <1>2, <1>3, <1>4, <1>5, <1>6, <1>7 DEF IInv

\* The job is PROCESSING when its workflow starts to work.
LEMMA ClaimJobStep ==
    ASSUME IInv, NEW j \in Jobs, ClaimJob(j)
    PROVE  IInv'
<1>1. TypeOK'
  BY DEF IInv, TypeOK, ClaimJob, UpdateJob, apiVars, supVars, JobStates,
         WfStates, Open, Working
<1>2. ApiShape'
  BY DEF IInv, TypeOK, ApiShape, Early, Unsent, ClaimJob, UpdateJob, apiVars,
         supVars
<1>3. ClaimShape'
  BY DEF IInv, TypeOK, ApiShape, ClaimShape, Early, Unsent, Working,
         ClaimJob, UpdateJob, apiVars, supVars
<1>4. QueueShape'
  BY DEF IInv, TypeOK, ApiShape, QueueShape, Early, Unsent, ClaimJob,
         UpdateJob, apiVars, supVars
<1>5. TimeoutSweepIsSafe'
  BY DEF IInv, TypeOK, TimeoutSweepIsSafe, SupShape, Cleaning, ClaimJob,
         UpdateJob, apiVars, supVars
<1>6. DoneShape'
  BY DEF IInv, TypeOK, DoneShape, ApiShape, Early, Unsent, ClaimJob,
         UpdateJob, apiVars, supVars
<1>7. SupShape' /\ SnapShape'
  BY DEF IInv, SupShape, SnapShape, Cleaning, ClaimJob, UpdateJob, apiVars,
         supVars
<1>8. QED BY <1>1, <1>2, <1>3, <1>4, <1>5, <1>6, <1>7 DEF IInv

\* A delete succeeds with the row deleted, by itself or by somebody else.
LEMMA RunSucceedsStep ==
    ASSUME IInv, NEW j \in Jobs, RunSucceeds(j)
    PROVE  IInv'
<1>1. TypeOK'
  BY DEF IInv, TypeOK, RunSucceeds, Written, VolumeExists, SuccessState,
         apiVars, supVars, VolumeStates, WfStates, Open, Working
<1>2. ApiShape'
  BY DEF IInv, TypeOK, ApiShape, Early, Unsent, RunSucceeds, apiVars,
         supVars
<1>3. ClaimShape'
  BY DEF IInv, TypeOK, ApiShape, ClaimShape, Early, Unsent, Working,
         RunSucceeds, apiVars, supVars
<1>4. QueueShape'
  BY DEF IInv, TypeOK, ApiShape, QueueShape, Early, Unsent, RunSucceeds,
         apiVars, supVars
<1>5. TimeoutSweepIsSafe'
  BY DEF IInv, TypeOK, TimeoutSweepIsSafe, SupShape, Cleaning, RunSucceeds,
         apiVars, supVars
<1>6. DoneShape'
  BY DEF IInv, TypeOK, DoneShape, ApiShape, Early, Unsent, RunSucceeds,
         Written, VolumeExists, SuccessState, apiVars, supVars, SnapShape,
         Kinds, VolumeStates
<1>7. SnapShape'
  BY DEF IInv, TypeOK, SnapShape, ApiShape, Early, RunSucceeds, Written,
         VolumeExists, SuccessState, apiVars, supVars
<1>8. SupShape'
  BY DEF IInv, SupShape, Cleaning, RunSucceeds, apiVars, supVars
<1>9. QED BY <1>1, <1>2, <1>3, <1>4, <1>5, <1>6, <1>7, <1>8 DEF IInv

\* Whatever a failing workflow writes, it does not revive a deleted row.
LEMMA RunFailsStep ==
    ASSUME IInv, NEW j \in Jobs, RunFails(j)
    PROVE  IInv'
<1>1. TypeOK'
  BY DEF IInv, TypeOK, RunFails, Written, VolumeExists, FailureStates,
         CreateFailureStates, UpdateFailureStates, DeleteFailureStates,
         apiVars, supVars, VolumeStates, WfStates, Open, Working
<1>2. ApiShape'
  BY DEF IInv, TypeOK, ApiShape, Early, Unsent, RunFails, apiVars, supVars
<1>3. ClaimShape'
  BY DEF IInv, TypeOK, ApiShape, ClaimShape, Early, Unsent, Working,
         RunFails, apiVars, supVars
<1>4. QueueShape'
  BY DEF IInv, TypeOK, ApiShape, QueueShape, Early, Unsent, RunFails,
         apiVars, supVars
<1>5. TimeoutSweepIsSafe'
  BY DEF IInv, TypeOK, TimeoutSweepIsSafe, SupShape, Cleaning, RunFails,
         apiVars, supVars
<1>6. DoneShape'
  BY DEF IInv, TypeOK, DoneShape, ApiShape, Early, Unsent, RunFails, Written,
         VolumeExists, FailureStates, CreateFailureStates,
         UpdateFailureStates, DeleteFailureStates, apiVars, supVars
<1>7. SnapShape'
  BY FailureStateExists DEF IInv, TypeOK, SnapShape, ApiShape, Early,
         RunFails, Written, VolumeExists, apiVars, supVars, Unsent
<1>8. SupShape'
  BY DEF IInv, SupShape, Cleaning, RunFails, apiVars, supVars
<1>9. QED BY <1>1, <1>2, <1>3, <1>4, <1>5, <1>6, <1>7, <1>8 DEF IInv

\* DONE is written after the volume.
LEMMA FinishJobStep ==
    ASSUME IInv, NEW j \in Jobs, FinishJob(j)
    PROVE  IInv'
<1>1. TypeOK'
  BY DEF IInv, TypeOK, FinishJob, UpdateJob, apiVars, supVars, JobStates,
         WfStates, Open, Working
<1>2. ApiShape'
  BY DEF IInv, TypeOK, ApiShape, Early, Unsent, FinishJob, UpdateJob,
         apiVars, supVars
<1>3. ClaimShape'
  BY DEF IInv, TypeOK, ApiShape, ClaimShape, Early, Unsent, Working,
         FinishJob, UpdateJob, apiVars, supVars
<1>4. QueueShape'
  BY DEF IInv, TypeOK, ApiShape, QueueShape, Early, Unsent, FinishJob,
         UpdateJob, apiVars, supVars
<1>5. TimeoutSweepIsSafe'
  BY DEF IInv, TypeOK, TimeoutSweepIsSafe, SupShape, Cleaning, FinishJob,
         UpdateJob, apiVars, supVars
<1>6. DoneShape'
  BY DEF IInv, TypeOK, DoneShape, ApiShape, Early, Unsent, FinishJob,
         UpdateJob, apiVars, supVars
<1>7. SupShape' /\ SnapShape'
  BY DEF IInv, SupShape, SnapShape, Cleaning, FinishJob, UpdateJob, apiVars,
         supVars
<1>8. QED BY <1>1, <1>2, <1>3, <1>4, <1>5, <1>6, <1>7 DEF IInv

\* The write left behind is one the workflow was about to make.
LEMMA WorkflowTimesOutStep ==
    ASSUME IInv, NEW j \in Jobs, WorkflowTimesOut(j)
    PROVE  IInv'
<1>1. TypeOK'
  BY CloseKeeps DEF IInv, TypeOK, WorkflowTimesOut, apiVars, supVars,
         WfStates
<1>2. ApiShape'
  BY DEF IInv, TypeOK, ApiShape, Early, Unsent, WorkflowTimesOut, Close,
         InFlight, apiVars, supVars, Open, Working
<1>3. ClaimShape'
  BY DEF IInv, TypeOK, ApiShape, ClaimShape, Early, Unsent, Working,
         WorkflowTimesOut, Close, InFlight, apiVars, supVars
<1>4. QueueShape'
  BY DEF IInv, TypeOK, ApiShape, QueueShape, Early, Unsent, WorkflowTimesOut,
         Close, InFlight, apiVars, supVars, Open, Working
<1>5. TimeoutSweepIsSafe'
  BY DEF IInv, TypeOK, TimeoutSweepIsSafe, SupShape, Cleaning,
         WorkflowTimesOut, Close, InFlight, apiVars, supVars
<1>6. DoneShape'
  BY DEF IInv, TypeOK, DoneShape, ApiShape, Early, Unsent, WorkflowTimesOut,
         Close, InFlight, apiVars, supVars, Open, Working
<1>7. SupShape' /\ SnapShape'
  BY DEF IInv, SupShape, SnapShape, Cleaning, WorkflowTimesOut, Close,
         InFlight, apiVars, supVars
<1>8. QED BY <1>1, <1>2, <1>3, <1>4, <1>5, <1>6, <1>7 DEF IInv

\* The same, of every child, and the queue is empty.
LEMMA ControlWorkflowTimesOutStep ==
    ASSUME IInv, ControlWorkflowTimesOut
    PROVE  IInv'
<1>1. TypeOK'
  BY DEF IInv, TypeOK, ControlWorkflowTimesOut, Sequential, InFlight,
         apiVars, supVars, WfStates, Open, Working, LateWrites
<1>2. ApiShape'
  BY DEF IInv, TypeOK, ApiShape, Early, Unsent, ControlWorkflowTimesOut,
         Sequential, InFlight, apiVars, supVars, Open, Working
<1>3. ClaimShape'
  BY DEF IInv, TypeOK, ApiShape, ClaimShape, Early, Unsent, Working,
         ControlWorkflowTimesOut, Sequential, InFlight, apiVars, supVars
<1>4. QueueShape'
  BY DEF IInv, TypeOK, ApiShape, QueueShape, Early, Unsent,
         ControlWorkflowTimesOut, Sequential, InFlight, apiVars, supVars
<1>5. TimeoutSweepIsSafe'
  BY DEF IInv, TypeOK, TimeoutSweepIsSafe, SupShape, Cleaning,
         ControlWorkflowTimesOut, Sequential, InFlight, apiVars, supVars,
         Open, Working
<1>6. DoneShape'
  BY DEF IInv, TypeOK, DoneShape, ApiShape, Early, Unsent,
         ControlWorkflowTimesOut, Sequential, InFlight, apiVars, supVars,
         Open, Working
<1>7. SupShape' /\ SnapShape'
  BY DEF IInv, SupShape, SnapShape, Cleaning, ControlWorkflowTimesOut,
         Sequential, InFlight, apiVars, supVars
<1>8. QED BY <1>1, <1>2, <1>3, <1>4, <1>5, <1>6, <1>7 DEF IInv

\* No late write makes a job NEW or revives a deleted row.
LEMMA LateWriteStep ==
    ASSUME IInv, NEW j \in Jobs, LateWrite(j)
    PROVE  IInv'
<1>1. TypeOK'
  BY DEF IInv, TypeOK, LateWrite, Written, VolumeExists, UpdateJob,
         SuccessState, FailureStates, CreateFailureStates,
         UpdateFailureStates, DeleteFailureStates, apiVars, supVars, LateWrites,
         VolumeStates, JobStates
<1>2. ApiShape'
  BY DEF IInv, TypeOK, ApiShape, Early, Unsent, LateWrite, UpdateJob,
         apiVars, supVars
<1>3. ClaimShape'
  BY DEF IInv, TypeOK, ApiShape, ClaimShape, Early, Unsent, Working,
         LateWrite, UpdateJob, apiVars, supVars, LateWrites
<1>4. DoneShape'
  BY DEF IInv, TypeOK, DoneShape, ApiShape, Early, Unsent, LateWrite,
         Written, VolumeExists, UpdateJob, SuccessState, FailureStates,
         CreateFailureStates, UpdateFailureStates, DeleteFailureStates,
         apiVars, supVars
<1>5. SnapShape'
  BY FailureStateExists DEF IInv, TypeOK, SnapShape, ApiShape, Early,
         LateWrite, Written, VolumeExists, UpdateJob, SuccessState, apiVars,
         supVars, Unsent
<1>6. QueueShape' /\ SupShape' /\ TimeoutSweepIsSafe'
  BY DEF IInv, QueueShape, SupShape, TimeoutSweepIsSafe, Cleaning, LateWrite,
         Written, VolumeExists, UpdateJob, SuccessState, FailureStates,
         CreateFailureStates, UpdateFailureStates, DeleteFailureStates,
         apiVars, supVars
<1>7. QED BY <1>1, <1>2, <1>3, <1>4, <1>5, <1>6 DEF IInv

-----------------------------------------------------------------------------
(* The steps of the supervisor.                                            *)

\* Jobs whose API call has ended have a row.
LEMMA ScanNewStateJobsStep ==
    ASSUME IInv, ScanNewStateJobs
    PROVE  IInv'
<1>1. TypeOK'
  BY DEF IInv, TypeOK, ScanNewStateJobs, Fetch, IsStale, MayHaveTimedOut,
         apiVars, SupStates
<1>2. SupShape'
  BY DEF IInv, TypeOK, SupShape, Cleaning, Early, ScanNewStateJobs, Fetch,
         IsStale, MayHaveTimedOut, apiVars
<1>3. TimeoutSweepIsSafe'
  BY DEF IInv, TypeOK, TimeoutSweepIsSafe, SupShape, Cleaning,
         ScanNewStateJobs, Fetch, IsStale, MayHaveTimedOut, apiVars
<1>4. ApiShape' /\ ClaimShape' /\ QueueShape' /\ DoneShape' /\ SnapShape'
  BY DEF IInv, ApiShape, ClaimShape, QueueShape, DoneShape, SnapShape,
         ScanNewStateJobs, Fetch, IsStale, MayHaveTimedOut, apiVars
<1>5. QED BY <1>1, <1>2, <1>3, <1>4 DEF IInv

\* Jobs that are PROCESSING have a row.
LEMMA ScanProcessingStateTimeoutsStep ==
    ASSUME IInv, ScanProcessingStateTimeouts
    PROVE  IInv'
<1>1. TypeOK'
  BY DEF IInv, TypeOK, ScanProcessingStateTimeouts, Fetch, IsStale,
         MayHaveTimedOut, apiVars, SupStates
<1>2. SupShape'
  BY DEF IInv, TypeOK, SupShape, Cleaning, Early,
         ScanProcessingStateTimeouts, Fetch, IsStale, MayHaveTimedOut,
         apiVars, ApiShape
<1>3. TimeoutSweepIsSafe'
  BY DEF IInv, TypeOK, TimeoutSweepIsSafe, SupShape, Cleaning,
         ScanProcessingStateTimeouts, Fetch, IsStale, MayHaveTimedOut,
         apiVars
<1>4. ApiShape' /\ ClaimShape' /\ QueueShape' /\ DoneShape' /\ SnapShape'
  BY DEF IInv, ApiShape, ClaimShape, QueueShape, DoneShape, SnapShape,
         ScanProcessingStateTimeouts, Fetch, IsStale, MayHaveTimedOut,
         apiVars
<1>5. QED BY <1>1, <1>2, <1>3, <1>4 DEF IInv

\* The supervisor waits for the next tick.
LEMMA ScanEndsStep ==
    ASSUME IInv, ScanEnds
    PROVE  IInv'
<1>1. TypeOK'
  BY DEF IInv, TypeOK, ScanEnds, apiVars, SupStates
<1>2. SupShape'
  BY DEF IInv, TypeOK, SupShape, Cleaning, Early, ScanEnds, apiVars
<1>3. TimeoutSweepIsSafe'
  BY DEF IInv, TypeOK, TimeoutSweepIsSafe, SupShape, Cleaning, ScanEnds,
         apiVars
<1>4. ApiShape' /\ ClaimShape' /\ QueueShape' /\ DoneShape' /\ SnapShape'
  BY DEF IInv, ApiShape, ClaimShape, QueueShape, DoneShape, SnapShape,
         ScanEnds, apiVars
<1>5. QED BY <1>1, <1>2, <1>3, <1>4 DEF IInv

\* In the PROCESSING scan the target has timed out.
LEMMA EvaluateJobStep ==
    ASSUME IInv, NEW j \in Jobs, EvaluateJob(j)
    PROVE  IInv'
<1>1. TypeOK'
  BY DEF IInv, TypeOK, EvaluateJob, Visit, NeedsCleanup, apiVars, SupStates
<1>2. SupShape'
  BY DEF IInv, TypeOK, SupShape, Cleaning, Early, EvaluateJob, Visit,
         NeedsCleanup, apiVars
<1>3. TimeoutSweepIsSafe'
  BY DEF IInv, TypeOK, TimeoutSweepIsSafe, SupShape, Cleaning, EvaluateJob,
         Visit, NeedsCleanup, apiVars
<1>4. ApiShape' /\ ClaimShape' /\ QueueShape' /\ DoneShape' /\ SnapShape'
  BY DEF IInv, ApiShape, ClaimShape, QueueShape, DoneShape, SnapShape,
         EvaluateJob, Visit, NeedsCleanup, apiVars
<1>5. QED BY <1>1, <1>2, <1>3, <1>4 DEF IInv

\* In the PROCESSING scan there is no target.
LEMMA DescribeFailsStep ==
    ASSUME IInv, NEW j \in Jobs, DescribeFails(j)
    PROVE  IInv'
<1>1. TypeOK'
  BY DEF IInv, TypeOK, DescribeFails, Visit, apiVars, SupStates
<1>2. SupShape'
  BY DEF IInv, TypeOK, SupShape, Cleaning, Early, DescribeFails, Visit,
         apiVars
<1>3. TimeoutSweepIsSafe'
  BY DEF IInv, TypeOK, TimeoutSweepIsSafe, SupShape, Cleaning, DescribeFails,
         Visit, apiVars
<1>4. ApiShape' /\ ClaimShape' /\ QueueShape' /\ DoneShape' /\ SnapShape'
  BY DEF IInv, ApiShape, ClaimShape, QueueShape, DoneShape, SnapShape,
         DescribeFails, Visit, apiVars
<1>5. QED BY <1>1, <1>2, <1>3, <1>4 DEF IInv

\* The job is left alone.
LEMMA SkipCleanupStep ==
    ASSUME IInv, SkipCleanup
    PROVE  IInv'
<1>1. TypeOK'
  BY DEF IInv, TypeOK, SkipCleanup, NextJob, apiVars, SupStates
<1>2. SupShape'
  BY DEF IInv, TypeOK, SupShape, Cleaning, Early, SkipCleanup, NextJob,
         apiVars
<1>3. TimeoutSweepIsSafe'
  BY DEF IInv, TypeOK, TimeoutSweepIsSafe, SupShape, Cleaning, SkipCleanup,
         NextJob, apiVars
<1>4. ApiShape' /\ ClaimShape' /\ QueueShape' /\ DoneShape' /\ SnapShape'
  BY DEF IInv, ApiShape, ClaimShape, QueueShape, DoneShape, SnapShape,
         SkipCleanup, NextJob, apiVars
<1>5. QED BY <1>1, <1>2, <1>3, <1>4 DEF IInv

\* Only an open workflow is closed.
LEMMA TerminateWorkflowStep ==
    ASSUME IInv, TerminateWorkflow
    PROVE  IInv'
<1>1. TypeOK'
  BY CloseKeeps DEF IInv, TypeOK, TerminateWorkflow, apiVars, WfStates,
         SupStates, SupShape, Cleaning
<1>2. ApiShape'
  BY DEF IInv, TypeOK, ApiShape, Early, Unsent, TerminateWorkflow, Close,
         InFlight, apiVars, SupShape, Cleaning, Open, Working
<1>3. ClaimShape'
  BY DEF IInv, TypeOK, ApiShape, ClaimShape, Early, Unsent, Working,
         TerminateWorkflow, Close, InFlight, apiVars
<1>4. QueueShape'
  BY DEF IInv, TypeOK, ApiShape, QueueShape, Early, Unsent,
         TerminateWorkflow, Close, InFlight, apiVars, SupShape, Cleaning,
         Open, Working
<1>5. SupShape'
  BY DEF IInv, TypeOK, SupShape, Cleaning, Early, TerminateWorkflow, Close,
         InFlight, apiVars
<1>6. TimeoutSweepIsSafe'
  BY DEF IInv, TypeOK, TimeoutSweepIsSafe, SupShape, Cleaning,
         TerminateWorkflow, Close, InFlight, apiVars, Open, Working
<1>7. DoneShape'
  BY DEF IInv, TypeOK, DoneShape, ApiShape, Early, Unsent, TerminateWorkflow,
         Close, InFlight, apiVars, SupShape, Cleaning, Open, Working
<1>8. SnapShape'
  BY DEF IInv, SnapShape, TerminateWorkflow, Close, InFlight, apiVars
<1>9. QED BY <1>1, <1>2, <1>3, <1>4, <1>5, <1>6, <1>7, <1>8 DEF IInv

\* The volume is reverted for updates and deletes only.
LEMMA HandleStep ==
    ASSUME IInv, Handle
    PROVE  IInv'
<1>1. TypeOK'
  BY DEF IInv, TypeOK, Handle, Written, VolumeExists, apiVars, VolumeStates,
         SupStates
<1>2. SupShape'
  BY DEF IInv, TypeOK, SupShape, Cleaning, Early, Handle, Written,
         VolumeExists, apiVars
<1>3. TimeoutSweepIsSafe'
  BY DEF IInv, TypeOK, TimeoutSweepIsSafe, SupShape, Cleaning, Handle,
         Written, VolumeExists, apiVars
<1>4. DoneShape'
  BY DEF IInv, TypeOK, DoneShape, ApiShape, Early, Unsent, Handle, Written,
         VolumeExists, apiVars
<1>5. SnapShape'
  BY DEF IInv, TypeOK, SnapShape, ApiShape, Early, Handle, Written,
         VolumeExists, apiVars
<1>6. ApiShape' /\ ClaimShape' /\ QueueShape'
  BY DEF IInv, ApiShape, ClaimShape, QueueShape, Handle, Written,
         VolumeExists, apiVars
<1>7. QED BY <1>1, <1>2, <1>3, <1>4, <1>5, <1>6 DEF IInv

\* The state restored is one the API call accepted, or ERROR.
LEMMA RevertVolumeStep ==
    ASSUME IInv, RevertVolume
    PROVE  IInv'
<1>1. TypeOK'
  BY DEF IInv, TypeOK, RevertVolume, NextJob, Written, VolumeExists,
         RevertState, apiVars, VolumeStates, SupStates, SupShape, Cleaning
<1>2. SupShape'
  BY DEF IInv, TypeOK, SupShape, Cleaning, Early, RevertVolume, NextJob,
         Written, VolumeExists, RevertState, apiVars
<1>3. TimeoutSweepIsSafe'
  BY DEF IInv, TypeOK, TimeoutSweepIsSafe, SupShape, Cleaning, RevertVolume,
         NextJob, Written, VolumeExists, RevertState, apiVars
<1>4. DoneShape'
  BY DEF IInv, TypeOK, DoneShape, ApiShape, Early, Unsent, RevertVolume,
         NextJob, Written, VolumeExists, RevertState, apiVars
<1>5. SnapShape'
  BY DEF IInv, TypeOK, SnapShape, ApiShape, Early, RevertVolume, NextJob,
         Written, VolumeExists, RevertState, apiVars, SupShape, Cleaning
<1>6. ApiShape' /\ ClaimShape' /\ QueueShape'
  BY DEF IInv, ApiShape, ClaimShape, QueueShape, RevertVolume, NextJob,
         Written, VolumeExists, RevertState, apiVars
<1>7. QED BY <1>1, <1>2, <1>3, <1>4, <1>5, <1>6 DEF IInv

\* The job is left alone.
LEMMA HandlerFailsStep ==
    ASSUME IInv, HandlerFails
    PROVE  IInv'
<1>1. TypeOK'
  BY DEF IInv, TypeOK, HandlerFails, NextJob, apiVars, SupStates
<1>2. SupShape'
  BY DEF IInv, TypeOK, SupShape, Cleaning, Early, HandlerFails, NextJob,
         apiVars
<1>3. TimeoutSweepIsSafe'
  BY DEF IInv, TypeOK, TimeoutSweepIsSafe, SupShape, Cleaning, HandlerFails,
         NextJob, apiVars
<1>4. ApiShape' /\ ClaimShape' /\ QueueShape' /\ DoneShape' /\ SnapShape'
  BY DEF IInv, ApiShape, ClaimShape, QueueShape, DoneShape, SnapShape,
         HandlerFails, NextJob, apiVars
<1>5. QED BY <1>1, <1>2, <1>3, <1>4 DEF IInv

\* A job that has a row becomes ERROR.
LEMMA MarkJobAsErrorStep ==
    ASSUME IInv, MarkJobAsError
    PROVE  IInv'
<1>1. TypeOK'
  BY DEF IInv, TypeOK, MarkJobAsError, NextJob, UpdateJob, apiVars,
         JobStates, SupStates
<1>2. ApiShape'
  BY DEF IInv, TypeOK, ApiShape, Early, Unsent, MarkJobAsError, NextJob,
         UpdateJob, apiVars, SupShape, Cleaning
<1>3. ClaimShape'
  BY DEF IInv, TypeOK, ApiShape, ClaimShape, Early, Unsent, Working,
         MarkJobAsError, NextJob, UpdateJob, apiVars
<1>4. SupShape'
  BY DEF IInv, TypeOK, SupShape, Cleaning, Early, MarkJobAsError, NextJob,
         UpdateJob, apiVars
<1>5. TimeoutSweepIsSafe'
  BY DEF IInv, TypeOK, TimeoutSweepIsSafe, SupShape, Cleaning,
         MarkJobAsError, NextJob, UpdateJob, apiVars
<1>6. DoneShape'
  BY DEF IInv, TypeOK, DoneShape, ApiShape, Early, Unsent, MarkJobAsError,
         NextJob, UpdateJob, apiVars
<1>7. QueueShape' /\ SnapShape'
  BY DEF IInv, QueueShape, SnapShape, MarkJobAsError, NextJob, UpdateJob,
         apiVars
<1>8. QED BY <1>1, <1>2, <1>3, <1>4, <1>5, <1>6, <1>7 DEF IInv

-----------------------------------------------------------------------------
(* The theorems.                                                           *)

\* No request has been made: the queue and the tables of jobs are empty.
LEMMA InitIInv == Init => IInv
BY NoneAssumption
   DEF Init, IInv, TypeOK, ApiShape, ClaimShape, QueueShape, SupShape,
       TimeoutSweepIsSafe, DoneShape, SnapShape, Cleaning, Early, Unsent,
       VolumeStates, JobStates, Kinds, ApiStates, WfStates, LateWrites, SupStates,
       Open, Working

\* A step that changes nothing.
LEMMA StutterIInv == ASSUME IInv, UNCHANGED vars PROVE IInv'
BY DEF vars, IInv, TypeOK, ApiShape, ClaimShape, QueueShape, SupShape,
       TimeoutSweepIsSafe, DoneShape, SnapShape, Cleaning

\* Every step of the API calls, the workflows, the control workflow and the
\* supervisor, with any fault, keeps the invariant.
LEMMA NextIInv == IInv /\ [Next]_vars => IInv'
<1> SUFFICES ASSUME IInv, [Next]_vars PROVE IInv'
  OBVIOUS
<1>1. CASE \E j \in Jobs : CreateVolume(j) \/ UpdateVolume(j) \/ DeleteVolume(j)
  BY <1>1, CreateVolumeStep, UpdateVolumeStep, DeleteVolumeStep
<1>2. CASE \E j \in Jobs : ApiStep(j)
  BY <1>2, CheckExistingDeleteJobStep, CreateJobStep, SetTransitionalStep,
     StartWorkflowStep, UndoVolumeStep, UndoJobStep DEF ApiStep
<1>3. CASE \E j \in Jobs : WorkflowStep(j) \/ LateWrite(j)
  BY <1>3, EnsureJobStateStep, ClaimJobStep, RunSucceedsStep, RunFailsStep,
     FinishJobStep, LateWriteStep DEF WorkflowStep
<1>4. CASE \E j \in Jobs : Fault(j)
  BY <1>4, CreateJobFailsStep, StartWorkflowFailsStep, ApiCrashesStep,
     WorkflowTimesOutStep, DescribeFailsStep DEF Fault
<1>5. CASE StartQueued \/ ControlWorkflowTimesOut \/ HandlerFails
  BY <1>5, StartQueuedStep, ControlWorkflowTimesOutStep, HandlerFailsStep
<1>6. CASE SupervisorStep
  BY <1>6, ScanNewStateJobsStep, ScanProcessingStateTimeoutsStep, ScanEndsStep,
     EvaluateJobStep, SkipCleanupStep, TerminateWorkflowStep, HandleStep,
     RevertVolumeStep, MarkJobAsErrorStep DEF SupervisorStep
<1>7. CASE UNCHANGED vars
  BY <1>7, StutterIInv
<1>8. QED BY <1>1, <1>2, <1>3, <1>4, <1>5, <1>6, <1>7 DEF Next

\* So it holds in every reachable state.
LEMMA Invariance == Spec => []IInv
BY InitIInv, NextIInv, PTL DEF Spec

\* Every write keeps the rows of the volume and of its jobs, and the positions
\* of the API calls, the workflows and the supervisor, among the values the
\* code knows.
THEOREM TypeCorrect == Spec => []TypeOK
<1>1. IInv => TypeOK
  BY DEF IInv
<1>2. QED BY <1>1, Invariance, PTL

\* evaluateProcessingJob acts on an explicit TIMED_OUT only, and a closed
\* workflow is never opened again: whatever else happens, the workflow of the
\* PROCESSING job that is being cleaned up is dead.
THEOREM TimeoutSweep == Spec => []TimeoutSweepIsSafe
<1>1. IInv => TimeoutSweepIsSafe
  BY DEF IInv
<1>2. QED BY <1>1, Invariance, PTL

\* A delete job that is DONE has removed the volume, and nothing brings the
\* row back.
THEOREM DeleteDone == Spec => []DeleteDoneMeansGone
<1>1. IInv => DeleteDoneMeansGone
  BY DEF IInv, DoneShape, DeleteDoneMeansGone
<1>2. QED BY <1>1, Invariance, PTL

\* terminateWorkflow in cleanupJob closes no workflow that has claimed its
\* job: a job found NEW has no working workflow (ClaimShape), one found
\* PROCESSING has a dead one (TimeoutSweepIsSafe).
LEMMA TerminateSparesWork ==
    ASSUME IInv, TerminateWorkflow, NEW j \in Jobs, wf[j] \in Working
    PROVE  wf'[j] = wf[j]
<1>1. target \in Jobs /\ state[target] = sweep
  BY DEF IInv, SupShape, Cleaning, TerminateWorkflow
<1>2. wf[target] \notin Working
  <2>1. CASE sweep = "NEW"
    BY <1>1, <2>1 DEF IInv, ClaimShape
  <2>2. CASE sweep = "PROCESSING"
    BY <2>2 DEF IInv, TimeoutSweepIsSafe, TerminateWorkflow, Working
  <2>3. QED BY <2>1, <2>2 DEF IInv, TypeOK
<1>3. wf' = wf \/ \E how \in WfStates : wf' = [wf EXCEPT ![target] = how]
  BY DEF TerminateWorkflow, Close, WfStates
<1>4. QED BY <1>1, <1>2, <1>3 DEF IInv, TypeOK

\* The supervisor goes from its check to the handler by that step only.
LEMMA OnlyTerminateWorkflow ==
    ASSUME Next, sup = "terminate", sup' = "handle"
    PROVE  TerminateWorkflow
BY DEF Next, ApiStep, WorkflowStep, SupervisorStep, Fault, supVars, CreateVolume,
       UpdateVolume, DeleteVolume, CheckExistingDeleteJob, CreateJob,
       CreateJobFails, SetTransitional, StartWorkflow, StartWorkflowFails,
       UndoVolume, UndoJob, ApiCrashes, StartQueued, EnsureJobState, ClaimJob,
       RunSucceeds, RunFails, FinishJob, WorkflowTimesOut,
       ControlWorkflowTimesOut, LateWrite, ScanNewStateJobs,
       ScanProcessingStateTimeouts, ScanEnds, EvaluateJob, DescribeFails, Visit,
       SkipCleanup, NextJob, Handle, RevertVolume, HandlerFails, MarkJobAsError

\* cleanupJob never kills a workflow in the middle of its work.
THEOREM SparesWork == Spec => SupervisorSparesWork
<1>1. IInv /\ [Next]_vars =>
        [sup = "terminate" /\ sup' = "handle" =>
           \A j \in Jobs : wf[j] \in Working => wf'[j] = wf[j]]_vars
  BY TerminateSparesWork, OnlyTerminateWorkflow
<1>2. QED BY <1>1, Invariance, PTL DEF Spec, SupervisorSparesWork
=============================================================================
