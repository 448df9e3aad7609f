----------------------- MODULE VolumeJobsOwner_proofs -----------------------
(***************************************************************************)
(* TransitionalHasOwner, for every set of requests and every set of faults *)
(* that does not lose a write: a volume that is UPDATING or DELETING has a *)
(* job in progress that has not settled it yet.                            *)
(***************************************************************************)
EXTENDS VolumeJobs_proofs

-----------------------------------------------------------------------------
(* The inductive invariant.                                                *)

\* Nobody writes a job before its workflow is sent; an update or a delete
\* makes the volume transitional in between.
NewShape ==
    \A j \in Jobs : /\ api[j] \in {"job", "start"} => state[j] = "NEW"
                    /\ api[j] = "job" => kind[j] \in {"update", "delete"}

\* The supervisor visits and cleans up jobs whose API call has gone past
\* sending the workflow, or has died.
SentShape == /\ Cleaning => api[target] \notin Unsent
             /\ \A j \in todo : api[j] \notin Unsent

\* An update is accepted of a volume that is READY or in ERROR.
UpdateSnapShape ==
    \A j \in Jobs : kind[j] = "update" => prev[j] \in {"READY", "ERROR"}

\* The job is in progress and nobody is about to end it: neither its API call,
\* nor its workflow, nor a late write, nor the supervisor.  Each of them
\* settles the volume before it comes that far.
Unsettled(j) == /\ InProgress(j)
                /\ api[j] # "undoJob"
                /\ wf[j] \notin {"done", "fail"}
                /\ late[j] \notin {"DONE", "ERROR"}
                /\ ~(sup = "mark" /\ target = j)

\* TransitionalHasOwner, with an owner that has still to settle the volume.
OwnerShape ==
    \A k \in {"update", "delete"} :
       vol = Transition(k) => \/ \E j \in Jobs : kind[j] = k /\ Unsettled(j)
                              \/ k = "delete" /\ ReRequested

OwnInv == NewShape /\ SentShape /\ UpdateSnapShape /\ OwnerShape

\* The faults that lose a write: an error of the database is logged and
\* ignored, an error that is not assigned is not seen.
NoLostWrites == "dbError" \notin Faults /\ "unassignedErr" \notin Faults

\* What was requested stays requested.
Kept == \A j \in Jobs :
            kind[j] # "none" => kind'[j] = kind[j] /\ prev'[j] = prev[j]

\* A step keeps the shape when the volume ends up in a transitional state only
\* if it was there before and its owners remain, or an owner is named, or the
\* delete was requested again.
LEMMA OwnerFrame ==
    ASSUME OwnerShape, Kept,
           \A k \in {"update", "delete"} : vol' = Transition(k) =>
              \/ /\ vol = Transition(k)
                 /\ \A j \in Jobs : kind[j] = k /\ Unsettled(j) => Unsettled(j)'
              \/ \E j \in Jobs : kind'[j] = k /\ Unsettled(j)'
              \/ k = "delete" /\ ReRequested
    PROVE  OwnerShape'
<1> SUFFICES ASSUME NEW k \in {"update", "delete"}, vol' = Transition(k)
             PROVE  \/ \E j \in Jobs : kind'[j] = k /\ Unsettled(j)'
                    \/ k = "delete" /\ ReRequested'
  BY DEF OwnerShape, Transition
<1>1. ReRequested => ReRequested'
  BY DEF ReRequested, Kept
<1>2. \A j \in Jobs : kind[j] = k => kind'[j] = k
  BY DEF Kept
<1>3. CASE /\ vol = Transition(k)
           /\ \A j \in Jobs : kind[j] = k /\ Unsettled(j) => Unsettled(j)'
  BY <1>1, <1>2, <1>3 DEF OwnerShape
<1>4. QED BY <1>1, <1>3

\* A state that a job restores is transitional only when the delete was
\* requested again.
LEMMA RestoredState ==
    ASSUME IInv, NEW j \in Jobs, kind[j] # "none",
           NEW s \in FailureStates(j) \cup {SuccessState(j)}
    PROVE  /\ s # "UPDATING"
           /\ s = "DELETING" => ReRequested
BY DEF IInv, TypeOK, SnapShape, FailureStates, CreateFailureStates,
       UpdateFailureStates, DeleteFailureStates, SuccessState, ReRequested,
       Kinds

-----------------------------------------------------------------------------
(* The steps of the API calls.                                             *)

\* A new request owns nothing yet.
LEMMA CreateVolumeOwn ==
    ASSUME IInv, OwnInv, NoLostWrites, NEW j \in Jobs, CreateVolume(j)
    PROVE  OwnInv'
<1>1. NewShape' /\ SentShape' /\ UpdateSnapShape'
  BY DEF OwnInv, NewShape, SentShape, UpdateSnapShape, IInv, TypeOK, ApiShape,
         Cleaning, Early, Unsent, CreateVolume, supVars
<1>2. vol' = "CREATING"
  BY DEF CreateVolume
<1>3. OwnerShape'
  BY <1>2 DEF OwnerShape, Transition
<1>4. QED BY <1>1, <1>3 DEF OwnInv

\* A new request leaves the volume and its owners alone.
LEMMA UpdateVolumeOwn ==
    ASSUME IInv, OwnInv, NoLostWrites, NEW j \in Jobs, UpdateVolume(j)
    PROVE  OwnInv'
<1>1. NewShape' /\ SentShape' /\ UpdateSnapShape'
  BY DEF OwnInv, NewShape, SentShape, UpdateSnapShape, IInv, TypeOK, ApiShape,
         Cleaning, Early, Unsent, UpdateVolume, supVars
<1>2. Kept
  BY DEF Kept, IInv, TypeOK, ApiShape, UpdateVolume
<1>3. \A i \in Jobs : Unsettled(i) => Unsettled(i)'
  BY DEF Unsettled, InProgress, IInv, TypeOK, ApiShape, Early, Unsent,
         UpdateVolume, supVars
<1>4. vol' = vol
  BY DEF UpdateVolume
<1>5. OwnerShape'
  BY <1>2, <1>3, <1>4, OwnerFrame DEF OwnInv
<1>6. QED BY <1>1, <1>5 DEF OwnInv

\* The same.
LEMMA DeleteVolumeOwn ==
    ASSUME IInv, OwnInv, NoLostWrites, NEW j \in Jobs, DeleteVolume(j)
    PROVE  OwnInv'
<1>1. NewShape' /\ SentShape' /\ UpdateSnapShape'
  BY DEF OwnInv, NewShape, SentShape, UpdateSnapShape, IInv, TypeOK, ApiShape,
         Cleaning, Early, Unsent, DeleteVolume, supVars
<1>2. Kept
  BY DEF Kept, IInv, TypeOK, ApiShape, DeleteVolume
<1>3. \A i \in Jobs : Unsettled(i) => Unsettled(i)'
  BY DEF Unsettled, InProgress, IInv, TypeOK, ApiShape, Early, Unsent,
         DeleteVolume, supVars
<1>4. vol' = vol
  BY DEF DeleteVolume
<1>5. OwnerShape'
  BY <1>2, <1>3, <1>4, OwnerFrame DEF OwnInv
<1>6. QED BY <1>1, <1>5 DEF OwnInv

\* Only the position of the call changes.
LEMMA CheckExistingDeleteJobOwn ==
    ASSUME IInv, OwnInv, NoLostWrites, NEW j \in Jobs, CheckExistingDeleteJob(j)
    PROVE  OwnInv'
<1>1. NewShape' /\ SentShape' /\ UpdateSnapShape'
  BY DEF OwnInv, NewShape, SentShape, UpdateSnapShape, IInv, TypeOK, ApiShape,
         Cleaning, Early, Unsent, CheckExistingDeleteJob, supVars
<1>2. Kept
  BY DEF Kept, IInv, TypeOK, ApiShape, CheckExistingDeleteJob
<1>3. \A i \in Jobs : Unsettled(i) => Unsettled(i)'
  BY DEF Unsettled, InProgress, IInv, TypeOK, ApiShape, Early, Unsent,
         CheckExistingDeleteJob, supVars
<1>4. vol' = vol
  BY DEF CheckExistingDeleteJob
<1>5. OwnerShape'
  BY <1>2, <1>3, <1>4, OwnerFrame DEF OwnInv
<1>6. QED BY <1>1, <1>5 DEF OwnInv

\* The job becomes NEW.
LEMMA CreateJobOwn ==
    ASSUME IInv, OwnInv, NoLostWrites, NEW j \in Jobs, CreateJob(j)
    PROVE  OwnInv'
<1>1. NewShape' /\ SentShape' /\ UpdateSnapShape'
  BY DEF OwnInv, NewShape, SentShape, UpdateSnapShape, IInv, TypeOK, ApiShape,
         Cleaning, Early, Unsent, Kinds, CreateJob, UpdateJob, supVars
<1>2. Kept
  BY DEF Kept, IInv, TypeOK, ApiShape, CreateJob
<1>3. \A i \in Jobs : Unsettled(i) => Unsettled(i)'
  BY DEF Unsettled, InProgress, IInv, TypeOK, ApiShape, Early, Unsent,
         CreateJob, UpdateJob, supVars
<1>4. vol' = vol
  BY DEF CreateJob
<1>5. OwnerShape'
  BY <1>2, <1>3, <1>4, OwnerFrame DEF OwnInv
<1>6. QED BY <1>1, <1>5 DEF OwnInv

\* The call owns the volume that it makes transitional.
LEMMA SetTransitionalOwn ==
    ASSUME IInv, OwnInv, NoLostWrites, NEW j \in Jobs, SetTransitional(j)
    PROVE  OwnInv'
<1>1. NewShape' /\ SentShape' /\ UpdateSnapShape'
  BY DEF OwnInv, NewShape, SentShape, UpdateSnapShape, IInv, TypeOK, ApiShape,
         SupShape, Cleaning, Early, Unsent, SetTransitional, supVars
<1>2. Kept
  BY DEF Kept, SetTransitional
<1>3. ASSUME ~VolumeExists PROVE OwnerShape'
  <2>1. vol' \notin {"UPDATING", "DELETING"}
    BY <1>3 DEF SetTransitional, Written, VolumeExists
  <2>2. QED BY <2>1 DEF OwnerShape, Transition
<1>4. ASSUME VolumeExists PROVE OwnerShape'
  <2>1. Unsettled(j)'
    BY <1>4 DEF OwnInv, NewShape, SentShape, Unsettled, InProgress, IInv,
           TypeOK, ApiShape, Cleaning, Unsent, SetTransitional, supVars,
           NoLostWrites
  <2>2. \A k \in {"update", "delete"} : vol' = Transition(k) => kind'[j] = k
    BY <1>4 DEF OwnInv, NewShape, SetTransitional, Written, Transition,
           NoLostWrites
  <2>3. QED BY <1>2, <2>1, <2>2, OwnerFrame DEF OwnInv
<1>5. QED BY <1>1, <1>3, <1>4 DEF OwnInv

\* The workflow is sent; the owner remains.
LEMMA StartWorkflowOwn ==
    ASSUME IInv, OwnInv, NoLostWrites, NEW j \in Jobs, StartWorkflow(j)
    PROVE  OwnInv'
<1>1. NewShape' /\ SentShape' /\ UpdateSnapShape'
  BY DEF OwnInv, NewShape, SentShape, UpdateSnapShape, IInv, TypeOK, ApiShape,
         Cleaning, Early, Unsent, StartWorkflow, supVars
<1>2. Kept
  BY DEF Kept, IInv, TypeOK, ApiShape, StartWorkflow
<1>3. \A i \in Jobs : Unsettled(i) => Unsettled(i)'
  BY DEF Unsettled, InProgress, IInv, TypeOK, ApiShape, StartWorkflow, Send,
         supVars
<1>4. vol' = vol
  BY DEF StartWorkflow
<1>5. OwnerShape'
  BY <1>2, <1>3, <1>4, OwnerFrame DEF OwnInv
<1>6. QED BY <1>1, <1>5 DEF OwnInv

\* The call undoes the volume before the job.
LEMMA StartWorkflowFailsOwn ==
    ASSUME IInv, OwnInv, NoLostWrites, NEW j \in Jobs, StartWorkflowFails(j)
    PROVE  OwnInv'
<1>1. NewShape' /\ SentShape' /\ UpdateSnapShape'
  BY DEF OwnInv, NewShape, SentShape, UpdateSnapShape, IInv, TypeOK, ApiShape,
         Cleaning, Early, Unsent, StartWorkflowFails, supVars
<1>2. Kept
  BY DEF Kept, IInv, TypeOK, ApiShape, StartWorkflowFails
<1>3. \A i \in Jobs :
         kind[i] \in {"update", "delete"} /\ Unsettled(i) => Unsettled(i)'
  BY DEF Unsettled, InProgress, IInv, TypeOK, ApiShape, StartWorkflowFails,
         Send, supVars
<1>4. vol' = vol
  BY DEF StartWorkflowFails
<1>5. OwnerShape'
  BY <1>2, <1>3, <1>4, OwnerFrame DEF OwnInv
<1>6. QED BY <1>1, <1>5 DEF OwnInv

\* The volume is settled, or its row is gone.
LEMMA UndoVolumeOwn ==
    ASSUME IInv, OwnInv, NoLostWrites, NEW j \in Jobs, UndoVolume(j)
    PROVE  OwnInv'
<1>1. NewShape' /\ SentShape' /\ UpdateSnapShape'
  BY DEF OwnInv, NewShape, SentShape, UpdateSnapShape, IInv, TypeOK, ApiShape,
         Cleaning, Early, Unsent, UndoVolume, supVars
<1>2. vol' \notin {"UPDATING", "DELETING"}
  BY DEF UndoVolume, Written, VolumeExists, NoLostWrites
<1>3. OwnerShape'
  BY <1>2 DEF OwnerShape, Transition
<1>4. QED BY <1>1, <1>3 DEF OwnInv

\* The job was not an owner any more.
LEMMA UndoJobOwn ==
    ASSUME IInv, OwnInv, NoLostWrites, NEW j \in Jobs, UndoJob(j)
    PROVE  OwnInv'
<1>1. NewShape' /\ SentShape' /\ UpdateSnapShape'
  BY DEF OwnInv, NewShape, SentShape, UpdateSnapShape, IInv, TypeOK, ApiShape,
         Cleaning, Early, Unsent, UndoJob, UpdateJob, supVars
<1>2. Kept
  BY DEF Kept, IInv, TypeOK, ApiShape, UndoJob
<1>3. \A i \in Jobs : Unsettled(i) => Unsettled(i)'
  BY DEF Unsettled, InProgress, IInv, TypeOK, ApiShape, UndoJob, UpdateJob,
         supVars
<1>4. vol' = vol
  BY DEF UndoJob
<1>5. OwnerShape'
  BY <1>2, <1>3, <1>4, OwnerFrame DEF OwnInv
<1>6. QED BY <1>1, <1>5 DEF OwnInv

\* The supervisor is to settle the volume.
LEMMA ApiCrashesOwn ==
    ASSUME IInv, OwnInv, NoLostWrites, NEW j \in Jobs, ApiCrashes(j)
    PROVE  OwnInv'
<1>1. NewShape' /\ SentShape' /\ UpdateSnapShape'
  BY DEF OwnInv, NewShape, SentShape, UpdateSnapShape, IInv, TypeOK, ApiShape,
         Cleaning, Early, Unsent, ApiCrashes, supVars
<1>2. Kept
  BY DEF Kept, IInv, TypeOK, ApiShape, ApiCrashes
<1>3. \A i \in Jobs : Unsettled(i) => Unsettled(i)'
  BY DEF Unsettled, InProgress, IInv, TypeOK, ApiShape, ApiCrashes, supVars
<1>4. vol' = vol
  BY DEF ApiCrashes
<1>5. OwnerShape'
  BY <1>2, <1>3, <1>4, OwnerFrame DEF OwnInv
<1>6. QED BY <1>1, <1>5 DEF OwnInv

-----------------------------------------------------------------------------
(* The steps of the workflows.                                             *)

\* The oldest request leaves the queue.
LEMMA StartQueuedOwn ==
    ASSUME IInv, OwnInv, NoLostWrites, StartQueued
    PROVE  OwnInv'
<1>1. NewShape' /\ SentShape' /\ UpdateSnapShape'
  BY DEF OwnInv, NewShape, SentShape, UpdateSnapShape, IInv, TypeOK, ApiShape,
         Cleaning, StartQueued, apiVars, supVars
<1>2. Kept
  BY DEF Kept, IInv, TypeOK, ApiShape, StartQueued, apiVars
<1>3. \A i \in Jobs : Unsettled(i) => Unsettled(i)'
  BY DEF Unsettled, InProgress, IInv, TypeOK, ApiShape, StartQueued, apiVars,
         supVars
<1>4. vol' = vol
  BY DEF StartQueued
<1>5. OwnerShape'
  BY <1>2, <1>3, <1>4, OwnerFrame DEF OwnInv
<1>6. QED BY <1>1, <1>5 DEF OwnInv

\* No job changes.
LEMMA EnsureJobStateOwn ==
    ASSUME IInv, OwnInv, NoLostWrites, NEW j \in Jobs, EnsureJobState(j)
    PROVE  OwnInv'
<1>1. NewShape' /\ SentShape' /\ UpdateSnapShape'
  BY DEF OwnInv, NewShape, SentShape, UpdateSnapShape, IInv, TypeOK, ApiShape,
         Cleaning, EnsureJobState, apiVars, supVars
<1>2. Kept
  BY DEF Kept, IInv, TypeOK, ApiShape, EnsureJobState, apiVars
<1>3. \A i \in Jobs : Unsettled(i) => Unsettled(i)'
  BY DEF Unsettled, InProgress, IInv, TypeOK, ApiShape, EnsureJobState,
         apiVars, supVars
<1>4. vol' = vol
  BY DEF EnsureJobState
<1>5. OwnerShape'
  BY <1>2, <1>3, <1>4, OwnerFrame DEF OwnInv
<1>6. QED BY <1>1, <1>5 DEF OwnInv

\* PROCESSING is in progress too.
LEMMA ClaimJobOwn ==
    ASSUME IInv, OwnInv, NoLostWrites, NEW j \in Jobs, ClaimJob(j)
    PROVE  OwnInv'
<1>1. NewShape' /\ SentShape' /\ UpdateSnapShape'
  BY DEF OwnInv, NewShape, SentShape, UpdateSnapShape, IInv, TypeOK, ApiShape,
         Cleaning, Unsent, ClaimJob, UpdateJob, apiVars, supVars
<1>2. Kept
  BY DEF Kept, IInv, TypeOK, ApiShape, ClaimJob, apiVars
<1>3. \A i \in Jobs : Unsettled(i) => Unsettled(i)'
  BY DEF Unsettled, InProgress, IInv, TypeOK, ApiShape, ClaimJob, UpdateJob,
         apiVars, supVars
<1>4. vol' = vol
  BY DEF ClaimJob
<1>5. OwnerShape'
  BY <1>2, <1>3, <1>4, OwnerFrame DEF OwnInv
<1>6. QED BY <1>1, <1>5 DEF OwnInv

\* The workflow settles the volume before it ends the job.
LEMMA RunSucceedsOwn ==
    ASSUME IInv, OwnInv, NoLostWrites, NEW j \in Jobs, RunSucceeds(j)
    PROVE  OwnInv'
<1>1. NewShape' /\ SentShape' /\ UpdateSnapShape'
  BY DEF OwnInv, NewShape, SentShape, UpdateSnapShape, IInv, TypeOK, ApiShape,
         Cleaning, RunSucceeds, apiVars, supVars
<1>2. Kept
  BY DEF Kept, RunSucceeds, apiVars
<1>3. kind[j] # "none"
  BY DEF RunSucceeds, IInv, ApiShape, Unsent, Early
<1>4. \E s \in FailureStates(j) \cup {SuccessState(j)} : vol' = Written(s)
  BY DEF RunSucceeds, NoLostWrites
<1>5. \A k \in {"update", "delete"} :
         vol' = Transition(k) => k = "delete" /\ ReRequested
  BY <1>3, <1>4, RestoredState DEF Written, VolumeExists, Transition
<1>6. OwnerShape'
  BY <1>2, <1>5, OwnerFrame DEF OwnInv
<1>7. QED BY <1>1, <1>6 DEF OwnInv

\* It does so when it fails, too.
LEMMA RunFailsOwn ==
    ASSUME IInv, OwnInv, NoLostWrites, NEW j \in Jobs, RunFails(j)
    PROVE  OwnInv'
<1>1. NewShape' /\ SentShape' /\ UpdateSnapShape'
  BY DEF OwnInv, NewShape, SentShape, UpdateSnapShape, IInv, TypeOK, ApiShape,
         Cleaning, RunFails, apiVars, supVars
<1>2. Kept
  BY DEF Kept, RunFails, apiVars
<1>3. kind[j] # "none"
  BY DEF RunFails, IInv, ApiShape, Unsent, Early
<1>4. \E s \in FailureStates(j) \cup {SuccessState(j)} : vol' = Written(s)
  BY DEF RunFails, NoLostWrites
<1>5. \A k \in {"update", "delete"} :
         vol' = Transition(k) => k = "delete" /\ ReRequested
  BY <1>3, <1>4, RestoredState DEF Written, VolumeExists, Transition
<1>6. OwnerShape'
  BY <1>2, <1>5, OwnerFrame DEF OwnInv
<1>7. QED BY <1>1, <1>6 DEF OwnInv

\* The job was not an owner any more.
LEMMA FinishJobOwn ==
    ASSUME IInv, OwnInv, NoLostWrites, NEW j \in Jobs, FinishJob(j)
    PROVE  OwnInv'
<1>1. NewShape' /\ SentShape' /\ UpdateSnapShape'
  BY DEF OwnInv, NewShape, SentShape, UpdateSnapShape, IInv, TypeOK, ApiShape,
         Cleaning, Unsent, FinishJob, UpdateJob, apiVars, supVars
<1>2. Kept
  BY DEF Kept, IInv, TypeOK, ApiShape, FinishJob, apiVars
<1>3. \A i \in Jobs : Unsettled(i) => Unsettled(i)'
  BY DEF Unsettled, InProgress, IInv, TypeOK, ApiShape, FinishJob, UpdateJob,
         apiVars, supVars
<1>4. vol' = vol
  BY DEF FinishJob
<1>5. OwnerShape'
  BY <1>2, <1>3, <1>4, OwnerFrame DEF OwnInv
<1>6. QED BY <1>1, <1>5 DEF OwnInv

\* A write of the job is left behind only by a workflow that has settled.
LEMMA WorkflowTimesOutOwn ==
    ASSUME IInv, OwnInv, NoLostWrites, NEW j \in Jobs, WorkflowTimesOut(j)
    PROVE  OwnInv'
<1>1. NewShape' /\ SentShape' /\ UpdateSnapShape'
  BY DEF OwnInv, NewShape, SentShape, UpdateSnapShape, IInv, TypeOK, ApiShape,
         Cleaning, WorkflowTimesOut, apiVars, supVars
<1>2. Kept
  BY DEF Kept, IInv, TypeOK, ApiShape, WorkflowTimesOut, apiVars
<1>3. \A i \in Jobs : Unsettled(i) => Unsettled(i)'
  BY DEF Unsettled, InProgress, IInv, TypeOK, ApiShape, WorkflowTimesOut,
         Close, InFlight, Open, Working, apiVars, supVars
<1>4. vol' = vol
  BY DEF WorkflowTimesOut
<1>5. OwnerShape'
  BY <1>2, <1>3, <1>4, OwnerFrame DEF OwnInv
<1>6. QED BY <1>1, <1>5 DEF OwnInv

\* The same, of every child.
LEMMA ControlWorkflowTimesOutOwn ==
    ASSUME IInv, OwnInv, NoLostWrites, ControlWorkflowTimesOut
    PROVE  OwnInv'
<1>1. NewShape' /\ SentShape' /\ UpdateSnapShape'
  BY DEF OwnInv, NewShape, SentShape, UpdateSnapShape, IInv, TypeOK, ApiShape,
         Cleaning, ControlWorkflowTimesOut, apiVars, supVars
<1>2. Kept
  BY DEF Kept, IInv, TypeOK, ApiShape, ControlWorkflowTimesOut, apiVars
<1>3. \A i \in Jobs : Unsettled(i) => Unsettled(i)'
  BY DEF Unsettled, InProgress, IInv, TypeOK, ApiShape,
         ControlWorkflowTimesOut, Sequential, InFlight, Open, Working,
         apiVars, supVars
<1>4. vol' = vol
  BY DEF ControlWorkflowTimesOut
<1>5. OwnerShape'
  BY <1>2, <1>3, <1>4, OwnerFrame DEF OwnInv
<1>6. QED BY <1>1, <1>5 DEF OwnInv

\* A late write settles the volume, or is of a job that is no owner.
LEMMA LateWriteOwn ==
    ASSUME IInv, OwnInv, NoLostWrites, NEW j \in Jobs, LateWrite(j)
    PROVE  OwnInv'
<1>1. NewShape' /\ SentShape' /\ UpdateSnapShape'
  BY DEF OwnInv, NewShape, SentShape, UpdateSnapShape, IInv, TypeOK, ApiShape,
         Cleaning, Unsent, LateWrite, UpdateJob, apiVars, supVars
<1>2. Kept
  BY DEF Kept, LateWrite, apiVars
<1>3. kind[j] # "none"
  BY DEF LateWrite, IInv, ApiShape, Unsent, Early
<1>4. ASSUME late[j] = "volume" PROVE OwnerShape'
  <2>1. \E s \in FailureStates(j) \cup {SuccessState(j)} : vol' = Written(s)
    BY <1>4 DEF LateWrite
  <2>2. \A k \in {"update", "delete"} :
           vol' = Transition(k) => k = "delete" /\ ReRequested
    BY <1>3, <2>1, RestoredState DEF Written, VolumeExists, Transition
  <2>3. QED BY <1>2, <2>2, OwnerFrame DEF OwnInv
<1>5. ASSUME late[j] # "volume" PROVE OwnerShape'
  <2>1. \A i \in Jobs : Unsettled(i) => Unsettled(i)'
    BY <1>5 DEF LateWrite, UpdateJob, Unsettled, InProgress, IInv, TypeOK,
           LateWrites, apiVars, supVars
  <2>2. vol' = vol
    BY <1>5 DEF LateWrite
  <2>3. QED BY <1>2, <2>1, <2>2, OwnerFrame DEF OwnInv
<1>6. QED BY <1>1, <1>4, <1>5 DEF OwnInv

-----------------------------------------------------------------------------
(* The steps of the supervisor.                                            *)

\* A stale job has been sent.
LEMMA ScanNewStateJobsOwn ==
    ASSUME IInv, OwnInv, NoLostWrites, ScanNewStateJobs
    PROVE  OwnInv'
<1>1. NewShape' /\ SentShape' /\ UpdateSnapShape'
  BY DEF OwnInv, NewShape, SentShape, UpdateSnapShape, IInv, TypeOK, ApiShape,
         Cleaning, ScanNewStateJobs, Fetch, IsStale, Unsent, Early, apiVars
<1>2. Kept
  BY DEF Kept, IInv, TypeOK, ApiShape, ScanNewStateJobs, Fetch, apiVars
<1>3. \A i \in Jobs : Unsettled(i) => Unsettled(i)'
  BY DEF Unsettled, InProgress, IInv, TypeOK, ApiShape, ScanNewStateJobs,
         Fetch, IsStale, Unsent, Early, apiVars
<1>4. vol' = vol
  BY DEF ScanNewStateJobs, Fetch
<1>5. OwnerShape'
  BY <1>2, <1>3, <1>4, OwnerFrame DEF OwnInv
<1>6. QED BY <1>1, <1>5 DEF OwnInv

\* A job that is PROCESSING has been sent.
LEMMA ScanProcessingStateTimeoutsOwn ==
    ASSUME IInv, OwnInv, NoLostWrites, ScanProcessingStateTimeouts
    PROVE  OwnInv'
<1>1. NewShape' /\ SentShape' /\ UpdateSnapShape'
  BY DEF OwnInv, NewShape, SentShape, UpdateSnapShape, IInv, TypeOK, ApiShape,
         Cleaning, ScanProcessingStateTimeouts, Fetch, MayHaveTimedOut,
         Unsent, Early, apiVars
<1>2. Kept
  BY DEF Kept, IInv, TypeOK, ApiShape, ScanProcessingStateTimeouts, Fetch,
         apiVars
<1>3. \A i \in Jobs : Unsettled(i) => Unsettled(i)'
  BY DEF Unsettled, InProgress, IInv, TypeOK, ApiShape,
         ScanProcessingStateTimeouts, Fetch, MayHaveTimedOut, Unsent, Early,
         apiVars
<1>4. vol' = vol
  BY DEF ScanProcessingStateTimeouts, Fetch
<1>5. OwnerShape'
  BY <1>2, <1>3, <1>4, OwnerFrame DEF OwnInv
<1>6. QED BY <1>1, <1>5 DEF OwnInv

\* The supervisor waits for the next tick.
LEMMA ScanEndsOwn ==
    ASSUME IInv, OwnInv, NoLostWrites, ScanEnds
    PROVE  OwnInv'
<1>1. NewShape' /\ SentShape' /\ UpdateSnapShape'
  BY DEF OwnInv, NewShape, SentShape, UpdateSnapShape, IInv, TypeOK, ApiShape,
         Cleaning, ScanEnds, apiVars
<1>2. Kept
  BY DEF Kept, IInv, TypeOK, ApiShape, ScanEnds, apiVars
<1>3. \A i \in Jobs : Unsettled(i) => Unsettled(i)'
  BY DEF Unsettled, InProgress, IInv, TypeOK, ApiShape, ScanEnds, apiVars
<1>4. vol' = vol
  BY DEF ScanEnds
<1>5. OwnerShape'
  BY <1>2, <1>3, <1>4, OwnerFrame DEF OwnInv
<1>6. QED BY <1>1, <1>5 DEF OwnInv

\* The job is left alone.
LEMMA SkipCleanupOwn ==
    ASSUME IInv, OwnInv, NoLostWrites, SkipCleanup
    PROVE  OwnInv'
<1>1. NewShape' /\ SentShape' /\ UpdateSnapShape'
  BY DEF OwnInv, NewShape, SentShape, UpdateSnapShape, IInv, TypeOK, ApiShape,
         Cleaning, SkipCleanup, NextJob, apiVars
<1>2. Kept
  BY DEF Kept, IInv, TypeOK, ApiShape, SkipCleanup, apiVars
<1>3. \A i \in Jobs : Unsettled(i) => Unsettled(i)'
  BY DEF Unsettled, InProgress, IInv, TypeOK, ApiShape, SkipCleanup, NextJob,
         apiVars
<1>4. vol' = vol
  BY DEF SkipCleanup
<1>5. OwnerShape'
  BY <1>2, <1>3, <1>4, OwnerFrame DEF OwnInv
<1>6. QED BY <1>1, <1>5 DEF OwnInv

\* The same.
LEMMA HandlerFailsOwn ==
    ASSUME IInv, OwnInv, NoLostWrites, HandlerFails
    PROVE  OwnInv'
<1>1. NewShape' /\ SentShape' /\ UpdateSnapShape'
  BY DEF OwnInv, NewShape, SentShape, UpdateSnapShape, IInv, TypeOK, ApiShape,
         Cleaning, HandlerFails, NextJob, apiVars
<1>2. Kept
  BY DEF Kept, IInv, TypeOK, ApiShape, HandlerFails, apiVars
<1>3. \A i \in Jobs : Unsettled(i) => Unsettled(i)'
  BY DEF Unsettled, InProgress, IInv, TypeOK, ApiShape, HandlerFails, NextJob,
         apiVars
<1>4. vol' = vol
  BY DEF HandlerFails
<1>5. OwnerShape'
  BY <1>2, <1>3, <1>4, OwnerFrame DEF OwnInv
<1>6. QED BY <1>1, <1>5 DEF OwnInv

\* A workflow that is terminated leaves no write of a job that it had not
\* settled.
LEMMA TerminateWorkflowOwn ==
    ASSUME IInv, OwnInv, NoLostWrites, TerminateWorkflow
    PROVE  OwnInv'
<1>1. NewShape' /\ SentShape' /\ UpdateSnapShape'
  BY DEF OwnInv, NewShape, SentShape, UpdateSnapShape, IInv, TypeOK, ApiShape,
         Cleaning, TerminateWorkflow, Close, InFlight, Open, Working, apiVars
<1>2. Kept
  BY DEF Kept, IInv, TypeOK, ApiShape, TerminateWorkflow, apiVars
<1>3. \A i \in Jobs : Unsettled(i) => Unsettled(i)'
  BY DEF Unsettled, InProgress, IInv, TypeOK, ApiShape, TerminateWorkflow,
         Close, InFlight, Open, Working, apiVars
<1>4. vol' = vol
  BY DEF TerminateWorkflow
<1>5. OwnerShape'
  BY <1>2, <1>3, <1>4, OwnerFrame DEF OwnInv
<1>6. QED BY <1>1, <1>5 DEF OwnInv

\* The supervisor is not about to mark.
LEMMA EvaluateJobOwn ==
    ASSUME IInv, OwnInv, NoLostWrites, NEW j \in Jobs, EvaluateJob(j)
    PROVE  OwnInv'
<1>1. NewShape' /\ SentShape' /\ UpdateSnapShape'
  BY DEF OwnInv, NewShape, SentShape, UpdateSnapShape, IInv, TypeOK, ApiShape,
         Cleaning, EvaluateJob, Visit, apiVars
<1>2. Kept
  BY DEF Kept, IInv, TypeOK, ApiShape, EvaluateJob, apiVars
<1>3. \A i \in Jobs : Unsettled(i) => Unsettled(i)'
  BY DEF Unsettled, InProgress, IInv, TypeOK, ApiShape, EvaluateJob, Visit,
         apiVars
<1>4. vol' = vol
  BY DEF EvaluateJob
<1>5. OwnerShape'
  BY <1>2, <1>3, <1>4, OwnerFrame DEF OwnInv
<1>6. QED BY <1>1, <1>5 DEF OwnInv

\* The same.
LEMMA DescribeFailsOwn ==
    ASSUME IInv, OwnInv, NoLostWrites, NEW j \in Jobs, DescribeFails(j)
    PROVE  OwnInv'
<1>1. NewShape' /\ SentShape' /\ UpdateSnapShape'
  BY DEF OwnInv, NewShape, SentShape, UpdateSnapShape, IInv, TypeOK, ApiShape,
         Cleaning, DescribeFails, Visit, apiVars
<1>2. Kept
  BY DEF Kept, IInv, TypeOK, ApiShape, DescribeFails, apiVars
<1>3. \A i \in Jobs : Unsettled(i) => Unsettled(i)'
  BY DEF Unsettled, InProgress, IInv, TypeOK, ApiShape, DescribeFails, Visit,
         apiVars
<1>4. vol' = vol
  BY DEF DescribeFails
<1>5. OwnerShape'
  BY <1>2, <1>3, <1>4, OwnerFrame DEF OwnInv
<1>6. QED BY <1>1, <1>5 DEF OwnInv

\* The target ceases to be an owner only of a volume it does not own.
LEMMA HandleOwn ==
    ASSUME IInv, OwnInv, NoLostWrites, Handle
    PROVE  OwnInv'
<1>1. NewShape' /\ SentShape' /\ UpdateSnapShape'
  BY DEF OwnInv, NewShape, SentShape, UpdateSnapShape, IInv, TypeOK, ApiShape,
         Cleaning, Handle, apiVars
<1>2. Kept
  BY DEF Kept, Handle, apiVars
<1>3. ASSUME kind[target] = "create" PROVE OwnerShape'
  <2>1. vol' \notin {"UPDATING", "DELETING"}
    BY <1>3 DEF Handle, Written, VolumeExists
  <2>2. QED BY <2>1 DEF OwnerShape, Transition
<1>4. ASSUME kind[target] # "create" PROVE OwnerShape'
  <2>1. \A k \in {"update", "delete"} : vol' = Transition(k) =>
           /\ vol = Transition(k)
           /\ \A i \in Jobs : kind[i] = k /\ Unsettled(i) => Unsettled(i)'
    BY <1>4 DEF Handle, Transition, Unsettled, InProgress, apiVars
  <2>2. QED BY <1>2, <2>1, OwnerFrame DEF OwnInv
<1>5. QED BY <1>1, <1>3, <1>4 DEF OwnInv

\* The volume is settled before the job is marked.
LEMMA RevertVolumeOwn ==
    ASSUME IInv, OwnInv, NoLostWrites, RevertVolume
    PROVE  OwnInv'
<1>1. NewShape' /\ SentShape' /\ UpdateSnapShape'
  BY DEF OwnInv, NewShape, SentShape, UpdateSnapShape, IInv, TypeOK, ApiShape,
         Cleaning, RevertVolume, NextJob, apiVars
<1>2. Kept
  BY DEF Kept, RevertVolume, apiVars
<1>3. target \in Jobs /\ kind[target] \in {"update", "delete"}
  BY DEF RevertVolume, IInv, SupShape, Cleaning
<1>4. /\ RevertState(target) # "UPDATING"
      /\ RevertState(target) = "DELETING" => ReRequested
  BY <1>3 DEF RevertState, OwnInv, UpdateSnapShape, IInv, SnapShape,
         ReRequested
<1>5. \A k \in {"update", "delete"} :
         vol' = Transition(k) => k = "delete" /\ ReRequested
  BY <1>4 DEF RevertVolume, Written, VolumeExists, Transition
<1>6. OwnerShape'
  BY <1>2, <1>5, OwnerFrame DEF OwnInv
<1>7. QED BY <1>1, <1>6 DEF OwnInv

\* The target was not an owner any more.
LEMMA MarkJobAsErrorOwn ==
    ASSUME IInv, OwnInv, NoLostWrites, MarkJobAsError
    PROVE  OwnInv'
<1>1. NewShape' /\ SentShape' /\ UpdateSnapShape'
  BY DEF OwnInv, NewShape, SentShape, UpdateSnapShape, IInv, TypeOK, ApiShape,
         SupShape, Cleaning, Unsent, MarkJobAsError, NextJob, UpdateJob,
         apiVars
<1>2. Kept
  BY DEF Kept, IInv, TypeOK, ApiShape, MarkJobAsError, apiVars
<1>3. \A i \in Jobs : Unsettled(i) => Unsettled(i)'
  BY DEF Unsettled, InProgress, IInv, TypeOK, ApiShape, MarkJobAsError,
         NextJob, UpdateJob, apiVars
<1>4. vol' = vol
  BY DEF MarkJobAsError
<1>5. OwnerShape'
  BY <1>2, <1>3, <1>4, OwnerFrame DEF OwnInv
<1>6. QED BY <1>1, <1>5 DEF OwnInv

-----------------------------------------------------------------------------
(* The theorem.                                                            *)

\* No job, and a volume that is not transitional.
LEMMA InitOwn == Init => OwnInv
BY DEF Init, OwnInv, NewShape, SentShape, UpdateSnapShape, OwnerShape,
       Cleaning, Transition

\* A step that changes nothing.
LEMMA StutterOwn == ASSUME OwnInv, UNCHANGED vars PROVE OwnInv'
BY DEF vars, OwnInv, NewShape, SentShape, UpdateSnapShape, OwnerShape,
       Cleaning, Unsettled, InProgress, ReRequested

\* Every step keeps the invariant when no write is lost.
LEMMA NextOwn ==
    ASSUME NoLostWrites, IInv, OwnInv, [Next]_vars PROVE OwnInv'
<1>1. CASE \E j \in Jobs : CreateVolume(j) \/ UpdateVolume(j) \/ DeleteVolume(j)
  BY <1>1, CreateVolumeOwn, UpdateVolumeOwn, DeleteVolumeOwn
<1>2. CASE \E j \in Jobs : ApiStep(j)
  BY <1>2, CheckExistingDeleteJobOwn, CreateJobOwn, SetTransitionalOwn,
     StartWorkflowOwn, UndoVolumeOwn, UndoJobOwn DEF ApiStep
<1>3. CASE \E j \in Jobs : WorkflowStep(j) \/ LateWrite(j)
  BY <1>3, EnsureJobStateOwn, ClaimJobOwn, RunSucceedsOwn, RunFailsOwn,
     FinishJobOwn, LateWriteOwn DEF WorkflowStep
<1>4. CASE \E j \in Jobs : Fault(j)
  <2>1. \A j \in Jobs : ~CreateJobFails(j)
    BY DEF CreateJobFails, NoLostWrites
  <2>2. QED BY <1>4, <2>1, StartWorkflowFailsOwn, ApiCrashesOwn,
               WorkflowTimesOutOwn, DescribeFailsOwn DEF Fault
<1>5. CASE StartQueued \/ ControlWorkflowTimesOut \/ HandlerFails
  BY <1>5, StartQueuedOwn, ControlWorkflowTimesOutOwn, HandlerFailsOwn
<1>6. CASE SupervisorStep
  BY <1>6, ScanNewStateJobsOwn, ScanProcessingStateTimeoutsOwn, ScanEndsOwn,
     EvaluateJobOwn, SkipCleanupOwn, TerminateWorkflowOwn, HandleOwn,
     RevertVolumeOwn, MarkJobAsErrorOwn DEF SupervisorStep
<1>7. CASE UNCHANGED vars
  BY <1>7, StutterOwn
<1>8. QED BY <1>1, <1>2, <1>3, <1>4, <1>5, <1>6, <1>7 DEF Next

\* When no write is lost, whatever else fails, a volume is UPDATING or
\* DELETING
\* only while a job of that type is in progress: the API call, the workflow,
\* its late activities and the supervisor all settle the volume before they
\* end the job.  With an ignored write, or an unassigned error, it is false.
THEOREM TransitionalOwner ==
    ASSUME NoLostWrites
    PROVE  Spec => []TransitionalHasOwner
<1>1. Init => OwnInv
  BY InitOwn
<1>2. IInv /\ OwnInv /\ [Next]_vars => OwnInv'
  BY NextOwn
<1>3. OwnInv => TransitionalHasOwner
  BY DEF OwnInv, OwnerShape, TransitionalHasOwner, Unsettled
<1>4. QED BY <1>1, <1>2, <1>3, Invariance, PTL DEF Spec
=============================================================================
