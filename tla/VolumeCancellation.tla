------------------------- MODULE VolumeCancellation -------------------------
(***************************************************************************)
(* Deleting a volume that is still being created.                          *)
(*                                                                         *)
(*   _deleteVolume                        factory/gcp/volume.go            *)
(*   HandleCancellationInDeleteWorkflow   common/cancellation.go           *)
(*   volumeDeleteWorkflow.Run             volume_delete_workflow.go        *)
(*   volumeCreateWorkflow.Run             volume_create_workflow.go        *)
(*   ExecuteDeferredCleanup               common/workflow_defer_handler.go *)
(*   RollbackManager                      common/rollbackManager.go        *)
(*                                                                         *)
(* The delete workflow of a volume in CREATING runs beside the create      *)
(* workflow.  It asks it to stop with a signal, waits, terminates it when  *)
(* the wait is over, and then deletes what the row showed when the API     *)
(* call read it.  The create workflow looks at the signal between its      *)
(* steps and undoes them in reverse order.                                 *)
(*                                                                         *)
(* A step of a workflow is an activity with its retries.  A delete call    *)
(* reads the row, looks for a delete job and inserts one, in three         *)
(* transactions: two calls may both insert a job, and then two delete      *)
(* workflows run.  Resources are the snapshot policy, the QoS policy and   *)
(* the volume in ONTAP, and the volume performance group (VPG) in the      *)
(* database.  RESTORING, the state of a volume whose data is still being   *)
(* restored, counts as READY.                                              *)
(***************************************************************************)
EXTENDS Naturals, Sequences, SequencesExt

CONSTANTS ManualQos,  \* whether the request asks for a throughput
          MaxDeletes, \* bound: delete calls
          UndoFails,  \* undo actions that may fail
          Faults      \* what may go wrong

AllFaults == {"stepError", "lostAnswer", "markError", "poolDeleting", "noBucket",
              "jobError", "callError", "ackTimeout", "startError", "denied"}

ASSUME CancellationAssumption == /\ ManualQos \in BOOLEAN
                                 /\ MaxDeletes \in Nat
                                 /\ UndoFails \subseteq {"policy", "qos", "vpg",
                                                         "row", "volume"}
                                 /\ Faults \subseteq AllFaults

VARIABLES vol,      \* the state of the volume's row
          attrs,    \* what the row refers to: ExternalUUID, VPG
          res,      \* the resources that exist
          cjob,     \* state of the create job
          cst,      \* the create workflow's execution
          cpc,      \* the step it is at
          undo,     \* RollbackManager.rollbacks
          sig,      \* the cancellation signal is in its channel
          cancelled,\* cancellationHandler.cancelled
          djob,     \* state of the job of each delete call
          dpc,      \* step of the call, then of its delete workflow
          snap,     \* attrs of the row the call read
          first,    \* the call whose job is the oldest delete job, or 0
          lapses    \* kinds of write that are known to have failed or come late

row    == <<vol, attrs>>
create == <<cjob, cst, cpc, undo, cancelled>>
delete == <<djob, dpc, snap, first>>
vars   == <<row, res, create, sig, delete, lapses>>

Resources == {"policy", "qos", "vpg", "volume"}
Attrs     == {"external", "vpg"}
JobStates == {"NEW", "PROCESSING", "DONE", "ERROR"}

\* Delete calls, in the order in which they read the row.
Calls == 1 .. MaxDeletes

\* The steps of volumeCreateWorkflow.Run that leave something behind.
StepNames == {"prepare", "policy", "qos", "vpg", "assign", "refresh", "volume",
              "persist", "details"}

\* A delete call, and then its workflow.
DeletePcs == {"idle", "look", "insert", "over", "start", "describe", "signal", "wait",
              "terminate", "mark", "protect", "volume", "policy", "row", "vpg",
              "cleanup"}

\* The step that follows step s.
After(s) == CASE s = "prepare" -> "policy"
              [] s = "policy"  -> IF ManualQos THEN "qos" ELSE "refresh"
              [] s = "qos"     -> "vpg"
              [] s = "vpg"     -> "assign"
              [] s = "assign"  -> "refresh"
              [] s = "refresh" -> "volume"
              [] s = "volume"  -> "persist"
              [] s = "persist" -> "details"
              [] OTHER         -> "done"

TypeOK == /\ vol \in {"CREATING", "READY", "ERROR", "DELETED"}
          /\ attrs \subseteq Attrs
          /\ res \subseteq Resources
          /\ cjob \in JobStates
          /\ cst \in {"queued", "running", "closed", "terminated"}
          /\ cpc \in StepNames \cup {"ensure", "processing", "markError", "rollback",
                                 "cleanup", "done", "abandon", "succeeded",
                                 "failed", "stopped"}
          /\ undo \in Seq(Resources \cup {"row"})
          /\ sig \in BOOLEAN /\ cancelled \in BOOLEAN
          /\ djob \in [Calls -> JobStates \cup {"NONE"}]
          /\ dpc \in [Calls -> DeletePcs]
          /\ snap \in [Calls -> SUBSET Attrs]
          /\ first \in 0 .. MaxDeletes
          /\ lapses \subseteq {"undo", "job"}

\* The create call has inserted the row and its job; the control workflow
\* has not started the create workflow.
Init == /\ vol = "CREATING" /\ attrs = {} /\ res = {}
        /\ cjob = "NEW" /\ cst = "queued" /\ cpc = "ensure" /\ undo = <<>>
        /\ sig = FALSE /\ cancelled = FALSE
        /\ djob = [d \in Calls |-> "NONE"] /\ dpc = [d \in Calls |-> "idle"]
        /\ snap = [d \in Calls |-> {}] /\ first = 0
        /\ lapses = {}

Live == vol # "DELETED"

-----------------------------------------------------------------------------
(* Effects of activities                                                   *)

\* GetVolume and UpdateVolumeFields report that a deleted row is not found.
NeedsRow(s) == s \in {"assign", "persist", "details"}

\* (mutant of Effect) The last update does not look whether the row is deleted.
EffectRevives(s) ==
  /\ res' = IF s \in Resources THEN res \cup {s} ELSE res
  /\ attrs' = CASE s = "assign"  -> attrs \cup {"vpg"}
                [] s = "persist" -> attrs \cup {"external"}
                [] OTHER         -> attrs
  /\ vol' = IF s = "details" THEN "READY" ELSE vol

\* What step s changes in ONTAP and in the database.
Effect(s) ==
  IF NeedsRow(s) /\ ~Live
  THEN UNCHANGED <<row, res>>
  ELSE /\ res' = IF s \in Resources THEN res \cup {s} ELSE res
       /\ attrs' = CASE s = "assign"  -> attrs \cup {"vpg"}
                     [] s = "persist" -> attrs \cup {"external"}
                     [] OTHER         -> attrs
       /\ vol' = IF s = "details" THEN "READY" ELSE vol

\* (mutant of VpgUnused) It does not look whether the VPG is in use.
VpgExists == "vpg" \in res

\* CleanupAutoGeneratedVPG goes on if no live volume uses the VPG ...
VpgUnused == "vpg" \in res /\ ~(Live /\ "vpg" \in attrs)

\* ... and deletes it, its QoS policy if ONTAP lets it, and the references of
\* deleted volumes.  (That the database would refuse to delete a VPG that is
\* referred to is not relied upon.)
DeleteVpg == /\ res' \in {res \ {"vpg"}, res \ {"vpg", "qos"}}
             /\ attrs' = IF Live THEN attrs ELSE attrs \ {"vpg"}
             /\ UNCHANGED vol

\* What the undo activity of u changes, up to the look at a VPG; none of them
\* minds a missing object.
UndoEffect(u) ==
  \/ u = "vpg" /\ UNCHANGED <<row, res>>
  \/ u = "row" /\ vol' = "DELETED" /\ UNCHANGED <<attrs, res>>
  \/ u \in {"policy", "qos", "volume"} /\ res' = res \ {u} /\ UNCHANGED row

AfterUndo(u) == IF u = "vpg" /\ VpgUnused THEN "cleanup" ELSE "rollback"

\* UpdateVolumeStateInDB(st); a deleted row is not found.
SetState(st) == vol' = IF Live THEN st ELSE vol

-----------------------------------------------------------------------------
(* The create workflow                                                     *)

AtStep(s) == cst = "running" /\ cpc = s

\* The control workflow starts it.
CStart == /\ cst = "queued"
          /\ cst' = "running"
          /\ UNCHANGED <<row, res, cjob, cpc, undo, sig, cancelled, delete, lapses>>

\* It returns an error; the job's row was not, or may not have been, updated.
CGiveUp == /\ "jobError" \in Faults
           /\ cst' = "closed" /\ cpc' = "failed"
           /\ lapses' = lapses \cup {"job"}

\* EnsureJobState: the job must be NEW.
CEnsure == /\ AtStep("ensure")
           /\ \/ cjob = "NEW" /\ cpc' = "processing" /\ UNCHANGED <<cst, lapses>>
              \/ /\ cjob # "NEW"
                 /\ cst' = "closed" /\ cpc' = "failed" /\ UNCHANGED lapses
              \/ CGiveUp
           /\ UNCHANGED <<row, res, cjob, undo, sig, cancelled, delete>>

\* UpdateJobStatus(PROCESSING), whatever the job's state is by now.
CProcessing == /\ AtStep("processing")
               /\ \/ /\ cjob' = "PROCESSING" /\ cpc' = "prepare"
                     /\ UNCHANGED <<cst, lapses>>
                  \/ CGiveUp /\ cjob' \in {cjob, "PROCESSING"}
               /\ UNCHANGED <<row, res, undo, sig, cancelled, delete>>

\* The steps before which CheckCancellationSignal is called.
Checked(s) == s \in {"prepare", "policy", "volume", "details"}

\* CheckCancellationSignal finds the signal; the deferred cleanup rolls back and
\* leaves the row's state alone.
CCancel == \E s \in StepNames :
  /\ AtStep(s) /\ Checked(s) /\ sig
  /\ cancelled' = TRUE
  /\ sig' = FALSE
  /\ cpc' = "rollback"
  /\ UNCHANGED <<row, res, cjob, cst, undo, delete, lapses>>

\* Undo actions registered before step s runs, and after it succeeded.
UndoBefore(s) == IF s = "policy" THEN <<"policy">> ELSE <<>>
UndoAfter(s)  == CASE s \in {"qos", "vpg", "volume"} -> <<s>>
                   [] s = "refresh"                  -> <<"row">>
                   [] OTHER                          -> <<>>

\* Step s succeeds.
CStep == \E s \in StepNames :
  /\ AtStep(s)
  /\ ~(Checked(s) /\ sig)
  /\ NeedsRow(s) => Live
  /\ Effect(s)
  /\ undo' = undo \o UndoBefore(s) \o UndoAfter(s)
  /\ cpc' = After(s)
  /\ UNCHANGED <<cjob, cst, sig, cancelled, delete, lapses>>

\* Step s fails and changes nothing: its row is deleted, or the activity's
\* retries are used up.
CFail == \E s \in StepNames :
  /\ AtStep(s)
  /\ ~(Checked(s) /\ sig)
  /\ (NeedsRow(s) /\ ~Live) \/ "stepError" \in Faults
  /\ undo' = undo \o UndoBefore(s)
  /\ cpc' = "markError"
  /\ UNCHANGED <<row, res, cjob, cst, sig, cancelled, delete, lapses>>

\* Step s takes effect and is reported as failed.  What UndoAfter would have
\* registered is not undone.
CLost == \E s \in StepNames \ {"prepare", "refresh"} :
  /\ "lostAnswer" \in Faults
  /\ AtStep(s)
  /\ ~(Checked(s) /\ sig)
  /\ NeedsRow(s) => Live
  /\ Effect(s)
  /\ undo' = undo \o UndoBefore(s)
  /\ cpc' = "markError"
  /\ lapses' = IF UndoAfter(s) = <<>> THEN lapses ELSE lapses \cup {"undo"}
  /\ UNCHANGED <<cjob, cst, sig, cancelled, delete>>

\* ValidatePoolStateForVolumeCreate: the pool is being deleted or gone; the row
\* is deleted and the step fails.
CPoolDeleting ==
  /\ "poolDeleting" \in Faults
  /\ AtStep("prepare") /\ ~sig
  /\ vol' = "DELETED"
  /\ cpc' = "markError"
  /\ UNCHANGED <<attrs, res, cjob, cst, undo, sig, cancelled, delete, lapses>>

\* A backup vault without bucket details: Run returns an error while its
\* variable err is nil, so the deferred cleanup returns at once.
CAbandon ==
  /\ "noBucket" \in Faults
  /\ AtStep("details") /\ ~sig
  /\ cpc' = "abandon"
  /\ lapses' = lapses \cup {"undo"}
  /\ UNCHANGED <<row, res, cjob, cst, undo, sig, cancelled, delete>>

\* updateErrorState of the deferred cleanup, whose own error is ignored.
CMarkError ==
  /\ AtStep("markError")
  /\ \/ SetState("ERROR")
     \/ "markError" \in Faults /\ UNCHANGED vol
  /\ cpc' = "rollback"
  /\ UNCHANGED <<attrs, res, cjob, cst, undo, sig, cancelled, delete, lapses>>

\* (mutant of CRollback) Undo actions run in the order they were registered.
CRollbackInOrder ==
  /\ AtStep("rollback") /\ undo # <<>>
  /\ \/ /\ UndoEffect(Head(undo))
        /\ cpc' = AfterUndo(Head(undo))
        /\ UNCHANGED lapses
     \/ /\ Head(undo) \in UndoFails
        /\ lapses' = lapses \cup {"undo"}
        /\ UNCHANGED <<row, res, cpc>>
  /\ undo' = Tail(undo)
  /\ UNCHANGED <<cjob, cst, sig, cancelled, delete>>

\* ExecuteRollback: the last undo action; an error is logged and the next runs.
CRollback ==
  /\ AtStep("rollback") /\ undo # <<>>
  /\ \/ /\ UndoEffect(Last(undo))
        /\ cpc' = AfterUndo(Last(undo))
        /\ UNCHANGED lapses
     \/ /\ Last(undo) \in UndoFails
        /\ lapses' = lapses \cup {"undo"}
        /\ UNCHANGED <<row, res, cpc>>
  /\ undo' = Front(undo)
  /\ UNCHANGED <<cjob, cst, sig, cancelled, delete>>

\* The rest of the undo of a VPG that was found to be unused.
CCleanup ==
  /\ AtStep("cleanup")
  /\ \/ DeleteVpg /\ UNCHANGED lapses
     \/ /\ "vpg" \in UndoFails
        /\ lapses' = lapses \cup {"undo"}
        /\ UNCHANGED <<row, res>>
  /\ cpc' = "rollback"
  /\ UNCHANGED <<cjob, cst, undo, sig, cancelled, delete>>

\* Run has returned, and with this outcome.
Returned == cpc \in {"done", "abandon"} \/ (cpc = "rollback" /\ undo = <<>>)
Outcome  == IF cpc = "done" THEN "DONE" ELSE "ERROR"

\* CreateVolumeWorkflow records the outcome; the update may fail.  The rollback
\* stack and the signal channel go with the workflow.
CEnd == /\ cst = "running" /\ Returned
        /\ \/ cjob' = Outcome /\ UNCHANGED lapses
           \/ /\ "jobError" \in Faults
              /\ lapses' = lapses \cup {"job"}
              /\ UNCHANGED cjob
        /\ cst' = "closed"
        /\ cpc' = IF cpc = "done" THEN "succeeded" ELSE "failed"
        /\ undo' = <<>> /\ sig' = FALSE
        /\ UNCHANGED <<row, res, cancelled, delete>>

\* The activity that was running when the workflow was terminated ends later.
CLate ==
  /\ cst = "terminated"
  /\ \/ cpc \in StepNames /\ Effect(cpc) /\ cpc' = "stopped"
     \/ /\ cpc = "rollback" /\ undo # <<>>
        /\ UndoEffect(Last(undo))
        /\ cpc' = IF AfterUndo(Last(undo)) = "cleanup" THEN "cleanup" ELSE "stopped"
     \/ cpc = "cleanup" /\ DeleteVpg /\ cpc' = "stopped"
     \/ /\ cpc = "markError" /\ SetState("ERROR") /\ cpc' = "stopped"
        /\ UNCHANGED <<attrs, res>>
  /\ undo' = <<>>
  /\ UNCHANGED <<cjob, cst, sig, cancelled, delete, lapses>>

\* That activity is an update of the job.
CLateJob ==
  /\ cst = "terminated"
  /\ \/ /\ cpc = "processing"
        /\ cjob' = "PROCESSING"
        /\ lapses' = IF cjob \in {"DONE", "ERROR"} THEN lapses \cup {"job"} ELSE lapses
     \/ Returned /\ cjob' = Outcome /\ UNCHANGED lapses
  /\ cpc' = "stopped"
  /\ undo' = <<>>
  /\ UNCHANGED <<row, res, cst, sig, cancelled, delete>>

Create == CStart \/ CEnsure \/ CProcessing \/ CCancel \/ CStep \/ CFail \/ CLost
          \/ CPoolDeleting \/ CAbandon \/ CMarkError \/ CRollback \/ CCleanup
          \/ CEnd

-----------------------------------------------------------------------------
(* The delete call and its workflow                                        *)

Goto(d, p) == dpc' = [dpc EXCEPT ![d] = p] /\ UNCHANGED <<djob, snap, first>>

\* _deleteVolume of a volume in CREATING, with the create job's correlation ID:
\* it reads the row, ...
DRead(d) == /\ vol = "CREATING"
            /\ dpc[d] = "idle"
            /\ \A e \in Calls : e < d => dpc[e] # "idle"
            /\ snap' = [snap EXCEPT ![d] = attrs]
            /\ dpc' = [dpc EXCEPT ![d] = "look"]
            /\ UNCHANGED <<row, res, create, sig, djob, first, lapses>>

\* ... looks at the oldest delete job, and returns it if it is unfinished, ...
DLook(d) ==
  /\ dpc[d] = "look"
  /\ \/ /\ first # 0 /\ djob[first] \in {"NEW", "PROCESSING"}
        /\ Goto(d, "over")
     \/ /\ first # 0 => djob[first] \in {"DONE", "ERROR"}
        /\ Goto(d, "insert")
  /\ UNCHANGED <<row, res, create, sig, lapses>>

\* ... and inserts its job; the row keeps its state.
DInsert(d) == /\ dpc[d] = "insert"
              /\ djob' = [djob EXCEPT ![d] = "NEW"]
              /\ first' = IF first = 0 THEN d ELSE first
              /\ dpc' = [dpc EXCEPT ![d] = "start"]
              /\ UNCHANGED <<row, res, create, sig, snap, lapses>>

\* The delete workflow runs at once, beside the control workflow.
DStart(d) == /\ dpc[d] = "start"
             /\ djob' = [djob EXCEPT ![d] = "PROCESSING"]
             /\ dpc' = [dpc EXCEPT ![d] = "describe"]
             /\ UNCHANGED <<row, res, create, sig, snap, first, lapses>>

\* (mutant of DFailWith) The job is not updated.
DFailWithoutJob(d, st) == /\ SetState(st)
                          /\ Goto(d, "over")
                          /\ UNCHANGED <<attrs, res, create, sig, lapses>>

\* The run ends with an error: the row gets state st, the job ERROR.
DFailWith(d, st) == /\ SetState(st)
                    /\ djob' = [djob EXCEPT ![d] = "ERROR"]
                    /\ dpc' = [dpc EXCEPT ![d] = "over"]
                    /\ snap' = [snap EXCEPT ![d] = {}]
                    /\ UNCHANGED <<attrs, res, create, sig, first, lapses>>

\* The start of the workflow fails.
DStartError(d) == /\ "startError" \in Faults
                  /\ dpc[d] = "start"
                  /\ DFailWith(d, "ERROR")

\* (mutant of MarkCreateJob) The job gets a state of its own.
MarkCancelled ==
  \/ cjob' = "CANCELLED" /\ UNCHANGED lapses
  \/ "callError" \in Faults /\ lapses' = lapses \cup {"job"} /\ UNCHANGED cjob

\* The create job's row gets ERROR, whatever it was.
MarkCreateJob ==
  \/ cjob' = "ERROR" /\ UNCHANGED lapses
  \/ "callError" \in Faults /\ lapses' = lapses \cup {"job"} /\ UNCHANGED cjob

\* The create job and whether its workflow runs.  A workflow that is still in
\* the control workflow's queue is not found, which is an error.
DDescribe(d) ==
  /\ dpc[d] = "describe"
  /\ \/ cst = "running" /\ Goto(d, "signal") /\ UNCHANGED <<cjob, lapses>>
     \/ cst \in {"closed", "terminated"} /\ MarkCreateJob /\ Goto(d, "protect")
     \/ /\ cst = "queued" \/ "callError" \in Faults
        /\ Goto(d, "protect") /\ UNCHANGED <<cjob, lapses>>
  /\ UNCHANGED <<row, res, cst, cpc, undo, cancelled, sig>>

\* The signal; an error is ignored, as is a workflow that has closed.
DSignal(d) ==
  /\ dpc[d] = "signal"
  /\ \/ sig' = (sig \/ cst = "running")
     \/ "callError" \in Faults /\ UNCHANGED sig
  /\ Goto(d, "wait")
  /\ UNCHANGED <<row, res, create, lapses>>

\* The create workflow is closed, or the wait is over.
DWait(d) ==
  /\ dpc[d] = "wait"
  /\ \/ cst # "running" /\ Goto(d, "mark")
     \/ {"ackTimeout", "callError"} \cap Faults # {} /\ Goto(d, "terminate")
  /\ UNCHANGED <<row, res, create, sig, lapses>>

\* ForceCancelWorkflowActivity; a workflow that has closed is left as it is.  Only
\* the activity in execution survives the termination.
DTerminate(d) ==
  /\ dpc[d] = "terminate"
  /\ \/ cst = "running" /\ cst' = "terminated" /\ sig' = FALSE /\ cancelled' = FALSE
     \/ cst # "running" /\ UNCHANGED <<cst, sig, cancelled>>
     \/ "callError" \in Faults /\ UNCHANGED <<cst, sig, cancelled>>
  /\ Goto(d, "mark")
  /\ UNCHANGED <<row, res, cjob, cpc, undo, lapses>>

\* (mutant of DMark) The create job is left to its workflow.
DMarkNothing(d) == /\ dpc[d] = "mark"
                   /\ Goto(d, "protect")
                   /\ UNCHANGED <<row, res, create, sig, lapses>>

\* The create job is recorded as cancelled.
DMark(d) == /\ dpc[d] = "mark"
            /\ MarkCreateJob
            /\ Goto(d, "protect")
            /\ UNCHANGED <<row, res, cst, cpc, undo, cancelled, sig>>

\* EnforceDeleteProtection: nodes, then clients of a protected volume.  What the
\* row referred to when it was read decides whether ONTAP is touched.
DProtect(d) == /\ dpc[d] = "protect"
               /\ Goto(d, IF "external" \in snap[d] THEN "volume" ELSE "row")
               /\ UNCHANGED <<row, res, create, sig, lapses>>

\* A denied delete puts back the state that was read: CREATING.
DDenied(d) == /\ "denied" \in Faults
              /\ dpc[d] = "protect" /\ "volume" \in res
              /\ DFailWith(d, "CREATING")

\* DeleteVolumeInONTAP and DeleteSnapshotPolicyInONTAP.
DOntap(d) == \E r \in {"volume", "policy"} :
  /\ dpc[d] = r
  /\ res' = res \ {r}
  /\ Goto(d, IF r = "volume" THEN "policy" ELSE "row")
  /\ UNCHANGED <<row, create, sig, lapses>>

\* DeleteVolume: a row that is deleted already is no error.
DRow(d) == /\ dpc[d] = "row"
           /\ vol' = "DELETED"
           /\ Goto(d, "vpg")
           /\ UNCHANGED <<attrs, res, create, sig, lapses>>

\* The end of the run.
DDone(d) == /\ djob' = [djob EXCEPT ![d] = "DONE"]
            /\ dpc' = [dpc EXCEPT ![d] = "over"]
            /\ snap' = [snap EXCEPT ![d] = {}]
            /\ UNCHANGED first

\* CleanupAutoGeneratedVPG: the look, if the row that was read had a VPG, ...
DVpg(d) == /\ dpc[d] = "vpg"
           /\ IF "vpg" \in snap[d] /\ VpgUnused THEN Goto(d, "cleanup") ELSE DDone(d)
           /\ UNCHANGED <<row, res, create, sig, lapses>>

\* ... and the rest of it.
DCleanup(d) == /\ dpc[d] = "cleanup"
               /\ DeleteVpg
               /\ DDone(d)
               /\ UNCHANGED <<create, sig, lapses>>

\* An activity of the run fails.  The error of the VPG's cleanup is returned
\* too, although the row is deleted by then.
DFail(d) == /\ "stepError" \in Faults
            /\ dpc[d] \in {"protect", "volume", "policy", "row", "vpg", "cleanup"}
            /\ dpc[d] = "vpg" => "vpg" \in snap[d]
            /\ DFailWith(d, "ERROR")

Call(d) == DRead(d) \/ DLook(d) \/ DInsert(d)

Delete(d) == DStart(d) \/ DStartError(d) \/ DDescribe(d) \/ DSignal(d) \/ DWait(d)
             \/ DTerminate(d) \/ DMark(d) \/ DProtect(d) \/ DDenied(d) \/ DOntap(d)
             \/ DRow(d) \/ DVpg(d) \/ DCleanup(d) \/ DFail(d)

Next == Create \/ CLate \/ CLateJob \/ \E d \in Calls : Call(d) \/ Delete(d)

\* Temporal runs the workflows to their end; an activity's timeouts and retries
\* are bounded.  Nothing is assumed of API calls, nor of late activities.
Spec == /\ Init
        /\ [][Next]_vars
        /\ WF_vars(Create)
        /\ \A d \in Calls : WF_vars(Delete(d))

-----------------------------------------------------------------------------
(* Properties                                                              *)

\* A create workflow that ends by itself without success has undone what it
\* did, in whatever step the signal, an error or the deletion of its row
\* stopped it: nothing is left but a VPG the row still refers to, and after a
\* cancellation nothing at all.  Excepted are undo actions that failed, answers
\* of creations that were lost before their undo was registered, and the return
\* that skips the cleanup.
RollbackIsComplete ==
  cpc = "failed" /\ "undo" \notin lapses
    => res \subseteq (IF cancelled THEN {} ELSE attrs \cap {"vpg"})

\* A volume with a delete job that is DONE is deleted, and neither a create
\* workflow that starts or goes on afterwards, nor a late activity of a terminated
\* one, nor a second delete workflow that fails or is denied brings it back.
DoneMeansDeleted == \A d \in Calls : djob[d] = "DONE" => vol = "DELETED"

\* A live row refers only to a VPG that exists, although the workflows clean VPGs
\* up independently, each some time after it has looked whether the VPG is in use
\* (volume_delete_activities.go:109 and 168): the foreign key that would refuse it
\* is never needed.
VpgReferenceIsValid == Live /\ "vpg" \in attrs => "vpg" \in res

\* The create job ends and stays as it is, even if its workflow is terminated in
\* any of its steps.  Excepted are an update of the job that failed, in the create
\* workflow (volume_create_workflow.go:724, 733, 741) or in the delete workflow,
\* and an update to PROCESSING that comes after the delete workflow ended the job.
CreateJobEnds == <>[](cjob \in {"DONE", "ERROR"} \/ "job" \in lapses)

\* Every delete job that was inserted ends and stays as it is, even if the create
\* workflow does not answer, and beside another delete workflow.  (The API process
\* is assumed to start the workflow, and the workflow's updates of its own job to
\* succeed.)
DeleteJobEnds == \A d \in Calls : <>[](djob[d] \in {"NONE", "DONE", "ERROR"})

\* The framework is to clean up partially created resources: once the delete is
\* DONE and the create workflow over, the volume does not exist in ONTAP.
DeletedLeavesNoVolume ==
  (\E d \in Calls : djob[d] = "DONE") /\ cst \in {"closed", "terminated"}
    => "volume" \notin res
=============================================================================
