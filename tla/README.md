# TLA+ verification of the VSA control plane

This project models the part of the control plane that carries its own logic:
how an API request on a storage resource becomes a job, how the job's workflow
is serialised with the others of its pool, how a job that got stuck is cleaned
up, how a creation is cancelled and rolled back, how keys are rotated under a
distributed lock, and how pools are visited by a pool of workers. It holds TLA+
modules, TLC configurations, and proofs checked by TLAPS. Paths below are
relative to the repository (`core/...`, `database/...`).

Contents: [1 the system](#1-the-system) · [2 modules](#2-the-modules-and-the-code)
· [3 runs](#3-the-runs) · [4 proofs](#4-the-proofs) · [5 findings](#5-findings)
· [6 what is left out](#6-what-is-not-modelled) · [7 plan](#7-plan)

## 1. The system

A customer's request arrives at an API proxy and is executed by an orchestrator
factory. The factory checks it, writes a **job** row and the resource's
transitional state to the database, and starts a Temporal **workflow**. The
workflow calls ONTAP and the cloud, then writes the resource's final state and
the job's. There is no transaction around all this; what holds it together is
the order of the writes, deferred "undo" calls, a control workflow per pool and
a periodic supervisor.

| component | state it keeps | operations | talks to | what is hard | what makes it correct |
|---|---|---|---|---|---|
| control workflow (`core/orchestrator/workflows/control_workflow.go`) | signal channel, idle timer, exit flag, the child it waits for | receive a signal, execute a child, exit when idle | API calls (signals), child workflows | a signal racing the idle exit; run timeout; duplicates | nothing accepted is lost; one child at a time, in order, at most once; it ends |
| workflow executor (`workflowExecutor.go`) | attempt number | start or signal-with-start, retried | Temporal | an answer that is lost; the request's context ends | attempts are bounded; a retry has no second effect |
| volume API calls (`core/orchestrator/factory/gcp/volume.go`) | none: rows | create, update, delete, with deferred undo | job and volume tables, executor | crash between two writes; start fails or is ambiguous; two requests at once | a transitional volume always has somebody who will settle it |
| volume workflows (`volume_*_workflow.go`, `common_workflows.go`) | workflow history | ensure NEW, claim, run, report | tables, ONTAP | timeout while an activity is executing; error paths | the job's result tells what happened to the volume |
| workflow supervisor (`core/tasks/workflow_supervisor_task.go`) and handlers (`core/tasks/supervisor-handler`) | the jobs it fetched | scan NEW, scan PROCESSING, terminate, revert, mark | tables, Temporal | it acts on what it read a while ago, in several transactions, on jobs whose owner may be alive | it never kills work that is being done; every stuck job is ended |
| cancellation and rollback (`core/orchestrator/common/cancellation.go`, `workflow_defer_handler.go`, `rollbackManager.go`) | signal, acknowledgement, stack of undo actions | signal, wait, force termination, undo in reverse order | create and delete workflows | stale snapshot of a volume that is still being created; answers that are lost; activities of a terminated workflow | what was created is undone or owned; a deleted volume stays deleted; both jobs end |
| Kubernetes lock (`utils/kubernetes_lock.go`) | Lease object: holder, renew time | acquire, renew, release, each a read and a conditional write | Kubernetes API server, KMS activities | clocks that differ; a lost answer; a holder that dies | no takeover of a valid lease; only the holder renews or releases; a dead holder blocks nobody |
| KMS key rotation (`rotate_kms_key_*.go`, `database/vcp/service_account.go`) | row of the service account, keys in GCP, key of each SVM | create, store, migrate pools, complete, delete | GCP, ONTAP, pool creation | failure after any step, retried and overlapping rotations, activities that outlive their workflow or their attempt, read-and-save without a transaction by rotations and pool creations | a key in use is never deleted; a rotation repairs what an earlier one left |
| orphan jobs (`orphan_job_activities.go`) | retry count | start or give up | job table, Temporal | start succeeded, write failed | every job is started or ended |
| in-memory tasks (`core/inmemotasksprocessor`) | two channels, workers, goroutines of tasks and units | add, run, time out | cluster health task | functions that hang; goroutines that outlive the timeout | one result per task; nothing starts after `Run` has returned; `Run` returns |
| cluster health (`core/tasks/SyncVSAClusterHealthTask.go`) | pool states | compare, update | VSA clusters | a pool changes while it is examined | no transitional pool is overwritten |
| harvest pollers (`poller_rebalance_workflow.go`) | node groups | upload, verify, commit, roll back | Kubernetes, buckets | partial failure | no node is lost or polled twice |
| replication, backups, pools, KMS, QoS, VMRS, telemetry, proxies, clients | rows | many | external services | mostly external calls and data | see `PROJECT.json` |

`PROJECT.json` lists all components with their status, and the hazards, each at
the line where it bites, with the properties that would catch it.

## 2. The modules and the code

```
SerialQueue            what the control workflow promises
  ^  refined by
SequenceWorkflow       control_workflow.go + workflowExecutor.go
  ^ extended by        MCSequenceWorkflow (TLC), SequenceWorkflow_proofs (TLAPS)

VolumeJobs             volume.go + volume_*_workflow.go + supervisor + handlers
                       (uses of the control workflow only what SerialQueue says)
  ^ extended by        MCVolumeJobs (TLC), VolumeJobs_proofs and, on top of it,
                       VolumeJobsOwner_proofs (TLAPS)

VolumeCancellation     create and delete workflows of one volume, step by step,
                       with cancellation and rollback
  ^ extended by        MCVolumeCancellation (TLC), VolumeCancellation_proofs (TLAPS)

LeaseLock              what the lock promises ^ refined by         KubernetesLock
utils/kubernetes_lock.go |                      ^ extended by
MCKubernetesLock, KubernetesLock_proofs ^ extended by        KmsRotation
key rotation and pool creation, using |                 the lock as LeaseLock
describes it ^ extended by     MCKmsRotation (TLC), KmsRotation_proofs and, on top
of it, KmsRotationPools_proofs (TLAPS)

TaskProcessor          core/inmemotasksprocessor/processor.go
  ^ extended by        MCTaskProcessor (TLC), TaskProcessor_proofs (TLAPS)
```

### SequenceWorkflow

One control workflow ID (one pool). `Requests` are child workflow IDs, one per
job; `MaxRetries` is `temporalWorkflowMaxRetries`.

| state | code |
|---|---|
| `caller`, `attempt` | the position of each `ExecuteSequentialWorkflow` call in `executeWithRetry` and its `attempt` |
| `run` | the open run of `SequenceWorkflow`: at `selector.Select` (`selecting`), at `Get` of the child (`child`), returning (`exiting`), or none |
| `incoming`, `signals` | signals recorded by the server; signals in `signalChan` |
| `timerFired`, `exitFlag` | `timeoutFuture` is ready; the variable |
| `current`, `child` | the child waited for; the state of every child |
| `dropped` | history variable: what a run that timed out took with it |

`SendOk`, `SendAmbiguous`, `SendRetryableError`, `SendFatalError`, `NextAttempt`
and `ContextDone` are the branches of the retry loop. `SelectReceive`,
`SelectReceiveDuplicate` and `SelectTimeout` are the selector's cases, each with
the rest of the loop body (`AfterSelect`, with `HasPending` as the SDK defines
it). `DeliverSignals`, `TimerFires`, `ChildCloses`, `RunTimesOut` and
`TerminateOrphan` are the Temporal server, which is external: only what the code
relies on is modelled, and the header of the module lists it.

### SerialQueue

The abstract specification: a queue, at most one active request, at most one
execution per request. `Abandon` is the concession to the run timeout: the
queue may be dropped, and the child that was active then is left behind.

### VolumeJobs

One volume and the requests on it. A step is one database transaction or one
call to Temporal, so that every interleaving of API calls, workflows, activities
that outlive their workflow, and the supervisor is explored.

| state | code |
|---|---|
| `vol` | `State` of the volume's row (`none`: no row, `DELETED`: soft-deleted) |
| `id`, `lastID`, `kind`, `state`, `prev` | the job row: primary key, type, state, `PreviousState` (also `volume.State` in the workflow's arguments) |
| `api` | where `_createVolume`, `_updateVolume` or `_deleteVolume` is, or that its process died |
| `wf`, `queue`, `late` | where the job's workflow is or how it closed; requests the control workflow holds; a write of an activity whose workflow was closed |
| `sup`, `sweep`, `todo`, `target` | the supervisor: position, `expectedState`, jobs fetched, job it cleans up |

The API actions are the writes of the three functions in their order, and
`UndoVolume`, `UndoJob` their deferred calls, last in first out. The workflow
actions are the frame all workflows share: `EnsureJobState`, `ClaimJob`
(`UpdateJobStatus(PROCESSING)`), `RunSucceeds` / `RunFails` (the write of the
volume's state that ends `Run`, with the deferred function's choice of state),
`FinishJob`. The supervisor actions follow `scan`: fetch, evaluate, lock and
terminate, handler (look, then revert), mark.

The constant `Faults` says what may go wrong; the proofs hold for every value.

| fault | what happens |
|---|---|
| `apiCrash` | the API process dies between two steps |
| `startError`, `ambiguousStart` | the last attempt to start the workflow fails, without or with effect |
| `longWait` | a request waits in the control workflow's queue for longer than the supervisor's grace period |
| `runTimeout`, `queueLost` | a workflow, or the control workflow, exceeds `WorkflowRunTimeout` |
| `deleteDenied` | the delete is refused by ONTAP and the old state restored (`shouldUpdateVolumeStateToError`) |
| `vpgError` | the cleanup of the volume performance group fails after the row was removed |
| `unassignedErr` | an error path of `Run` that its deferred function does not see |
| `describeError`, `terminateError`, `handlerError` | the supervisor's calls fail |
| `dbError` | a database call whose error is logged and ignored fails |

Abstractions. Time is one assumption: an API call ends, or its process dies,
before its job is as old as the grace period, because the period is minutes and
the call seconds. The ONTAP and cloud calls in `Run` are one step with the write
of the state; what a failed create does to the row (ERROR, then perhaps its
removal as a rollback) is one write of either value. Parameters, sizes,
messages and log lines are left out.

### VolumeCancellation

One volume that is being created and the deletes requested meanwhile.
`VolumeJobs` treats a workflow's `Run` as one write; here it is its steps.

| state | code |
|---|---|
| `vol`, `attrs` | `State` of the row; whether it has an `ExternalUUID` and a volume performance group (VPG) |
| `res` | snapshot policy, QoS policy and volume in ONTAP, VPG in the database |
| `cjob`, `cst`, `cpc`, `undo`, `cancelled` | create job; execution of its workflow and its step in `Run`; `RollbackManager.rollbacks`; `cancellationHandler.cancelled` |
| `sig` | the cancellation signal waits in its channel |
| `djob`, `dpc`, `snap` | of each delete call: its job; the step of the call and then of its workflow; what the row showed to it |
| `first` | the call whose job is the oldest delete job, the one `GetJobByResourceUUID` returns |
| `lapses` | history variable: whether an undo (`"undo"`) or a write of the create job (`"job"`) failed, was skipped or came late |

`CStart` is the control workflow; `CEnsure` and `CProcessing` are
`EnsureJobState` and the write of PROCESSING, two activities, each of which may
end the workflow with an error (`CGiveUp`). `CStep`, `CFail`, `CLost` execute a
step of `Run`: its effect with the undo it registers, an error, or an effect
whose answer was lost. `CCancel` is the check of the signal between steps
(`Checked` names the steps that have one in front), `CMarkError`, `CRollback` and
`CCleanup` the deferred cleanup: the undo of a VPG looks whether a volume uses it
and deletes it in a later step. `CEnd` records the outcome, or fails to. `CLate`
and `CLateJob` are the activity of a terminated workflow, the latter when it is a
write of the job: a PROCESSING that comes after the delete workflow has ended the
job opens it again.

A delete call reads the row (`DRead`), looks at the oldest delete job (`DLook`)
and inserts its own (`DInsert`), in three transactions. Two calls may both insert
a job, and a finished oldest job hides an unfinished newer one; then two delete
workflows run beside the create workflow. `DDescribe`, `DSignal`, `DWait`,
`DTerminate`, `DMark` are `HandleCancellationInDeleteWorkflow`; `DProtect` to
`DVpg` and `DCleanup` the deletion itself, with the snapshot's decision whether
ONTAP is called at all. The rollback stack and the signal channel go with the
workflow.

`UndoFails` names the undo actions that may fail. Faults: errors of steps
(`stepError`) and of the write of ERROR to the volume (`markError`), lost answers,
a write of the create job that fails with an error Temporal does not retry
(`jobError`), a pool that is being deleted, a missing bucket (the return that
skips the cleanup), errors of calls to Temporal, an acknowledgement that does not
come in time, a start that fails, a delete that ONTAP denies.

Abstractions. A step is an activity with its retries; attempts that outlive their
retry are modelled for a terminated create workflow only. An API process that
dies between the insertion of the job and the start of the workflow is in
`VolumeJobs` and not here.

### KubernetesLock and LeaseLock

A client is one attempt of `AcquireKmsRotationLockActivity`; `NewLocker` gives
each a fresh identity. `lease` is the Lease object, `pc` and `stamp` the main
coroutine, `ren` and `renStamp` the renewal of the heartbeat coroutine. The
resource version is the set `current` of operations that have read the version
the lease still has; a successful write empties it. Time is kept as ages, so
that no clock grows without bound, and every reading of a clock is off by at most
`Skew`. Reads and writes are separate steps: `LockGet`/`LockUpdate`,
`RenewGet`/`RenewUpdate`, `UnlockGet`/`UnlockUpdate`. `LostLockUpdate` is a write
that took effect and whose answer was lost, `Abandon` a workflow that ends
without its release function.

`LeaseLock` says what users may rely on: an owner, a lease that is valid or not,
takeover only when it is not. It does *not* say that the owner is alone while it
works: an owner whose lease has expired may be taken over and not know.

### KmsRotation

One KMS configuration: its service account's row, the keys in GCP, the pools
that use it.

| state | code |
|---|---|
| `sa` | the row: password location, keys array, primary and active flags, key data |
| `gcp`, `created` | keys that exist in GCP |
| `rot`, `fate` | an execution of `RotateKmsKeyChildWorkflow`: step, copy of the row between a read and its save, keys and pools it works on, and `moved`, a history of whether it moved the password location to its key; whether its workflow goes on, or only its last activity does |
| `pool`, `ontap`, `tracked`, `seen`, `copy` | pool state, CREATING by its step; key of the pool's SVM in ONTAP; `Svm.CurrentKmsKeyID`; key and row a pool creation has read |
| `owner`, `valid` | the lock |
| `starts` | executions and repeated attempts so far, for the bound |
| `alone`, `disturbed` | history variables: the last rotation if nobody has got in its way; whether somebody ever got in a rotation's way |

Actions follow the phases: `Validate`, `LockRotation`, `ReuseKey` / `RefuseKey` /
`CreateKey`, `StoreNewKey`, `UnlockRotation`, `Batch`, `SkipPool` / `ModifyKms` /
`Reachable` / `Unreachable`, `MigrationsDone`, `Complete`, `ListMarked`,
`DeleteKey`. The functions of `service_account.go` read the row and save all of
it: `ReadRow`, then `SaveRow` or `FailUpdate`. Two members of `Rotations` are the
background workflow and a customer's request, which nothing keeps apart, or an
attempt and the one that outlives it.

When the workflow times out or is terminated (`Crash`), the activity in execution
goes on: it keeps the step, the copy it has read and the keys it knows, its
remaining writes and ONTAP calls land at any later time, and nothing follows it;
`Gone` is the moment it is over. A new execution may take its place before or
after, in another member of `Rotations`. `Timeout` repeats an activity from its
first step (`FirstStep`) while the earlier attempt goes on beside it.

Pool creation writes the same row. `VerifyKey` and `CheckPresent` read the
location and look for its key in GCP; if it is not found, or the listing fails,
`Resync` deletes every key of the account, `Recreate` makes one, and
`UpdateServiceAccountEmailAndKey` stores it; `UpdateServiceAccountState` follows
in any case. Both read and save the row, also when the creation has ended
meanwhile (`CopyRow`, `SaveCopy`, `FailCopy`). Then come `VerifyReachability` and
the configuration of the SVM under the lock, `LockPool` to `CheckReachable`.

"Getting in the way" is one of four things: a rotation starts while another
execution or late activity is under way, an attempt is repeated while the first
goes on, a pool creation synchronizes the keys, or it saves a row that changed
between its read and its save. Each sets `disturbed` and clears `alone`; the next
rotation that starts with no other execution under way is `alone` again.

Faults: errors of the database, of GCP and of ONTAP, an ONTAP call whose answer
is lost, a failed write of `CurrentKmsKeyID`, a workflow that dies, an attempt
that times out, a lease that is lost while its owner works, a pool in ERROR.
Abstractions: the list of keys and their deletions in `Resync` are one step, and
attempts of a pool creation that outlive their retry are not modelled.

### TaskProcessor

`main`, `tasks`, `worker`, `results`, `allResults` are the caller, the two
channels and the workers; `tf` and `uf` the goroutines of tasks and units, which
nobody stops; `expired` and `unitExp` the contexts that are done; `outcomes` is
`IMTPContext.unitResults`. Where a goroutine and its waiter meet on a channel
(`TaskDone`, `UReceive`) the model has one step, and the goroutine whose waiter
has gone stays at its send. `applyDefaults` overwrites `Retries` with 0, so the
retry loop makes one attempt. A task function calls units one after the other
and may return after any of them, which is what
`_syncVSAClusterHealthTask` does; it may also hang in one.

## 3. The runs

| run | instance | shows |
|---|---|---|
| `sequence` | 2 callers, 2 attempts each, fairness | refinement of `SerialQueue`; `AcceptedRequestIsKept`: a request the caller was told is accepted is queued, started or lost with a run timeout only, never by the idle exit; `RunWaitsForItsChild`; every signal is acted upon; the run ends |
| `volume_safety` | 2 requests, all faults | `TimeoutSweepIsSafe`: a PROCESSING job is handled only when its workflow is dead for good; `DeleteDoneMeansGone`: no late write, undo, revert or other job brings a deleted volume back or reports a delete that did not happen; `SupervisorSparesWork`: termination never hits a workflow that claimed its job |
| `volume_owner` | 2 requests, all faults except `dbError` and `unassignedErr` | `TransitionalHasOwner`: whoever ends a job has settled the volume first. The two faults left out are exactly the ones that falsify it: an ignored write, and an error nobody sees |
| `volume_live` | 2 requests, `apiCrash`, `startError`, `runTimeout`, fairness | every job leaves NEW, every delete job ends, the volume leaves DELETING unless its delete was requested again |
| `cancel` | manual QoS, 2 delete calls that may overlap, all faults, fairness | `RollbackIsComplete`: a create workflow that stops by itself, at whatever step, leaves nothing but a VPG its row refers to; `DoneMeansDeleted`: neither a workflow that starts late nor an activity of a terminated one revives the volume; `VpgReferenceIsValid`: independent cleanups, each a look and a later deletion, never leave a dangling reference; `CreateJobEnds`, `DeleteJobEnds`: both jobs end for good, the create job unless a write of it failed or came late |
| `lock` | 2 clients, lease of 2 units, clocks off by 1, API errors, fairness | refinement of `LeaseLock`; `AcceptedWriteIsJustified`: what was true at the read is still true at the write the server accepts; `WaiterIsServed`: a dead holder or a lost release blocks nobody |
| `kms_rotation` | executions one after another, 1 pool that is created and deleted, 3 keys, all faults | `PasswordKeyIsLive`, `ActiveKeysLive`: no sequence of failed, dead and repeated rotations, with whatever their last activity writes later, leaves the row with a deleted key as password or as a key a later rotation would take, until somebody gets in a rotation's way; `AtMostOnePrimary`; `DeletesUnusedKeys`: when a rotation that moved the location to its key deletes keys, every READY pool has another one that exists, those created in the middle of the rotation included |
| `kms_overlap` | 2 executions or attempts at once, 1 pool, 3 keys, workflows that die, attempts that time out | `RotationRepairsRow`: whatever overlapping rotations and late activities have done to the row, the next rotation that creates its key and is left alone ends with that key, alive, as the location and the only primary; `DeletesUnusedKeys` after such an overlap |
| `tasks` | 2 tasks, 2 workers, 1 unit each, functions that hang, fairness | `OneResultPerTask`; `CleanResultMeansOver`: a result without error whose units succeeded leaves no goroutine behind; `NothingStartsAfterRun`; `Run` returns |
| `volume_sweep_race`, `cancel_leak`, `kms_dead_key` | the smallest that shows it | violated: findings 1 to 3 |

`sequence`, `volume_safety`, `cancel`, `lock`, `kms_rotation` and `tasks` also
check their module's `TypeOK`.

Bounds. `SequenceWorkflow` and `VolumeJobs` are bounded by the number of requests
and attempts only. Two callers let a signal arrive behind a child, behind an exit
and twice; two attempts give every branch of the retry loop. Two requests on a
volume give each pair of operations in each order and interleaving, with the
supervisor as a third actor. Two delete calls (`MaxDeletes`) overlap in every way,
with one job or two. `UndoFails` is the VPG and the row, the undo actions that
others depend on; a failed undo in ONTAP leaves one resource that
`RollbackIsComplete` then excepts, and changes nothing else. For the lock, two
clients are a holder and a waiter, and a lease of twice the skew gives clocks that
agree and clocks that disagree on its expiry. `MaxKey` bounds the keys GCP creates
and `MaxStarts` the executions and repeated attempts. Three keys (`MaxKey` = 2,
counted from 0) are the original one, that of a rotation that goes wrong, and that
of the next; four starts let two rotations fail and two more follow. In
`kms_overlap` two of three starts overlap and the third finds what they left;
finding 2 needs a fourth key and a second pool. The limits of keys are lowered to
3 and 2 so that they are met. Two workers with two tasks give a worker that idles,
one that waits and goroutines left by both. Beyond these, the theorems below hold
for every number.

Deadlock: the supervisor of `VolumeJobs` never stops, and deadlock is checked
there. The other systems may stop when all requests, clients, deletes or tasks
are served, or all keys of the bound are used, so their configurations do not
check it. `Jobs` are interchangeable (keys are given by `lastID`), so symmetry is
sound, and so are the `Rotations` of `kms_overlap`; it is not used with liveness.

Each property of a passing run is paired in `PROJECT.json` with a mutant, a
plausible mistake in a definition it depends on, for which TLC finds it violated.

Fairness. `SequenceWorkflow`: workers poll the task queue, so delivered signals,
timers and selector cases do not wait for ever, and every child has a run
timeout; nothing forces a caller to send or a run to time out. `VolumeJobs`: a
process that is alive keeps executing (a crash is an action of its own), Temporal
retries activities and starts what is queued, the supervisor is scheduled by cron
again and again; `volume_live` has no `handlerError`, because a job whose workflow
was terminated and whose handler then failed is never retried (section 5).
`KubernetesLock`: time passes, calls to the API server end,
Temporal executes the activities of open workflows; a holder may work for ever
and nobody must give up. `VolumeCancellation`: Temporal runs both workflows to
their end, with bounded timeouts and retries; no delete has to be requested and no
call has to go on. `CreateJobEnds` excepts a write of the create job that failed
or came late; `DeleteJobEnds` assumes that the API process lives to start the
workflow and that the delete workflow's writes of its own job succeed.
`TaskProcessor`: goroutines of the processor that can run do run, and the tasks'
timers fire; nothing at all is assumed of task and unit functions, which may hang.
`KmsRotation` has safety properties only.

## 4. The proofs

`tlapm M.tla` for each of the eight modules `*_proofs` checks all of it. The
assumptions are the named `ASSUME`s of the modules: `None` and its like outside
the sets, numbers that are natural (a positive number of attempts and length of
the lease), and for `TaskProcessor` a buffer that holds all tasks, which is how
the caller makes it.

**SequenceWorkflow**: `TypeCorrect`, `NoAcceptedRequestLost`, `RunWaits`, and
`Refinement` (`Spec => ImplementsSerialQueue`, for every set of requests). The
inductive invariant adds two facts to the properties. A caller waits only if it
has an attempt left, without which `attempt` could leave its range. And
`RunShape`: a closed run holds no signal, and a run that decided to exit has
received every signal it had seen. The latter is what `selector.HasPending()`
buys: without it `CompleteRun` would drop accepted requests, and would not map
to a stutter of `SerialQueue`. The refinement maps the queue to
`signals \o incoming`; each step is shown to be a step of `SerialQueue` or to
leave its variables alone.

**VolumeJobs**: `TypeCorrect`, `TimeoutSweep`, `DeleteDone`, `SparesWork`, for
every set of requests and of faults. The inductive invariant has, beside the
properties, `ApiShape` (nobody touches a job or a workflow before the API call
has inserted or sent it), `ClaimShape` (a workflow at work has claimed its job,
and no write makes a job NEW again: this, with the state check under the row
lock, is why a NEW sweep cannot kill it), `QueueShape` (a request is queued once
and not started: without it the control workflow could reopen one that timed
out, which `TimeoutSweepIsSafe` excludes), `SupShape` (the supervisor cleans up
jobs that have a row), `DoneShape` (`DeleteDoneMeansGone` extended to the DONE
that a workflow or a late activity is still to write) and `SnapShape` (the state
a delete would restore is not that of a missing row). There is one lemma per
action and, in it, one step per conjunct the action can disturb.

`VolumeJobsOwner_proofs` adds `TransitionalOwner`, under the hypothesis that
neither `dbError` nor `unassignedErr` is among the faults; with either the
property is false. That a job in progress exists is not inductive: the job may be
one that somebody is about to end. The invariant therefore asks for an owner that
is *unsettled*: no API call is undoing it, its workflow is not past the write of
the volume, no late activity is about to write its end, and the supervisor is not
past its handler. `NewShape` says that nobody writes a job before its
workflow is sent, `SentShape` that the supervisor visits and cleans up only jobs
whose API call is past that or has died, so that the volume is not made
transitional for a job that is being ended; `UpdateSnapShape` says that an update
never restores a transitional state. Each of the four enders then has a lemma that
it settles the volume first.

**KubernetesLock**: `TypeCorrect`, `JustifiedWrites`, `Refinement`
(`Spec => ImplementsLeaseLock`), for every set of clients, lease duration and
skew. `AcceptedWriteIsJustified` is inductive with the types: a write empties
`current`, ages only grow, and a clock that shows a lease as expired is off by at
most `Skew` (lemma `ExpiredMonotone`), so that an expiry seen at the read is one
at the write. The refinement maps the owner to the holder and validity to "no
clock shows it as expired".

**VolumeCancellation**: `TypeCorrect`, `DoneDeleted`, `ValidVpgReference`,
`CompleteRollback`, for every set of faults, number of deletes and with or
without manual QoS. The invariant adds `PcShape` (where the workflow is, by the
state of its execution, and that a return which skips the cleanup is recorded),
`DoneShape` (`DoneMeansDeleted` from the deletion of the row on, for each call),
`AssignShape` and `RollShape`. `AssignShape` says that before the assignment only
the create workflow knows the VPG, and that what the look at a VPG found is still
true at its deletion: no volume is assigned to it in between. `RollShape` says that
what exists has its undo registered, or is a VPG about to be deleted or one that
its undo left to the live row; and a cancellation finds the undo of the row above
that of the VPG. The last part is what the proof forced out: the VPG's undo spares
a VPG that is in use, so a rollback in another order would keep it.

**TaskProcessor**: `TypeCorrect`, `OneResult`, `CleanResult`, `NothingStarts`, for
every set of tasks and workers, number of units and capacity that fits. The
invariant follows the results from the channel to the list (`All`): a task is in
the channel, with one worker, or has one result (`TaskShape`, `ResultShape`), a
task with a result has its context done, which is why nothing is started after
`Run`, and the goroutine of a unit that succeeded is over (`UnitShape`,
`CleanShape`).

**KmsRotation**: all theorems hold for any number of rotations at once, of pools
and of keys, and for every set of faults. The invariant of `TypeCorrect` says of
each step which keys an earlier one has chosen (`ExecShape`).

- `PasswordKey`, `ActiveKeys`, `OnePrimary`. The invariant `Undisturbed` is the
  types and, until somebody gets in a rotation's way, `KeyInv`, which has four
  parts. `Single`: one execution or late activity at a time. `RowShape`, the row
  between two saves: the password location is an active key as soon as there are
  keys, active keys exist in GCP, one key is primary, a key's data is its own,
  keys are numbered as GCP creates them, which makes a created key new to the
  row. `RotShape`, what an execution knows of the row: its copy is the row, the
  key it replaces is the password location until it moves that, its new key is
  another one, which exists and is active from its insertion on; at the step that
  marks the old key the location has moved; the keys to delete are neither primary
  nor active. Where an update fails, or a rotation ends, the row is as the last
  save left it, which is why repeating is harmless. A late activity keeps
  `RotShape`, and a rotation that starts beside it disturbs it.
- `Repairs` (`RotationRepairsRow`) and `DeletesUnused`, in
  `KmsRotationPools_proofs`. Here nothing is assumed of what went before: rotations
  may have overlapped in any way and left any row. The invariant `AloneInv` has a
  part that no overlap can break, `MadeKeys`: nobody, not a row, a copy, a pool or
  an execution, knows a key that GCP has not created yet. So a rotation that is
  alone and creates a key has one that nobody can write, and `AloneShape` follows
  it. `RowPart`: its copy is the row. `StorePart`: the key is in nobody's way until
  it is stored. `KeyPart`: from then on it is the password location, active, alive,
  and the only primary once the rotation completes. `PoolPart`: the pools that
  remember it have it, and from the batch on a pool being created reads or has it,
  while a READY pool has it, is still to be migrated, or its migration has failed,
  and then the rotation does not complete. That no pool the batch lists is being
  created had to be added: otherwise restoring the old key of a pool could undo
  what its creation had configured.

Only model-checked: the liveness properties of `volume_live`, `sequence`,
`cancel`, `lock` and `tasks`, which need fairness and are outside the prover's
reach. Every invariant and every action property of a passing run is a theorem.

## 5. Findings

Each is the counterexample of one violation run; `PROJECT.json` quotes the line
it contradicts.

1. `volume_sweep_race`: a job that waits in the queue beyond the grace period is
   swept while its workflow starts; the row lock does not cover the handler.
2. `kms_dead_key`: without any fault, two rotations end because a pool is being
   created, and have moved the password location to K1 and to K2. A third goes
   back to K1, which `StoreNewKeyInDBActivity` finds in the row, so that the
   location stays K2. A pool created after its batch gets K2 and becomes READY;
   the rotation completes with K1 and deletes K2. `DeletesUnusedKeys` is what
   remains true: of rotations that moved the location to their key.
3. `cancel_leak`: without any fault, a delete whose API call read the row before
   the create workflow had stored the `ExternalUUID`, and whose signal comes after
   its last check, deletes the row and leaves the volume in ONTAP.

Met while modelling, without a run of its own:

- control workflow: after a run timeout a new run starts its child before the
  server has terminated the old run's.
- supervisor: any error of describe, not only NotFound, starts the cleanup of a
  NEW job; if that cleanup's handler then fails, later scans see a TERMINATED
  workflow and never retry.
- delete: requested again while DELETING, it stores DELETING as the previous
  state, which a sweep "reverts" to; the lookup of an existing delete job sees the
  oldest one only. An error returned without assigning `err`
  (`volume_delete_workflow.go:355`, `volume_update_workflow.go:694` and `710`) is
  invisible to the deferred function, and the volume stays DELETING or UPDATING.
  The VPG cleanup that `volume_delete_workflow.go:389` calls best effort fails the
  job, because its error stays in `err`.
- cancellation: a denied delete restores CREATING on a volume that has become
  READY meanwhile; a row can be READY while its delete is in progress; the create
  job can go from DONE to ERROR, and from ERROR back to PROCESSING by a late write
  of the terminated workflow; two delete calls at once get a job and a workflow
  each, and a newer unfinished delete job is overlooked when the oldest has ended;
  three returns of the create workflow (lines 884, 895, 1296) leave `err` nil and
  skip the cleanup; what a step created is leaked when its answer is lost, since
  most undo actions are registered afterwards.
- key rotation: two rotations of one configuration at the same time (the
  background workflow and a customer's request are not kept apart), or a rotation
  beside an activity left by a dead one, overwrite each other's saves: the location
  and active keys can name deleted keys and two keys can be primary, even without
  faults, which is why `PasswordKeyIsLive`, `ActiveKeysLive` and
  `AtMostOnePrimary` are stated until somebody gets in the way. `RotationRepairsRow`
  is what remains true after it. The save of a pool creation has the same effect.
- key rotation and pool creation: "Re-sync is needed when" the key "no longer exists
  in GCP" (`kms_common_activities.go:184`), but any error of the listing has the
  same effect; and a creation that read the old location and looks for its key just
  after a rotation has deleted it deletes every key of the account, those of the
  other pools' SVMs included.
- key rotation: a rotation that goes back to an earlier key also skips a pool
  whose `CurrentKmsKeyID` is stale because the answer of the ONTAP call that
  changed its key was lost, and deletes the key that pool has. A write of the
  password location that fails is not made up for by the retry, so that a pool
  created meanwhile gets the key that is deleted. More than two keys can be
  active, against the comment at `rotate_kms_key_child_workflow.go:190`. A key
  that is reused does not become the password location before the rotation
  completes. A retry of the completion after the primary key was set does not mark
  the old one. A retried creation leaks the key of the first attempt.
- lock: a release that meets a renewal in flight fails and leaves the lease to
  expire.
- tasks: a task is not "forcefully terminated within 30 seconds"
  (`SyncVSAClusterHealthTask.go:121`): the worker gives up on it and its goroutines
  go on, some blocked for ever on `done`. `applyDefaults` overwrites the retries
  and the timeout the caller asked for. `Add` blocks for ever beyond the buffer,
  because nobody receives before `Run`.

## 6. What is not modelled

Of the modelled components: FlexCache volumes, restores, reverts and splits; a
delete whose pool cannot be loaded; errors in the configuration of a workflow
before its deferred function is installed; a describe answer without execution
info, which the supervisor skips like a running workflow; grace periods that
differ by job type. The pool workflows use cancellation and rollback too, with
other steps and with child workflows as undo actions (`AddWorkflow`). The
cancellation of a creation and the supervisor's sweep of its job are in different
modules and not composed. Of the key rotation, the parent workflow that fans out
over configurations, the metrics, and the writers of the row outside rotation and
pool creation: creation and migration of a KMS configuration
(`kms_config_create_workflow.go:213`, `233`, `kms_config_migrate_workflow.go:482`)
and the disabling of its service account by its deletion
(`kms_config_delete_workflow.go:167`); of the cluster health task, what its units
compare and decide.

Whole components: those with status `not_modelled` in `PROJECT.json`, with the
reason. Proxies, clients and providers are calls to external systems; tables of
machine types, metrics pipelines and validations are data without protocol.

## 7. Plan

Done: `SerialQueue`, `SequenceWorkflow`, `VolumeJobs`, `VolumeCancellation`,
`LeaseLock`, `KubernetesLock`, `KmsRotation`, `TaskProcessor`, their runs, and the
proofs of section 4.

Next, in this order:

1. `OrphanJobs`: WAIT_FOR_TEMPORAL jobs, retry count, start before or after the
   write of the job.
2. Cluster health: the decision between memory and disk (`determineJSwapAction`)
   and the change of a pool's state, on top of `TaskProcessor`.
3. Pure operators against reference definitions: QoS validation, VMRS decision.
4. Pools: cancellation with `AddWorkflow`, on the frame of `VolumeCancellation`.
5. Replication (two regions) and harvest poller groups (upload, verify, commit,
   roll back).

Theorems to add: those of the modules above; for `VolumeJobs`, that a job which
ended stays ended unless a late write reopens it.
