----------------------------- MODULE KmsRotation -----------------------------
(***************************************************************************)
(* Rotation of the service account key of one KMS configuration.           *)
(*                                                                         *)
(*   RotateKmsKeyChildWorkflow   rotate_kms_key_child_workflow.go          *)
(*   its activities              rotate_kms_key_activities.go              *)
(*   service account row         database/vcp/service_account.go and       *)
(*                               database/datamodel/kms_models.go          *)
(*   pool creation               _verifyKmsConfigReachability and          *)
(*                               _configureKmsConfigForSvmActivity         *)
(*                                                                         *)
(* Rotations and pool creations share the service account's row, the keys  *)
(* in GCP and the key each SVM has in ONTAP.  The lock of module LeaseLock *)
(* covers the creation of a key and its insertion in the row, and the      *)
(* configuration of a new pool's SVM; nothing else.  A function of         *)
(* service_account.go reads the row and saves all of it, in two            *)
(* statements and no transaction: here two steps.                          *)
(*                                                                         *)
(* A member of Rotations is a place for executions of the child workflow,  *)
(* one after the other: the background workflow and the customer's request *)
(* both start it, and nothing keeps them apart.  An activity in execution  *)
(* goes on when its workflow is closed, and when its attempt has timed out *)
(* and is repeated.  Keys are numbered in the order GCP creates them; a    *)
(* key's data is known by its number too.                                  *)
(***************************************************************************)
EXTENDS LeaseLock, Naturals, FiniteSets, FiniteSetsExt

CONSTANTS Rotations,            \* executions that may overlap
          Pools,                \* pools of the KMS configuration
          Fresh,                \* the pools that do not exist initially
          MaxKey,               \* bound: keys GCP creates
          MaxStarts,            \* bound: executions and repeated attempts
          maxTotalKeysBeforeRotation,
          maxPendingDeletionKeysAllowed,
          Faults                \* what may go wrong

AllFaults == {"dbError", "crash", "timeout", "leaseLost", "trackError",
              "poolError", "ontapError", "ontapLost", "gcpError"}

ASSUME KmsAssumption == /\ Clients = Rotations \cup Pools
                        /\ Rotations \cap Pools = {}
                        /\ Fresh \subseteq Pools
                        /\ MaxKey \in Nat
                        /\ MaxStarts \in Nat
                        /\ maxTotalKeysBeforeRotation \in Nat
                        /\ maxPendingDeletionKeysAllowed \in Nat
                        /\ Faults \subseteq AllFaults

VARIABLES sa,       \* the service account's row
          gcp,      \* keys that exist in GCP
          created,  \* the last key GCP created
          rot,      \* the execution of each rotation
          fate,     \* whether its workflow goes on, see Crash
          pool,     \* state of each pool, CREATING by the step it has reached
          ontap,    \* the key each pool's SVM has in ONTAP
          tracked,  \* Svm.CurrentKmsKeyID
          seen,     \* the key a pool creation read from the row, or created
          copy,     \* the row a pool creation is about to save, or None
          starts,   \* how many there have been
          alone,    \* history: the last rotation, if nobody was in its way
          disturbed \* history: somebody was in a rotation's way

poolVars == <<pool, ontap, tracked, seen, copy>>
history  == <<starts, alone, disturbed>>
vars     == <<lockVars, sa, gcp, created, rot, fate, poolVars, history>>

Keys  == 0 .. MaxKey
NoKey == MaxKey + 1
AnyKey == 0 .. NoKey

\* pw: the key in ServiceAccountPasswordLocation; rec: the keys in the Keys
\* array, data the key their KeyData holds; prim and act: those with IsPrimary
\* and IsActive set.
Rows == [pw : Keys, rec : SUBSET Keys, prim : SUBSET Keys, act : SUBSET Keys,
         data : [Keys -> Keys]]
Row0 == [pw |-> 0, rec |-> {}, prim |-> {}, act |-> {},
         data |-> [k \in Keys |-> k]]

\* Steps that read the row and save it.
Updates == {"addOld", "addNew", "setPassword", "setPrimary", "mark", "remove"}
Held    == {"create", "store", "addOld", "addNew", "setPassword", "unlock",
            "unlockEnd"}
PCs     == Updates \cup Held \cup {"idle", "acquire", "batch", "migrate",
            "verify", "complete", "list", "delete"}

Executions ==
  [pc     : PCs,
   read   : BOOLEAN,        \* row holds the copy about to be changed
   row    : Rows,
   cur    : AnyKey,         \* currentKeyID, and the key in oldKeyData
   old    : AnyKey,         \* password location read by StoreNewKeyInDB
   new    : AnyKey,         \* newKeyID
   data   : AnyKey,         \* the key in newKeyData
   moved  : BOOLEAN,        \* history: StoreNewKeyInDB moved the location to it
   todo   : SUBSET Pools,   \* pools not yet migrated
   at     : Pools \cup {None},  \* the pool whose key is being verified
   failed : BOOLEAN,        \* failedMigrations > 0
   dels   : SUBSET Keys]    \* keysToDelete not yet deleted

Idle == [pc |-> "idle", read |-> FALSE, row |-> Row0, cur |-> NoKey,
         old |-> NoKey, new |-> NoKey, data |-> NoKey, moved |-> FALSE,
         todo |-> {}, at |-> None, failed |-> FALSE, dels |-> {}]

\* DELETING also stands for ERROR without volumes: rotations skip both.
Creating   == {"verify", "present", "resync", "recreate", "keyRead", "keySave",
               "stateRead", "stateSave", "reach", "start", "read", "configure",
               "unlock", "unlockFail", "check"}
PoolStates == Creating \cup {"none", "READY", "ERROR", "DELETING"}

TypeOK == /\ LockTypeOK
          /\ sa \in Rows
          /\ gcp \subseteq Keys
          /\ created \in Keys
          /\ rot \in [Rotations -> Executions]
          /\ fate \in [Rotations -> {"running", "late", "over"}]
          /\ pool \in [Pools -> PoolStates]
          /\ ontap \in [Pools -> AnyKey]
          /\ tracked \in [Pools -> AnyKey]
          /\ seen \in [Pools -> AnyKey]
          /\ copy \in [Pools -> Rows \cup {None}]
          /\ starts \in 0 .. MaxStarts
          /\ alone \in Rotations \cup {None}
          /\ disturbed \in BOOLEAN

\* The row of a service account that was never rotated has an empty array.
Init == /\ LockInit
        /\ sa = Row0
        /\ gcp = {0}
        /\ created = 0
        /\ rot = [r \in Rotations |-> Idle]
        /\ fate = [r \in Rotations |-> "running"]
        /\ pool = [p \in Pools |-> IF p \in Fresh THEN "none" ELSE "READY"]
        /\ ontap = [p \in Pools |-> IF p \in Fresh THEN NoKey ELSE 0]
        /\ tracked = [p \in Pools |-> NoKey]
        /\ seen = [p \in Pools |-> NoKey]
        /\ copy = [p \in Pools |-> None]
        /\ starts = 0
        /\ alone = None
        /\ disturbed = FALSE

At(r, l)   == rot[r].pc = l
Goto(r, l) == rot' = [rot EXCEPT ![r].pc = l]
\* The child workflow returns, with or without an error.
End(r)     == rot' = [rot EXCEPT ![r] = Idle]

\* (mutant of Marked) IsActive is not looked at.
MarkedNotPrimary == sa.rec \ sa.prim

\* GetKeysMarkedForDeletion
Marked == sa.rec \ (sa.prim \cup sa.act)

\* The lock is granted and stays valid unless the holder stops renewing it.
Obtain(c) == Acquire(c) /\ (valid' \/ "leaseLost" \in Faults)

\* Unlock; without effect when another client took the lock over.
Give(c) == IF owner = c THEN Release(c) ELSE UNCHANGED lockVars

-----------------------------------------------------------------------------
(* Phases 1 to 3: validate, create a key, store it.                        *)

\* ValidateKeyRotationRequiredActivity, of a configuration that is READY or
\* IN_USE.  The rotation is alone if no other execution is under way.
Validate(r) ==
  /\ rot[r] = Idle
  /\ starts < MaxStarts
  /\ starts' = starts + 1
  /\ rot' = [rot EXCEPT ![r].pc = "acquire", ![r].cur = sa.pw]
  /\ alone' = IF \A s \in Rotations \ {r} : rot[s] = Idle THEN r ELSE None
  /\ disturbed' = (disturbed \/ alone' = None)
  /\ UNCHANGED <<lockVars, sa, gcp, created, poolVars>>

\* WithKmsRotationLock; acquiring the lock may fail.
LockRotation(r) ==
  /\ At(r, "acquire")
  /\ \/ Obtain(r) /\ Goto(r, "create")
     \/ UNCHANGED lockVars /\ End(r)
  /\ UNCHANGED <<sa, gcp, created, poolVars>>

\* "If we find a non-primary active key, that's our new key"
NewKeys(r) == sa.act \ (sa.prim \cup {rot[r].cur})

AtKeyLimit == \/ Cardinality(Marked) >= maxPendingDeletionKeysAllowed
              \/ Cardinality(sa.rec) >= maxTotalKeysBeforeRotation

\* CreateServiceAccountKeyActivity finds a key of an earlier rotation (the
\* first in the array, here any) ...
ReuseKey(r) ==
  /\ At(r, "create")
  /\ \E k \in NewKeys(r) :
       rot' = [rot EXCEPT ![r].pc = "store", ![r].new = k,
                          ![r].data = sa.data[k]]
  /\ UNCHANGED <<lockVars, sa, gcp, created, poolVars>>

\* ... or refuses to create another one ...
RefuseKey(r) ==
  /\ At(r, "create")
  /\ NewKeys(r) = {}
  /\ AtKeyLimit
  /\ Goto(r, "unlockEnd")
  /\ UNCHANGED <<lockVars, sa, gcp, created, poolVars>>

\* ... or creates it.  When a later call of the activity fails, the key stays
\* in GCP, and the activity is tried again or its error ends the rotation.
CreateKey(r) ==
  /\ At(r, "create")
  /\ NewKeys(r) = {}
  /\ ~AtKeyLimit
  /\ created < MaxKey
  /\ created' = created + 1
  /\ gcp' = gcp \cup {created'}
  /\ \/ rot' = [rot EXCEPT ![r].pc = "store", ![r].new = created',
                           ![r].data = created']
     \/ /\ "gcpError" \in Faults
        /\ \E l \in {"create", "unlockEnd"} : Goto(r, l)
  /\ UNCHANGED <<lockVars, sa, poolVars>>

\* StoreNewKeyInDBActivity, up to its first write.
StoreNewKey(r) ==
  /\ At(r, "store")
  /\ rot' = [rot EXCEPT ![r].old = sa.pw,
       ![r].pc = IF rot[r].new \in sa.rec THEN "unlock"
                 ELSE IF rot[r].cur \in sa.rec THEN "addNew" ELSE "addOld"]
  /\ UNCHANGED <<lockVars, sa, gcp, created, poolVars>>

\* The release function, called or deferred.
UnlockRotation(r) ==
  /\ \/ At(r, "unlock") /\ Goto(r, "batch")
     \/ At(r, "unlockEnd") /\ End(r)
  /\ Give(r)
  /\ UNCHANGED <<sa, gcp, created, poolVars>>

-----------------------------------------------------------------------------
(* The functions of service_account.go.                                    *)

ReadRow(r) ==
  /\ rot[r].pc \in Updates
  /\ ~rot[r].read
  /\ rot' = [rot EXCEPT ![r].read = TRUE, ![r].row = sa]
  /\ UNCHANGED <<lockVars, sa, gcp, created, poolVars>>

\* AddKey
WithKey(s, k, d, p) == [s EXCEPT !.rec = @ \cup {k}, !.act = @ \cup {k},
                                 !.prim = IF p THEN @ \cup {k} ELSE @,
                                 !.data[k] = d]

\* (mutants of WithPrimary) The password location is not moved; the old primary
\* key keeps its flag; the location gets no key.
WithPrimaryOnly(s, k) == [s EXCEPT !.prim = {k}]
WithPrimaryAdded(s, k) == [s EXCEPT !.prim = @ \cup {k}, !.pw = s.data[k]]
WithPrimaryNoData(s, k) == [s EXCEPT !.prim = {k}, !.pw = NoKey]

\* SetPrimaryKeyForServiceAccount
WithPrimary(s, k) == [s EXCEPT !.prim = {k}, !.pw = s.data[k]]

\* MarkKeyForDeletion
WithMark(s, k) == [s EXCEPT !.prim = @ \ {k}, !.act = @ \ {k}]

\* RemoveKeyFromServiceAccount
WithoutKey(s, k) == [s EXCEPT !.rec = @ \ {k}, !.prim = @ \ {k},
                              !.act = @ \ {k}]

\* What a function makes of the copy it has read.
Saved(x) ==
  CASE x.pc = "addOld"      -> WithKey(x.row, x.cur, x.old, TRUE)
    [] x.pc = "addNew"      -> WithKey(x.row, x.new, x.data, FALSE)
    [] x.pc = "setPassword" -> [x.row EXCEPT !.pw = x.data]
    [] x.pc = "setPrimary"  -> WithPrimary(x.row, x.new)
    [] x.pc = "mark"        -> WithMark(x.row, x.cur)
    [] x.pc = "remove"      -> WithoutKey(x.row, Min(x.dels))

\* "key not found"
KeyNotFound(x) == \/ x.pc = "setPrimary" /\ x.new \notin x.row.rec
                  \/ x.pc = "mark" /\ x.cur \notin x.row.rec
                  \/ x.pc = "remove" /\ Min(x.dels) \notin x.row.rec

\* The activity goes on with its next write, or the workflow with its next
\* activity.
Continued(x) ==
  [x EXCEPT !.read = FALSE, !.row = Row0,
            !.moved = @ \/ x.pc = "setPassword",
            !.dels = IF x.pc = "remove" THEN @ \ {Min(@)} ELSE @,
            !.pc = CASE @ = "addOld"      -> "addNew"
                     [] @ = "addNew"      -> "setPassword"
                     [] @ = "setPassword" -> "unlock"
                     [] @ = "setPrimary"  -> "mark"
                     [] @ = "mark"        -> "list"
                     [] @ = "remove"      -> "delete"]

SaveRow(r) ==
  /\ rot[r].pc \in Updates
  /\ rot[r].read
  /\ ~KeyNotFound(rot[r])
  /\ sa' = Saved(rot[r])
  /\ rot' = [rot EXCEPT ![r] = Continued(@)]
  /\ UNCHANGED <<lockVars, gcp, created, poolVars>>

\* The read or the write fails, or the key is not there.  Marking and
\* removing a key are "non-fatal"; the other errors fail the activity, which
\* is tried again from its start or fails the rotation.  An activity whose
\* worker died between two writes is tried again too.
FailUpdate(r) ==
  LET x == rot[r]
      again(l) == rot' = [rot EXCEPT ![r].pc = l, ![r].read = FALSE,
                                     ![r].row = Row0]
  IN /\ x.pc \in Updates
     /\ x.read
     /\ "dbError" \in Faults \/ KeyNotFound(x)
     /\ \/ /\ x.pc \in {"addOld", "addNew", "setPassword"}
           /\ again("store") \/ again("unlockEnd")
        \/ x.pc = "setPrimary" /\ (again("complete") \/ End(r))
        \/ x.pc = "mark" /\ again("complete")
        \/ x.pc \in {"mark", "remove"} /\ rot' = [rot EXCEPT ![r] = Continued(@)]
     /\ UNCHANGED <<lockVars, sa, gcp, created, poolVars>>

-----------------------------------------------------------------------------
(* Phases 4 to 6: migrate the pools, complete the rotation.                *)

\* (mutant of Batch) Pools in CREATING are skipped.
BatchSkipsCreating(r) ==
  /\ At(r, "batch")
  /\ rot' = [rot EXCEPT ![r].pc = "migrate",
               ![r].todo = {p \in Pools : pool[p] \in {"READY", "ERROR"}}]
  /\ UNCHANGED <<lockVars, sa, gcp, created, poolVars>>

\* BatchPoolsForKeyRotationActivity; a pool in CREATING fails the rotation.
Batch(r) ==
  /\ At(r, "batch")
  /\ IF \E p \in Pools : pool[p] \in Creating
     THEN End(r)
     ELSE rot' = [rot EXCEPT ![r].pc = "migrate",
                    ![r].todo = {p \in Pools : pool[p] \in {"READY", "ERROR"}}]
  /\ UNCHANGED <<lockVars, sa, gcp, created, poolVars>>

\* MigratePoolToNewKeyActivity, when it has nothing to do
SkipPool(r, p) ==
  /\ At(r, "migrate")
  /\ p \in rot[r].todo
  /\ pool[p] \in {"ERROR", "DELETING"} \/ tracked[p] = rot[r].new
  /\ rot' = [rot EXCEPT ![r].todo = @ \ {p}]
  /\ UNCHANGED <<lockVars, sa, gcp, created, poolVars>>

\* ModifyGcpKms; a call that fails may have had its effect.
ModifyKms(r, p) ==
  /\ At(r, "migrate")
  /\ p \in rot[r].todo
  /\ pool[p] \notin {"ERROR", "DELETING"}
  /\ tracked[p] # rot[r].new
  /\ \/ /\ ontap' = [ontap EXCEPT ![p] = rot[r].data]
        /\ rot' = [rot EXCEPT ![r].pc = "verify", ![r].at = p]
     \/ /\ \/ "ontapError" \in Faults /\ UNCHANGED ontap
           \/ /\ "ontapLost" \in Faults
              /\ ontap' = [ontap EXCEPT ![p] = rot[r].data]
        /\ rot' = [rot EXCEPT ![r].todo = @ \ {p}, ![r].failed = TRUE]
  /\ UNCHANGED <<lockVars, sa, gcp, created, pool, tracked, seen, copy>>

\* IsGcpKmsReachable succeeds and the SVM's row is updated, or not ("just
\* tracking failed") ...
Reachable(r) ==
  LET p == rot[r].at
  IN /\ At(r, "verify")
     /\ ontap[p] \in gcp
     /\ \/ tracked' = [tracked EXCEPT ![p] = rot[r].new]
        \/ "trackError" \in Faults /\ UNCHANGED tracked
     /\ rot' = [rot EXCEPT ![r].pc = "migrate", ![r].at = None,
                           ![r].todo = @ \ {p}]
     /\ UNCHANGED <<lockVars, sa, gcp, created, pool, ontap, seen, copy>>

\* ... or it fails and the old key is restored, or not.
Unreachable(r) ==
  LET p == rot[r].at
  IN /\ At(r, "verify")
     /\ ontap[p] \notin gcp \/ "ontapError" \in Faults
     /\ \/ ontap' = [ontap EXCEPT ![p] = rot[r].cur]
        \/ "ontapLost" \in Faults /\ UNCHANGED ontap
     /\ rot' = [rot EXCEPT ![r].pc = "migrate", ![r].at = None,
                           ![r].todo = @ \ {p}, ![r].failed = TRUE]
     /\ UNCHANGED <<lockVars, sa, gcp, created, pool, tracked, seen, copy>>

\* (mutant of MigrationsDone) The workflow does not wait for the migrations.
MigrationsNotAwaited(r) ==
  /\ At(r, "migrate")
  /\ fate[r] = "running"
  /\ IF rot[r].failed THEN End(r) ELSE Goto(r, "complete")
  /\ UNCHANGED <<lockVars, sa, gcp, created, poolVars>>

\* "Phase 6: Complete rotation only if all pools migrated successfully"
MigrationsDone(r) ==
  /\ At(r, "migrate")
  /\ fate[r] = "running"
  /\ rot[r].todo = {}
  /\ IF rot[r].failed THEN End(r) ELSE Goto(r, "complete")
  /\ UNCHANGED <<lockVars, sa, gcp, created, poolVars>>

\* CompleteKeyRotationActivity, up to its first write
Complete(r) ==
  /\ At(r, "complete")
  /\ \/ rot[r].new \notin sa.rec /\ End(r)
     \/ rot[r].new \in sa.prim /\ Goto(r, "list")
     \/ rot[r].new \in sa.rec \ sa.prim /\ Goto(r, "setPrimary")
  /\ UNCHANGED <<lockVars, sa, gcp, created, poolVars>>

\* DeleteOldSAKeyFromGCPActivity: the keys to delete ...
ListMarked(r) ==
  /\ At(r, "list")
  /\ rot' = [rot EXCEPT ![r].pc = "delete", ![r].dels = Marked]
  /\ UNCHANGED <<lockVars, sa, gcp, created, poolVars>>

\* ... are deleted in GCP one by one, each removed from the row before the
\* next; an error ends the activity, which is tried again or given up.
DeleteKey(r) ==
  /\ At(r, "delete")
  /\ IF rot[r].dels = {}
     THEN End(r) /\ UNCHANGED gcp
     ELSE \/ gcp' = gcp \ {Min(rot[r].dels)} /\ Goto(r, "remove")
          \/ /\ "gcpError" \in Faults
             /\ rot' = [rot EXCEPT ![r].pc = "list", ![r].dels = {}] \/ End(r)
             /\ UNCHANGED gcp
  /\ UNCHANGED <<lockVars, sa, created, poolVars>>

-----------------------------------------------------------------------------
(* Pools                                                                   *)

PoolStep(p, s) == pool' = [pool EXCEPT ![p] = s]

\* Somebody gets in the way of the rotations.
Disturb == alone' = None /\ disturbed' = TRUE

\* The API call inserts the pool.
CreatePool(p) == /\ pool[p] = "none"
                 /\ PoolStep(p, "verify")
                 /\ UNCHANGED <<lockVars, sa, gcp, created, ontap, tracked, seen,
                                copy, history>>

\* CreateVSAKmsConfigSAKeyActivity reads the row and looks for the key of the
\* password location in GCP (VALIDATE_SA_KEY_IN_GCP, on by default); a key that is
\* not found, or an error, makes it synchronize the keys.
VerifyKey(p) ==
  /\ pool[p] = "verify"
  /\ seen' = [seen EXCEPT ![p] = sa.pw]
  /\ PoolStep(p, "present")
  /\ UNCHANGED <<lockVars, sa, gcp, created, ontap, tracked, copy, history>>

CheckPresent(p) ==
  /\ pool[p] = "present"
  /\ \/ seen[p] \in gcp /\ PoolStep(p, "stateRead")
     \/ /\ seen[p] \notin gcp \/ "gcpError" \in Faults
        /\ PoolStep(p, "resync")
  /\ seen' = [seen EXCEPT ![p] = NoKey]
  /\ UNCHANGED <<lockVars, sa, gcp, created, ontap, tracked, copy, history>>

\* synchronizeServiceAccountKeys deletes every key (the list of them and the
\* deletions are one step; an error leaves some) ...
Resync(p) ==
  /\ pool[p] = "resync"
  /\ \/ gcp' = {} /\ PoolStep(p, "recreate")
     \/ /\ "gcpError" \in Faults
        /\ gcp' \in SUBSET gcp
        /\ \E s \in {"verify", "DELETING"} : PoolStep(p, s)
  /\ Disturb
  /\ UNCHANGED <<lockVars, sa, created, ontap, tracked, seen, copy, starts>>

\* ... and creates one.
Recreate(p) ==
  /\ pool[p] = "recreate"
  /\ \/ /\ created < MaxKey
        /\ created' = created + 1
        /\ gcp' = gcp \cup {created'}
        /\ seen' = [seen EXCEPT ![p] = created']
        /\ PoolStep(p, "keyRead")
     \/ /\ "gcpError" \in Faults
        /\ \E s \in {"verify", "DELETING"} : PoolStep(p, s)
        /\ UNCHANGED <<gcp, created, seen>>
  /\ UNCHANGED <<lockVars, sa, ontap, tracked, copy, history>>

\* UpdateServiceAccountEmailAndKey after that, and UpdateServiceAccountState in
\* any case, read the row ...
CopyRow(p) ==
  /\ \/ /\ pool[p] = "keyRead"
        /\ copy' = [copy EXCEPT ![p] = [sa EXCEPT !.pw = seen[p]]]
        /\ PoolStep(p, "keySave")
     \/ /\ pool[p] = "stateRead"
        /\ copy' = [copy EXCEPT ![p] = sa]
        /\ PoolStep(p, "stateSave")
  /\ seen' = [seen EXCEPT ![p] = NoKey]
  /\ UNCHANGED <<lockVars, sa, gcp, created, ontap, tracked, history>>

\* ... and save it.  gorm's Updates leaves out what is zero: an array that is
\* nil, as before the first rotation, but not one that is empty.
SaveCopy(p) ==
  /\ copy[p] # None
  /\ \/ sa' = copy[p]
     \/ copy[p].rec = {} /\ sa' = [sa EXCEPT !.pw = copy[p].pw]
  /\ copy' = [copy EXCEPT ![p] = None]
  /\ pool' = [pool EXCEPT ![p] = CASE @ = "keySave"   -> "stateRead"
                                    [] @ = "stateSave" -> "reach"
                                    [] OTHER           -> @]
  /\ IF sa' = sa THEN UNCHANGED <<alone, disturbed>> ELSE Disturb
  /\ UNCHANGED <<lockVars, gcp, created, ontap, tracked, seen, starts>>

\* An update fails, and the activity is tried again or the creation fails; or
\* the workflow is closed and the update comes later.
FailCopy(p) ==
  /\ pool[p] \in {"keySave", "stateSave"}
  /\ \/ /\ "dbError" \in Faults
        /\ \E s \in {"verify", "DELETING"} : PoolStep(p, s)
        /\ copy' = [copy EXCEPT ![p] = None]
     \/ /\ "crash" \in Faults
        /\ PoolStep(p, "DELETING")
        /\ UNCHANGED copy
  /\ UNCHANGED <<lockVars, sa, gcp, created, ontap, tracked, seen, history>>

\* VerifyVsaKmsReachabilityActivity
VerifyReachability(p) ==
  /\ pool[p] = "reach"
  /\ \/ sa.pw \in gcp /\ PoolStep(p, "start")
     \/ PoolStep(p, "DELETING")
  /\ UNCHANGED <<lockVars, sa, gcp, created, ontap, tracked, seen, copy, history>>

\* _configureKmsConfigForSvmActivity gets the lock or fails.
LockPool(p) ==
  /\ pool[p] = "start"
  /\ \/ Obtain(p) /\ PoolStep(p, "read")
     \/ UNCHANGED lockVars /\ PoolStep(p, "DELETING")
  /\ UNCHANGED <<sa, gcp, created, ontap, tracked, seen, copy, history>>

\* ConfigureKmsForSvmActivity reads the key, then configures it in ONTAP.
ReadPassword(p) ==
  /\ pool[p] = "read"
  /\ seen' = [seen EXCEPT ![p] = sa.pw]
  /\ PoolStep(p, "configure")
  /\ UNCHANGED <<lockVars, sa, gcp, created, ontap, tracked, copy, history>>

ConfigureKms(p) ==
  /\ pool[p] = "configure"
  /\ \/ ontap' = [ontap EXCEPT ![p] = seen[p]] /\ PoolStep(p, "unlock")
     \/ /\ "ontapError" \in Faults
        /\ \E s \in {"read", "unlockFail"} : PoolStep(p, s)
        /\ UNCHANGED ontap
  /\ seen' = [seen EXCEPT ![p] = NoKey]
  /\ UNCHANGED <<lockVars, sa, gcp, created, tracked, copy, history>>

UnlockPool(p) ==
  /\ \/ pool[p] = "unlock" /\ PoolStep(p, "check")
     \/ pool[p] = "unlockFail" /\ PoolStep(p, "DELETING")
  /\ Give(p)
  /\ UNCHANGED <<sa, gcp, created, ontap, tracked, seen, copy, history>>

\* CheckVsaKmsConfigReachableActivity, and the rest of the pool's creation
CheckReachable(p) ==
  /\ pool[p] = "check"
  /\ \/ ontap[p] \in gcp /\ PoolStep(p, "READY")
     \/ PoolStep(p, "DELETING")
  /\ UNCHANGED <<lockVars, sa, gcp, created, ontap, tracked, seen, copy, history>>

\* A later operation on the pool fails.
PoolFails(p) ==
  /\ "poolError" \in Faults
  /\ pool[p] = "READY"
  /\ PoolStep(p, "ERROR")
  /\ UNCHANGED <<lockVars, sa, gcp, created, ontap, tracked, seen, copy, history>>

DeletePool(p) ==
  /\ pool[p] \in {"READY", "ERROR"}
  /\ PoolStep(p, "DELETING")
  /\ UNCHANGED <<lockVars, sa, gcp, created, ontap, tracked, seen, copy, history>>

-----------------------------------------------------------------------------
(* Failures                                                                *)

\* The workflow times out or is terminated; nobody releases the lock it holds.
\* The activity in execution goes on ...
Crash(r) ==
  /\ "crash" \in Faults
  /\ ~At(r, "idle")
  /\ fate[r] = "running"
  /\ fate' = [fate EXCEPT ![r] = "late"]
  /\ UNCHANGED <<lockVars, sa, gcp, created, rot, poolVars, history>>

\* ... to its end or until its worker dies, and none follows.
Gone(r) ==
  /\ fate[r] # "running"
  /\ End(r)
  /\ fate' = [fate EXCEPT ![r] = "running"]
  /\ UNCHANGED <<lockVars, sa, gcp, created, poolVars, history>>

\* The first step of the activity that an execution is in.
FirstStep(l) == CASE l \in {"addOld", "addNew", "setPassword"} -> "store"
                  [] l \in {"setPrimary", "mark"}             -> "complete"
                  [] l \in {"delete", "remove"}               -> "list"
                  [] l = "verify"                             -> "migrate"
                  [] OTHER                                    -> l

\* An attempt times out and the workflow repeats the activity, while the attempt
\* goes on in place s.
Timeout(r, s) ==
  /\ "timeout" \in Faults
  /\ ~At(r, "idle")
  /\ fate[r] = "running"
  /\ rot[s] = Idle
  /\ starts < MaxStarts
  /\ starts' = starts + 1
  /\ rot' = [rot EXCEPT ![s] = rot[r],
                        ![r].pc = FirstStep(@), ![r].read = FALSE,
                        ![r].row = Row0, ![r].at = None, ![r].dels = {}]
  /\ fate' = [fate EXCEPT ![s] = "late"]
  /\ Disturb
  /\ UNCHANGED <<lockVars, sa, gcp, created, poolVars>>

\* The lock is renewed by activities of the workflow.
Alive(c) == \/ c \in Rotations /\ rot[c].pc \in Held /\ fate[c] = "running"
            \/ c \in Pools /\ pool[c] \in {"read", "configure", "unlock",
                                           "unlockFail"}

\* The lease of a client that died expires; so may the one of a client whose
\* renewals do not get through, and a later one may renew it again.
LoseLease == /\ Alive(owner) => "leaseLost" \in Faults
             /\ Expire
             /\ UNCHANGED <<sa, gcp, created, rot, fate, poolVars, history>>

RenewLease(c) == /\ Alive(c)
                 /\ Renew(c)
                 /\ valid'
                 /\ UNCHANGED <<sa, gcp, created, rot, fate, poolVars, history>>

-----------------------------------------------------------------------------

Activity(r) ==
  \/ LockRotation(r)
  \/ ReuseKey(r) \/ RefuseKey(r) \/ CreateKey(r) \/ StoreNewKey(r)
  \/ ReadRow(r) \/ SaveRow(r) \/ FailUpdate(r) \/ UnlockRotation(r)
  \/ Batch(r) \/ \E p \in Pools : SkipPool(r, p) \/ ModifyKms(r, p)
  \/ Reachable(r) \/ Unreachable(r) \/ MigrationsDone(r)
  \/ Complete(r) \/ ListMarked(r) \/ DeleteKey(r)

\* Where an activity has ended and the workflow calls the next one, or the same
\* one again.
Begins == {"create", "store", "unlock", "unlockEnd", "batch", "migrate",
           "complete", "list"}

\* A step of an execution; of a late one, no step of another activity.
Rotation(r) ==
  /\ fate[r] # "over"
  /\ Validate(r) \/ (Activity(r) /\ UNCHANGED history)
  /\ fate' = [fate EXCEPT ![r] =
                IF rot'[r].pc = "idle" THEN "running"
                ELSE IF @ = "late" /\ rot'[r].pc \in Begins THEN "over" ELSE @]

Pool(p) == \/ CreatePool(p) \/ VerifyKey(p) \/ CheckPresent(p) \/ Resync(p)
           \/ Recreate(p) \/ CopyRow(p) \/ SaveCopy(p) \/ FailCopy(p)
           \/ VerifyReachability(p) \/ LockPool(p) \/ ReadPassword(p)
           \/ ConfigureKms(p) \/ UnlockPool(p) \/ CheckReachable(p)
           \/ PoolFails(p) \/ DeletePool(p)

Next == \/ \E r \in Rotations : \/ Rotation(r)
                                \/ Crash(r)
                                \/ Gone(r)
                                \/ \E s \in Rotations \ {r} : Timeout(r, s)
        \/ \E p \in Pools : Pool(p) /\ UNCHANGED <<rot, fate>>
        \/ LoseLease
        \/ \E c \in Clients : RenewLease(c)

Spec == Init /\ [][Next]_vars

-----------------------------------------------------------------------------
(* Properties                                                              *)

\* Unless somebody got in the way of a rotation (two executions or attempts
\* overlapped, a pool creation saved a row that had changed, or synchronized the
\* keys), the key in ServiceAccountPasswordLocation, which pool creations and the
\* next rotation use, is never deleted from GCP: whatever failed, and whatever
\* activity of a closed workflow came late, a rotation moves the location before
\* it deletes anything (rotate_kms_key_activities.go:728).
PasswordKeyIsLive == disturbed \/ sa.pw \in gcp

\* Unless somebody got in the way, every key the row says is active exists in
\* GCP, so that no later rotation picks a deleted key as its new key
\* (rotate_kms_key_activities.go:288).
ActiveKeysLive == disturbed \/ sa.act \subseteq gcp

\* "one being designated as primary" (rotate_kms_key_child_workflow.go:190): no
\* sequence of failed, closed and repeated rotations leaves two primary keys,
\* unless somebody got in the way of one.
AtMostOnePrimary == disturbed \/ Cardinality(sa.prim) <= 1

\* A rotation nobody gets in the way of repairs what earlier ones did to each
\* other: however overlapping executions, late activities and saved copies have
\* left the row, once it has moved the password location to the key it created
\* (rotate_kms_key_activities.go:449) and made that key primary, the location has
\* that key, it alone is primary, and it exists and will not be deleted.
RotationRepairsRow ==
  \A r \in Rotations :
     /\ r = alone
     /\ rot[r].moved
     /\ rot[r].pc \in {"mark", "list", "delete", "remove"}
     => /\ sa.pw = rot[r].new
        /\ sa.prim = {rot[r].new}
        /\ rot[r].new \in gcp \ rot[r].dels

\* When such a rotation deletes keys, every READY pool's SVM has a key that
\* exists and that it will not delete: no pool was overlooked by the migration,
\* and none that was created since the batch was made read an old key from the
\* row (BatchPoolsForKeyRotationActivity refuses pools in CREATING,
\* StoreNewKeyInDBActivity has moved the password location).
DeletesUnusedKeys ==
  \A r \in Rotations :
     r = alone /\ rot[r].moved /\ rot[r].pc \in {"delete", "remove"} =>
        \A p \in Pools : pool[p] = "READY" => ontap[p] \in gcp \ rot[r].dels

\* (violated) "We only delete the old key after ALL pools have successfully
\* migrated" (kms-key-rotation-multi-key-design.md:282): unless somebody got in
\* the way of a rotation, the key a READY pool's SVM has in ONTAP exists in GCP.
ReadyPoolKeysLive ==
  disturbed \/ \A p \in Pools : pool[p] = "READY" => ontap[p] \in gcp
=============================================================================
