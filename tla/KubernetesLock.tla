--------------------------- MODULE KubernetesLock ---------------------------
(***************************************************************************)
(* The distributed lock on a Kubernetes Lease (utils/kubernetes_lock.go)   *)
(* as the KMS workflows use it: AcquireKmsRotationLockActivity retries     *)
(* Lock, a heartbeat coroutine of WithKmsRotationLock renews the lease,    *)
(* and the release function unlocks it.                                    *)
(*                                                                         *)
(* A client is one attempt of the acquire activity: NewLocker gives every  *)
(* attempt a fresh identity.  Every operation reads the lease and writes   *)
(* it back; the API server refuses the write when the resource version has *)
(* changed since.  The variable current stands for the versions: it holds  *)
(* the operations whose copy is still the lease's version, and a           *)
(* successful write empties it.                                            *)
(*                                                                         *)
(* Time is kept as ages: lease.age is the true time minus RenewTime.       *)
(* A worker's clock is off by at most Skew, so a time stamp starts with an *)
(* age between -Skew and Skew.  Ages stop growing at TTL + Skew, where     *)
(* every clock sees an expired lease.                                      *)
(***************************************************************************)
EXTENDS Integers, FiniteSets

CONSTANTS Clients,  \* attempts to acquire the lock
          None,     \* the lease exists and nobody holds it
          Absent,   \* the lease does not exist
          TTL,      \* LeaseDurationSeconds
          Skew,     \* largest error of a worker's clock
          ApiErrors \* whether calls to the API server may fail

ASSUME ClientAssumption == None \notin Clients /\ Absent \notin Clients /\ None # Absent
ASSUME TimeAssumption == TTL \in Nat \ {0} /\ Skew \in Nat
ASSUME ApiAssumption == ApiErrors \in BOOLEAN

VARIABLES lease,    \* the Lease object: HolderIdentity and age of RenewTime
          pc,       \* main coroutine: acquire, hold, release
          stamp,    \* age of the time stamp Lock is about to write
          ren,      \* the renewal activity of the heartbeat coroutine
          renStamp, \* age of the time stamp RenewLock is about to write
          current   \* operations that hold the lease's current version

vars == <<lease, pc, stamp, ren, renStamp, current>>

MaxAge  == TTL + Skew
Ages    == (-Skew) .. MaxAge
Offsets == (-Skew) .. Skew          \* error of the clock an operation reads
MainPC  == {"idle", "create", "try", "update", "holds", "release", "clear",
            "done", "gone"}
Ops     == Clients \X {"main", "renew"}

TypeOK == /\ lease \in [holder : Clients \cup {None, Absent}, age : Ages]
          /\ pc \in [Clients -> MainPC]
          /\ stamp \in [Clients -> Ages]
          /\ ren \in [Clients -> {"idle", "get", "update"}]
          /\ renStamp \in [Clients -> Ages]
          /\ current \subseteq Ops

Init == /\ lease = [holder |-> Absent, age |-> MaxAge]
        /\ pc = [c \in Clients |-> "idle"]
        /\ stamp = [c \in Clients |-> MaxAge]
        /\ ren = [c \in Clients |-> "idle"]
        /\ renStamp = [c \in Clients |-> MaxAge]
        /\ current = {}

Held == lease.holder \in Clients

\* (mutant of ExpiredAt) An expired lease is not taken over.
ExpiredNever(o) == FALSE

\* Whether a clock that is off by o shows RenewTime + duration in the past.
ExpiredAt(o) == lease.age + o >= TTL

\* (mutants of Write) RenewTime is not set; the write is not conditional on the
\* version that was read.
WriteUnstamped(h, a) == /\ lease' = [holder |-> h, age |-> MaxAge + 1]
                        /\ current' = {}
WriteUnversioned(h, a) == /\ lease' = [holder |-> h, age |-> a]
                          /\ UNCHANGED current

\* A successful Update: every other copy of the lease is outdated.
Write(h, a) == /\ lease' = [holder |-> h, age |-> a]
               /\ current' = {}

-----------------------------------------------------------------------------
(* AcquireKmsRotationLockActivity                                          *)

\* NewLocker: a missing lease is created in a second call.
NewLocker(c) ==
  /\ pc[c] = "idle"
  /\ pc' = [pc EXCEPT ![c] = IF lease.holder = Absent THEN "create" ELSE "try"]
  /\ UNCHANGED <<lease, stamp, ren, renStamp, current>>

\* Create fails when another client created the lease in the meantime: unlike
\* getOrCreateLease, NewLocker reports that, and the attempt ends.
CreateLease(c) ==
  /\ pc[c] = "create"
  /\ IF lease.holder = Absent
     THEN /\ Write(None, MaxAge)
          /\ pc' = [pc EXCEPT ![c] = "try"]
     ELSE /\ pc' = [pc EXCEPT ![c] = "gone"]
          /\ UNCHANGED <<lease, current>>
  /\ UNCHANGED <<stamp, ren, renStamp>>

\* Lock, up to its Update.  While the lease is held and valid, Lock returns
\* ErrAlreadyHeld and the activity tries again, which changes nothing.
LockGet(c) ==
  /\ pc[c] = "try"
  /\ \E o \in Offsets : /\ Held => ExpiredAt(o)
                        /\ stamp' = [stamp EXCEPT ![c] = -o]
  /\ pc' = [pc EXCEPT ![c] = "update"]
  /\ current' = current \cup {<<c, "main">>}
  /\ UNCHANGED <<lease, ren, renStamp>>

\* The Update of Lock; a conflict is ErrAlreadyHeld.
LockUpdate(c) ==
  /\ pc[c] = "update"
  /\ IF <<c, "main">> \in current
     THEN /\ Write(c, stamp[c])
          /\ pc' = [pc EXCEPT ![c] = "holds"]
     ELSE /\ pc' = [pc EXCEPT ![c] = "try"]
          /\ UNCHANGED <<lease, current>>
  /\ UNCHANGED <<stamp, ren, renStamp>>

\* The Update is applied and its answer, or the activity's, is lost: the
\* next attempt has another identity and nobody knows that c holds the lock.
LostLockUpdate(c) ==
  /\ ApiErrors
  /\ pc[c] = "update"
  /\ <<c, "main">> \in current
  /\ Write(c, stamp[c])
  /\ pc' = [pc EXCEPT ![c] = "gone"]
  /\ UNCHANGED <<stamp, ren, renStamp>>

\* The deadline of the activity, a cancelled context, an error of the API
\* server, or the end of the workflow: c takes no further step of its own.
Abandon(c) ==
  /\ pc[c] \in {"create", "try", "update", "holds", "release", "clear"}
  /\ pc' = [pc EXCEPT ![c] = "gone"]
  /\ UNCHANGED <<lease, stamp, ren, renStamp, current>>

-----------------------------------------------------------------------------
(* The heartbeat coroutine and RenewKmsRotationLockActivity                *)

StartRenew(c) ==
  /\ pc[c] = "holds"
  /\ ren[c] = "idle"
  /\ ren' = [ren EXCEPT ![c] = "get"]
  /\ UNCHANGED <<lease, pc, stamp, renStamp, current>>

\* RenewLock: verifyLock fails unless c is the holder.  Cancelling the
\* heartbeat does not stop an activity that is executing.
RenewGet(c) ==
  /\ ren[c] = "get"
  /\ IF lease.holder = c
     THEN \E o \in Offsets :
            /\ ren' = [ren EXCEPT ![c] = "update"]
            /\ renStamp' = [renStamp EXCEPT ![c] = -o]
            /\ current' = current \cup {<<c, "renew">>}
     ELSE /\ ren' = [ren EXCEPT ![c] = "idle"]
          /\ UNCHANGED <<renStamp, current>>
  /\ UNCHANGED <<lease, pc, stamp>>

\* (mutant of RenewUpdate) A conflict is overruled.
RenewUpdateForced(c) ==
  /\ ren[c] = "update"
  /\ ren' = [ren EXCEPT ![c] = "idle"]
  /\ Write(c, renStamp[c])
  /\ UNCHANGED <<pc, stamp, renStamp>>

\* The Update of RenewLock; every error is logged and ignored.
RenewUpdate(c) ==
  /\ ren[c] = "update"
  /\ ren' = [ren EXCEPT ![c] = "idle"]
  /\ IF <<c, "renew">> \in current
     THEN \/ Write(c, renStamp[c])
          \/ ApiErrors /\ UNCHANGED <<lease, current>>
     ELSE UNCHANGED <<lease, current>>
  /\ UNCHANGED <<pc, stamp, renStamp>>

-----------------------------------------------------------------------------
(* The release function and ReleaseKmsRotationLockActivity                 *)

StartRelease(c) ==
  /\ pc[c] = "holds"
  /\ pc' = [pc EXCEPT ![c] = "release"]
  /\ UNCHANGED <<lease, stamp, ren, renStamp, current>>

\* Unlock, up to its Update: verifyLock fails unless c is the holder.
UnlockGet(c) ==
  /\ pc[c] = "release"
  /\ IF lease.holder = c
     THEN /\ pc' = [pc EXCEPT ![c] = "clear"]
          /\ current' = current \cup {<<c, "main">>}
     ELSE /\ pc' = [pc EXCEPT ![c] = "done"]
          /\ UNCHANGED current
  /\ UNCHANGED <<lease, stamp, ren, renStamp>>

\* The Update of Unlock; the activity logs an error and reports success.
UnlockUpdate(c) ==
  /\ pc[c] = "clear"
  /\ pc' = [pc EXCEPT ![c] = "done"]
  /\ IF <<c, "main">> \in current
     THEN \/ Write(None, MaxAge)
          \/ ApiErrors /\ UNCHANGED <<lease, current>>
     ELSE UNCHANGED <<lease, current>>
  /\ UNCHANGED <<stamp, ren, renStamp>>

-----------------------------------------------------------------------------

Older(a) == IF a < MaxAge THEN a + 1 ELSE a

\* One unit of time passes.
Tick == /\ lease' = [lease EXCEPT !.age = Older(@)]
        /\ stamp' = [c \in Clients |-> Older(stamp[c])]
        /\ renStamp' = [c \in Clients |-> Older(renStamp[c])]
        /\ UNCHANGED <<pc, ren, current>>

Client(c) == \/ NewLocker(c) \/ CreateLease(c) \/ LockGet(c) \/ LockUpdate(c)
             \/ LostLockUpdate(c) \/ Abandon(c)
             \/ StartRelease(c) \/ UnlockGet(c) \/ UnlockUpdate(c)
Renewal(c) == StartRenew(c) \/ RenewGet(c) \/ RenewUpdate(c)

Next == Tick \/ \E c \in Clients : Client(c) \/ Renewal(c)

Spec == Init /\ [][Next]_vars

-----------------------------------------------------------------------------
(* Properties                                                              *)

\* A write the API server would accept is still justified when it arrives:
\* a renewal or an unlock by the holder, a takeover of a free or expired
\* lease.  This is what the resource version checks are for
\* (kubernetes_lock.go:225, 273, 294).
AcceptedWriteIsJustified ==
  \A c \in Clients :
    /\ <<c, "renew">> \in current /\ ren[c] = "update" => lease.holder = c
    /\ <<c, "main">> \in current /\ pc[c] = "clear" => lease.holder = c
    /\ <<c, "main">> \in current /\ pc[c] = "update" /\ Held
       => ExpiredAt(Skew)

\* The lock as its users see it: valid while no clock shows it as expired.
Lock == INSTANCE LeaseLock WITH owner <- IF Held THEN lease.holder ELSE None,
                                valid <- Held /\ ~ExpiredAt(Skew)

\* The Lease object implements the abstract lock: nobody takes it over while
\* it is valid, and nobody but its holder renews or releases it.
ImplementsLeaseLock == Lock!LockSpec

\* Time passes, calls to the API server end, and workers execute the
\* activities of open workflows.  A holder may work for any time, and no
\* client gives up for certain.
FairSpec ==
  /\ Spec
  /\ WF_vars(Tick)
  /\ \A c \in Clients :
       /\ WF_vars(NewLocker(c) \/ CreateLease(c) \/ LockUpdate(c))
       /\ WF_vars(LockGet(c))
       /\ WF_vars(UnlockGet(c) \/ UnlockUpdate(c))
       /\ WF_vars(RenewGet(c) \/ RenewUpdate(c))

\* A client that waits for the lock gets it, ends, or waits for a client that
\* is alive: a holder that died, or whose release was lost, does not block it
\* for ever (kubernetes_lock.go:196).
WaiterIsServed ==
  \A c \in Clients :
    pc[c] = "try" ~> \/ pc[c] \in {"holds", "gone"}
                     \/ \E d \in Clients \ {c} : pc[d] = "holds"
=============================================================================
