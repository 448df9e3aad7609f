------------------------------ MODULE LeaseLock ------------------------------
(***************************************************************************)
(* What the lease-based lock promises: one owner at a time, taken over     *)
(* from a silent owner only once its lease is no longer valid, and given   *)
(* back or renewed by its owner only.  Module KubernetesLock implements    *)
(* it; module KmsRotation is built on it.                                  *)
(***************************************************************************)
CONSTANTS Clients, None

ASSUME NoneAssumption == None \notin Clients

VARIABLES owner,    \* the client that holds the lock, or None
          valid     \* no other client may take the lock over

lockVars == <<owner, valid>>

LockTypeOK == /\ owner \in Clients \cup {None}
              /\ valid \in BOOLEAN

LockInit == owner = None /\ valid = FALSE

\* The lease may be granted so late that it is no longer valid.
Acquire(c) == /\ ~valid
              /\ owner' = c
              /\ valid' \in BOOLEAN

Renew(c) == /\ owner = c
            /\ valid' \in BOOLEAN
            /\ UNCHANGED owner

Release(c) == /\ owner = c
              /\ owner' = None
              /\ valid' = FALSE

Expire == /\ valid
          /\ valid' = FALSE
          /\ UNCHANGED owner

LockNext == \/ \E c \in Clients : Acquire(c) \/ Renew(c) \/ Release(c)
            \/ Expire

LockSpec == LockInit /\ [][LockNext]_lockVars
=============================================================================
