------------------------ MODULE KubernetesLock_proofs ------------------------
(***************************************************************************)
(* Proofs about KubernetesLock for any set of clients, any duration of the *)
(* lease and any bound on the error of the clocks: its types, that a write *)
(* the API server accepts is justified, and that the Lease object          *)
(* implements the lock of module LeaseLock.                                *)
(***************************************************************************)
EXTENDS KubernetesLock, TLAPS

IInv == TypeOK /\ AcceptedWriteIsJustified

\* The ages a clock's error may give a time stamp are ages, and so is a unit of
\* time more of any age.
LEMMA AgeFacts ==
  /\ MaxAge \in Ages
  /\ \A o \in Offsets : -o \in Ages
  /\ \A a \in Ages : Older(a) \in Ages /\ Older(a) >= a
BY TimeAssumption DEF MaxAge, Ages, Offsets, Older

\* A clock that shows a lease as expired is off by at most Skew.
LEMMA ExpiredMonotone ==
  ASSUME TypeOK, NEW o \in Offsets, ExpiredAt(o)
  PROVE  ExpiredAt(Skew)
BY TimeAssumption DEF TypeOK, Ages, MaxAge, Offsets, ExpiredAt

\* Initially no operation holds a version of the lease.
LEMMA InitInv == Init => IInv
BY AgeFacts, ClientAssumption DEF Init, IInv, TypeOK, AcceptedWriteIsJustified, MainPC, Ops

\* A successful write leaves no other operation with the current version.
LEMMA WriteInv ==
  ASSUME NEW h \in Clients \cup {None, Absent}, NEW a \in Ages, Write(h, a)
  PROVE  /\ lease' \in [holder : Clients \cup {None, Absent}, age : Ages]
         /\ current' = {}
         /\ AcceptedWriteIsJustified'
BY DEF Write, AcceptedWriteIsJustified

\* Every step of the main coroutine preserves the invariant.
LEMMA ClientInv ==
  ASSUME IInv, NEW c \in Clients, Client(c)
  PROVE  IInv'
<1> USE ClientAssumption DEF IInv
<1>1. CASE NewLocker(c)
  BY <1>1 DEF NewLocker, TypeOK, AcceptedWriteIsJustified, MainPC, Held, ExpiredAt
<1>2. CASE CreateLease(c)
  <2>1. CASE lease.holder = Absent
    BY <1>2, <2>1, AgeFacts, WriteInv DEF CreateLease, TypeOK, MainPC, Ops
  <2>2. CASE lease.holder # Absent
    BY <1>2, <2>2 DEF CreateLease, TypeOK, AcceptedWriteIsJustified, MainPC, Held, ExpiredAt
  <2>3. QED BY <2>1, <2>2
<1>3. CASE LockGet(c)
  <2>1. PICK o \in Offsets : /\ Held => ExpiredAt(o)
                             /\ stamp' = [stamp EXCEPT ![c] = -o]
    BY <1>3 DEF LockGet
  <2>2. Held => ExpiredAt(Skew)
    BY <2>1, ExpiredMonotone
  <2>3. TypeOK'
    BY <1>3, <2>1, AgeFacts DEF LockGet, TypeOK, MainPC, Ops
  <2>4. AcceptedWriteIsJustified'
    BY <1>3, <2>2 DEF LockGet, TypeOK, AcceptedWriteIsJustified, Held, ExpiredAt
  <2>5. QED BY <2>3, <2>4
<1>4. CASE LockUpdate(c)
  <2>1. CASE <<c, "main">> \in current
    BY <1>4, <2>1, WriteInv DEF LockUpdate, TypeOK, MainPC, Ops
  <2>2. CASE <<c, "main">> \notin current
    BY <1>4, <2>2 DEF LockUpdate, TypeOK, AcceptedWriteIsJustified, MainPC, Held, ExpiredAt
  <2>3. QED BY <2>1, <2>2
<1>5. CASE LostLockUpdate(c)
  BY <1>5, WriteInv DEF LostLockUpdate, TypeOK, MainPC, Ops
<1>6. CASE Abandon(c)
  BY <1>6 DEF Abandon, TypeOK, AcceptedWriteIsJustified, MainPC, Held, ExpiredAt
<1>7. CASE StartRelease(c)
  BY <1>7 DEF StartRelease, TypeOK, AcceptedWriteIsJustified, MainPC, Held, ExpiredAt
<1>8. CASE UnlockGet(c)
  BY <1>8 DEF UnlockGet, TypeOK, AcceptedWriteIsJustified, MainPC, Ops, Held, ExpiredAt
<1>9. CASE UnlockUpdate(c)
  <2>1. CASE Write(None, MaxAge)
    BY <1>9, <2>1, AgeFacts, WriteInv DEF UnlockUpdate, TypeOK, MainPC, Ops
  <2>2. CASE UNCHANGED <<lease, current>>
    BY <1>9, <2>2 DEF UnlockUpdate, TypeOK, AcceptedWriteIsJustified, MainPC, Held, ExpiredAt
  <2>3. QED BY <1>9, <2>1, <2>2 DEF UnlockUpdate
<1>10. QED BY <1>1, <1>2, <1>3, <1>4, <1>5, <1>6, <1>7, <1>8, <1>9 DEF Client

\* Every step of the heartbeat coroutine preserves the invariant.
LEMMA RenewalInv ==
  ASSUME IInv, NEW c \in Clients, Renewal(c)
  PROVE  IInv'
<1> USE ClientAssumption DEF IInv
<1>1. CASE StartRenew(c)
  BY <1>1 DEF StartRenew, TypeOK, AcceptedWriteIsJustified, Held, ExpiredAt
<1>2. CASE RenewGet(c)
  <2>1. TypeOK'
    BY <1>2, AgeFacts DEF RenewGet, TypeOK, Ops
  <2>2. UNCHANGED <<lease, pc>>
    BY <1>2 DEF RenewGet
  <2>3. \A d \in Clients : <<d, "main">> \in current' => <<d, "main">> \in current
    BY <1>2 DEF RenewGet
  <2>4. \A d \in Clients : <<d, "renew">> \in current' /\ ren'[d] = "update"
                            => lease.holder = d
    <3>1. CASE lease.holder = c
      <4>1. /\ ren' = [ren EXCEPT ![c] = "update"]
            /\ current' = current \cup {<<c, "renew">>}
        BY <1>2, <3>1 DEF RenewGet
      <4>2. SUFFICES ASSUME NEW d \in Clients, d # c,
                            <<d, "renew">> \in current', ren'[d] = "update"
                     PROVE  lease.holder = d
        BY <3>1
      <4>3. <<d, "renew">> \in current /\ ren[d] = "update"
        BY <4>1, <4>2 DEF TypeOK
      <4>4. QED BY <4>3 DEF AcceptedWriteIsJustified
    <3>2. CASE lease.holder # c
      BY <1>2, <3>2 DEF RenewGet, TypeOK, AcceptedWriteIsJustified
    <3>3. QED BY <3>1, <3>2
  <2>5. AcceptedWriteIsJustified'
    BY <2>2, <2>3, <2>4 DEF AcceptedWriteIsJustified, Held, ExpiredAt
  <2>6. QED BY <2>1, <2>5
<1>3. CASE RenewUpdate(c)
  <2>1. CASE Write(c, renStamp[c])
    BY <1>3, <2>1, WriteInv DEF RenewUpdate, TypeOK, Ops
  <2>2. CASE UNCHANGED <<lease, current>>
    BY <1>3, <2>2 DEF RenewUpdate, TypeOK, AcceptedWriteIsJustified, Held, ExpiredAt
  <2>3. QED BY <1>3, <2>1, <2>2 DEF RenewUpdate
<1>4. QED BY <1>1, <1>2, <1>3 DEF Renewal

\* Time only makes leases older.
LEMMA TickInv ==
  ASSUME IInv, Tick
  PROVE  IInv'
<1>1. TypeOK'
  BY AgeFacts DEF IInv, Tick, TypeOK
<1>2. /\ lease'.holder = lease.holder
      /\ lease'.age >= lease.age
      /\ lease.age \in Ages /\ lease'.age \in Ages
  BY AgeFacts DEF IInv, Tick, TypeOK
<1>3. ExpiredAt(Skew) => ExpiredAt(Skew)'
  BY <1>2, TimeAssumption DEF ExpiredAt, Ages, MaxAge
<1>4. AcceptedWriteIsJustified'
  BY <1>2, <1>3 DEF IInv, Tick, AcceptedWriteIsJustified, Held
<1>5. QED BY <1>1, <1>4 DEF IInv

\* The invariant is inductive.
LEMMA StepInv == IInv /\ [Next]_vars => IInv'
<1> SUFFICES ASSUME IInv, [Next]_vars PROVE IInv'
  OBVIOUS
<1>1. CASE Tick
  BY <1>1, TickInv
<1>2. CASE \E c \in Clients : Client(c) \/ Renewal(c)
  BY <1>2, ClientInv, RenewalInv
<1>3. CASE UNCHANGED vars
  BY <1>3 DEF vars, IInv, TypeOK, AcceptedWriteIsJustified, Held, ExpiredAt
<1>4. QED BY <1>1, <1>2, <1>3 DEF Next

\* The invariant holds in every behaviour.
LEMMA Invariant == Spec => []IInv
BY InitInv, StepInv, PTL DEF Spec

\* Every variable keeps its type.
THEOREM TypeCorrect == Spec => []TypeOK
<1>1. IInv => TypeOK
  BY DEF IInv
<1>2. QED BY <1>1, Invariant, PTL

\* Whatever the clients, the delays and the clocks: a write that the API server
\* accepts is a renewal or an unlock by the holder, or takes over a lease that
\* is free or expired (Lock, RenewLock and Unlock of kubernetes_lock.go).
THEOREM JustifiedWrites == Spec => []AcceptedWriteIsJustified
<1>1. IInv => AcceptedWriteIsJustified
  BY DEF IInv
<1>2. QED BY <1>1, Invariant, PTL

-----------------------------------------------------------------------------
(* The refinement                                                          *)

\* A lease that does not exist is a lock that is free.
LEMMA RefineInit == Init => Lock!LockInit
BY ClientAssumption DEF Init, Lock!LockInit, Held

\* A step that does not write the lease is invisible.
LEMMA SilentStep ==
  ASSUME UNCHANGED lease
  PROVE  UNCHANGED Lock!lockVars
BY DEF Lock!lockVars, Held, ExpiredAt

\* Writing c as the holder of a lease that is not valid acquires the lock.
LEMMA WriteAcquires ==
  ASSUME NEW c \in Clients, NEW a \in Ages, Write(c, a),
         Held => ExpiredAt(Skew)
  PROVE  Lock!LockNext
<1>1. ~(Held /\ ~ExpiredAt(Skew))
  OBVIOUS
<1>2. (IF Held THEN lease.holder ELSE None)' = c
  BY DEF Write, Held
<1>3. (Held /\ ~ExpiredAt(Skew))' \in BOOLEAN
  OBVIOUS
<1>4. Lock!Acquire(c)
  BY <1>1, <1>2, <1>3 DEF Lock!Acquire
<1>5. QED BY <1>4 DEF Lock!LockNext

\* Every step is a step of the lock or leaves it as it is.
LEMMA RefineNext ==
  ASSUME IInv, [Next]_vars
  PROVE  [Lock!LockNext]_(Lock!lockVars)
<1> USE ClientAssumption
<1>1. ASSUME NEW c \in Clients, Client(c)
      PROVE  [Lock!LockNext]_(Lock!lockVars)
  <2>1. CASE UNCHANGED lease
    BY <2>1, SilentStep
  <2>2. CASE CreateLease(c) /\ lease.holder = Absent
    BY <2>2 DEF CreateLease, Write, Lock!lockVars, Held
  <2>3. CASE (LockUpdate(c) \/ LostLockUpdate(c)) /\ <<c, "main">> \in current
    <3>1. Write(c, stamp[c]) /\ stamp[c] \in Ages
      BY <2>3 DEF LockUpdate, LostLockUpdate, IInv, TypeOK
    <3>2. Held => ExpiredAt(Skew)
      BY <2>3 DEF LockUpdate, LostLockUpdate, IInv, AcceptedWriteIsJustified
    <3>3. QED BY <3>1, <3>2, WriteAcquires
  <2>4. CASE UnlockUpdate(c) /\ Write(None, MaxAge) /\ <<c, "main">> \in current
    <3>1. lease.holder = c
      BY <2>4 DEF UnlockUpdate, IInv, AcceptedWriteIsJustified
    <3>2. Lock!Release(c)
      BY <2>4, <3>1 DEF Write, Lock!Release, Held
    <3>3. QED BY <3>2 DEF Lock!LockNext
  <2>5. QED
    BY <1>1, <2>1, <2>2, <2>3, <2>4
    DEF Client, NewLocker, CreateLease, LockGet, LockUpdate, LostLockUpdate,
        Abandon, StartRelease, UnlockGet, UnlockUpdate
<1>2. ASSUME NEW c \in Clients, Renewal(c)
      PROVE  [Lock!LockNext]_(Lock!lockVars)
  <2>1. CASE UNCHANGED lease
    BY <2>1, SilentStep
  <2>2. CASE RenewUpdate(c) /\ Write(c, renStamp[c]) /\ <<c, "renew">> \in current
    <3>1. lease.holder = c
      BY <2>2 DEF RenewUpdate, IInv, AcceptedWriteIsJustified
    <3>2. Lock!Renew(c)
      BY <2>2, <3>1 DEF Write, Lock!Renew, Held
    <3>3. QED BY <3>2 DEF Lock!LockNext
  <2>3. QED
    BY <1>2, <2>1, <2>2 DEF Renewal, StartRenew, RenewGet, RenewUpdate
<1>3. CASE Tick
  <2>1. /\ lease'.holder = lease.holder
        /\ lease'.age >= lease.age
        /\ lease.age \in Ages /\ lease'.age \in Ages
    BY <1>3, AgeFacts DEF IInv, Tick, TypeOK
  <2>2. ExpiredAt(Skew) => ExpiredAt(Skew)'
    BY <2>1, TimeAssumption DEF ExpiredAt, Ages, MaxAge
  <2>3. Held' = Held
    BY <2>1 DEF Held
  <2>4. QED
    BY <2>1, <2>2, <2>3 DEF Lock!LockNext, Lock!Expire, Lock!lockVars
<1>4. CASE UNCHANGED vars
  BY <1>4, SilentStep DEF vars
<1>5. QED BY <1>1, <1>2, <1>3, <1>4 DEF Next

\* The Lease object implements the abstract lock, for every number of clients:
\* two holders never overlap while a lease is valid, and only its holder renews
\* or releases it.
THEOREM Refinement == Spec => ImplementsLeaseLock
<1>1. Init => Lock!LockInit
  BY RefineInit
<1>2. IInv /\ [Next]_vars => [Lock!LockNext]_(Lock!lockVars)
  BY RefineNext
<1>3. QED BY <1>1, <1>2, Invariant, PTL DEF Spec, ImplementsLeaseLock, Lock!LockSpec
=============================================================================
