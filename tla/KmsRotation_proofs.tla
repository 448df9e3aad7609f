------------------------- MODULE KmsRotation_proofs -------------------------
(***************************************************************************)
(* Types of module KmsRotation, and what holds of the service account's    *)
(* row until executions overlap or a pool creation gets in their way, for  *)
(* any number of rotations, late activities and repeated attempts.         *)
(*                                                                         *)
(* TypeInv adds to the types that every step finds the keys it needs.      *)
(* KeyInv relates the row, the keys in GCP and the copy of the row an      *)
(* execution has read: it is stated of the states between two statements,  *)
(* so that each save is a step of the proof.                               *)
(***************************************************************************)
EXTENDS KmsRotation, FiniteSetTheorems, WellFoundedInduction, TLAPS

\* The least key of a set of keys is one of them.
LEMMA MinKey ==
    ASSUME NEW S \in SUBSET Keys, S # {} PROVE Min(S) \in S
<1> DEFINE LT == OpToRel(<, Nat)
<1>1. S \subseteq Nat
  BY KmsAssumption DEF Keys
<1>2. LT = {ss \in Nat \X Nat : ss[1] < ss[2]}
  BY DEF OpToRel
<1>3. IsWellFoundedOn(LT, Nat)
  BY NatLessThanWellFounded
<1> HIDE DEF LT
<1>4. PICK x \in S : \A y \in S : <<y, x>> \notin LT
  BY <1>1, <1>3, WFMin
<1>5. \A y \in S : x <= y
  <2> SUFFICES ASSUME NEW y \in S, ~(x <= y) PROVE FALSE
    OBVIOUS
  <2>1. y < x /\ <<y, x>> \in Nat \X Nat
    BY <1>1
  <2>2. <<y, x>> \in LT
    BY <1>2, <2>1
  <2>3. QED BY <1>4, <2>2
<1>6. QED BY <1>5 DEF Min

-----------------------------------------------------------------------------
(* Types.                                                                  *)

\* Steps at which newKeyID is known, and those at which the activity that
\* stores it writes the row.
Chosen  == {"store", "addOld", "addNew", "setPassword", "unlock", "batch",
            "migrate", "verify", "complete", "setPrimary", "mark", "list",
            "delete", "remove"}
Writing == {"addOld", "addNew", "setPassword"}

\* What an execution holds is what its step needs.
ExecShape(x) == /\ x.pc # "idle" => x.cur \in Keys
                /\ x.pc \in Chosen => x.new \in Keys /\ x.data \in Keys
                /\ x.pc \in Writing => x.old \in Keys
                /\ x.pc = "remove" => x.dels # {}
                /\ x.pc = "verify" => x.at \in Pools

\* So is what a pool creation is about to store.
PoolKey == \A p \in Pools : pool[p] = "keyRead" => seen[p] \in Keys

TypeInv == TypeOK /\ PoolKey /\ \A r \in Rotations : ExecShape(rot[r])

\* The part of it that an activity can change.
CoreType == /\ LockTypeOK
            /\ sa \in Rows
            /\ gcp \subseteq Keys
            /\ created \in Keys
            /\ rot \in [Rotations -> Executions]
            /\ pool \in [Pools -> PoolStates]
            /\ ontap \in [Pools -> AnyKey]
            /\ tracked \in [Pools -> AnyKey]
            /\ seen \in [Pools -> AnyKey]
            /\ copy \in [Pools -> Rows \cup {None}]
            /\ PoolKey
            /\ \A r \in Rotations : ExecShape(rot[r])

\* A key is a key or none.
LEMMA KeyFacts == Keys \subseteq AnyKey /\ NoKey \in AnyKey
BY KmsAssumption DEF Keys, AnyKey, NoKey

\* A step of one execution.
LEMMA ExecFrame ==
    ASSUME TypeInv, NEW r \in Rotations, NEW y \in Executions, ExecShape(y),
           rot' = [rot EXCEPT ![r] = y]
    PROVE  /\ rot' \in [Rotations -> Executions]
           /\ \A s \in Rotations : ExecShape(rot'[s])
BY DEF TypeInv, TypeOK

\* An execution that has not started.
LEMMA IdleExec == Idle \in Executions /\ ExecShape(Idle)
BY KmsAssumption
   DEF Idle, Executions, ExecShape, PCs, Rows, Row0, AnyKey, NoKey, Keys, Chosen,
       Writing

\* A step of an execution, of the row and the keys.
LEMMA RotStep ==
    ASSUME TypeInv, NEW r \in Rotations, NEW y \in Executions, ExecShape(y),
           rot' = [rot EXCEPT ![r] = y],
           sa' \in Rows, gcp' \subseteq Keys, created' \in Keys, LockTypeOK',
           ontap' \in [Pools -> AnyKey], tracked' \in [Pools -> AnyKey],
           UNCHANGED <<pool, seen, copy>>
    PROVE  CoreType'
BY ExecFrame DEF TypeInv, TypeOK, CoreType, PoolKey

\* A step of a pool, or of the lock.
LEMMA PoolFrame ==
    ASSUME TypeInv, LockTypeOK', UNCHANGED <<rot, tracked>>, sa' \in Rows,
           gcp' \subseteq Keys, created' \in Keys,
           pool' \in [Pools -> PoolStates], ontap' \in [Pools -> AnyKey],
           seen' \in [Pools -> AnyKey], copy' \in [Pools -> Rows \cup {None}],
           PoolKey'
    PROVE  CoreType'
BY DEF TypeInv, TypeOK, CoreType

\* The steps of the lock.
LEMMA LockTypes ==
    ASSUME LockTypeOK, NEW c \in Clients
    PROVE  /\ Obtain(c) => LockTypeOK'
           /\ Give(c) => LockTypeOK'
           /\ UNCHANGED lockVars => LockTypeOK'
BY DEF LockTypeOK, Obtain, Acquire, Give, Release, lockVars

\* The workflow ends.
LEMMA EndType ==
    ASSUME TypeInv, NEW r \in Rotations, End(r), UNCHANGED <<sa, created, poolVars>>,
           gcp' \subseteq Keys, LockTypeOK'
    PROVE  CoreType'
BY RotStep, IdleExec DEF TypeInv, TypeOK, End, poolVars

\* The workflow goes on; what the next step needs is there.
LEMMA GotoType ==
    ASSUME TypeInv, NEW r \in Rotations, NEW l \in PCs, Goto(r, l), ~At(r, "idle"),
           l \in Chosen => rot[r].pc \in Chosen,
           l \in Writing \cup {"verify"} => rot[r].pc = l,
           l = "remove" => rot[r].dels # {},
           UNCHANGED <<sa, poolVars>>, gcp' \subseteq Keys, created' \in Keys, LockTypeOK'
    PROVE  CoreType'
<1> DEFINE y == [rot[r] EXCEPT !.pc = l]
<1>1. rot' = [rot EXCEPT ![r] = y] /\ rot[r] \in Executions /\ ExecShape(rot[r])
  BY DEF TypeInv, TypeOK, Goto
<1>2. y \in Executions
  BY <1>1 DEF Executions
<1>3. ExecShape(y)
  BY <1>1 DEF ExecShape, Executions, At
<1>4. QED BY <1>1, <1>2, <1>3, RotStep DEF TypeInv, TypeOK, poolVars

\* currentKeyID is a key.
LEMMA ValidateType ==
    ASSUME TypeInv, NEW r \in Rotations, Validate(r) PROVE CoreType'
<1> DEFINE y == [rot[r] EXCEPT !.pc = "acquire", !.cur = sa.pw]
<1>1. rot' = [rot EXCEPT ![r] = y] /\ rot[r] \in Executions /\ ExecShape(rot[r])
  BY DEF TypeInv, TypeOK, Validate
<1>2. y \in Executions
  BY <1>1, KeyFacts DEF TypeInv, TypeOK, Executions, PCs, Updates, Held, Rows
<1>3. ExecShape(y)
  BY <1>1, <1>2
     DEF ExecShape, Executions, Chosen, Writing, At, TypeInv, TypeOK, Validate,
         Rows
<1>4. QED BY <1>1, <1>2, <1>3, RotStep
             DEF TypeInv, TypeOK, Validate, lockVars, poolVars, LockTypeOK

\* The lock is granted or not.
LEMMA LockRotationType ==
    ASSUME TypeInv, NEW r \in Rotations, LockRotation(r) PROVE CoreType'
<1>1. LockTypeOK' /\ gcp' \subseteq Keys /\ created' \in Keys
  BY LockTypes, KmsAssumption DEF TypeInv, TypeOK, LockRotation
<1>2. CASE Goto(r, "create")
  BY <1>1, <1>2, GotoType
     DEF LockRotation, At, PCs, Updates, Held, Chosen, Writing
<1>3. CASE End(r)
  BY <1>1, <1>3, EndType DEF LockRotation
<1>4. QED BY <1>2, <1>3 DEF LockRotation

\* A key of the row, with its data.
LEMMA ReuseKeyType ==
    ASSUME TypeInv, NEW r \in Rotations, ReuseKey(r) PROVE CoreType'
<1>0. PICK k \in NewKeys(r) :
          rot' = [rot EXCEPT ![r].pc = "store", ![r].new = k,
                             ![r].data = sa.data[k]]
  BY DEF ReuseKey
<1>k. k \in Keys /\ sa.data[k] \in Keys
  BY DEF TypeInv, TypeOK, Rows, NewKeys
<1> DEFINE y == [rot[r] EXCEPT !.pc = "store", !.new = k, !.data = sa.data[k]]
<1>1. rot' = [rot EXCEPT ![r] = y] /\ rot[r] \in Executions /\ ExecShape(rot[r])
  BY <1>0 DEF TypeInv, TypeOK, ReuseKey
<1>2. y \in Executions
  BY <1>1, KeyFacts, <1>k DEF TypeInv, TypeOK, Executions, PCs, Updates, Held
<1>3. ExecShape(y)
  BY <1>1, <1>2, <1>k
     DEF ExecShape, Executions, Chosen, Writing, At, TypeInv, TypeOK, ReuseKey
<1>4. QED BY <1>1, <1>2, <1>3, RotStep
             DEF TypeInv, TypeOK, ReuseKey, lockVars, poolVars, LockTypeOK

\* The lock is released next.
LEMMA RefuseKeyType ==
    ASSUME TypeInv, NEW r \in Rotations, RefuseKey(r) PROVE CoreType'
<1>1. LockTypeOK' /\ gcp' \subseteq Keys /\ created' \in Keys
  BY DEF TypeInv, TypeOK, RefuseKey, lockVars, LockTypeOK
<1>2. QED
  BY <1>1, GotoType DEF RefuseKey, At, PCs, Updates, Held, Chosen, Writing

\* A new key, stored or lost.
LEMMA CreateKeyType ==
    ASSUME TypeInv, NEW r \in Rotations, CreateKey(r) PROVE CoreType'
<1>1. /\ LockTypeOK' /\ gcp' \subseteq Keys /\ created' \in Keys
      /\ At(r, "create") /\ UNCHANGED <<sa, poolVars>>
  BY KmsAssumption
     DEF TypeInv, TypeOK, CreateKey, lockVars, LockTypeOK, Keys
<1>2. CASE Goto(r, "create") \/ Goto(r, "unlockEnd")
  BY <1>1, <1>2, GotoType DEF At, PCs, Updates, Held, Chosen, Writing
<1>3. CASE rot' = [rot EXCEPT ![r].pc = "store", ![r].new = created',
                              ![r].data = created']
  <2> DEFINE y == [rot[r] EXCEPT !.pc = "store", !.new = created',
                                 !.data = created']
  <2>1. rot' = [rot EXCEPT ![r] = y] /\ rot[r] \in Executions /\ ExecShape(rot[r])
    BY <1>3 DEF TypeInv, TypeOK
  <2>2. y \in Executions
    BY <1>1, <2>1, KeyFacts DEF Executions, PCs, Updates, Held
  <2>3. ExecShape(y)
    BY <1>1, <2>1, <2>2 DEF ExecShape, Executions, Chosen, Writing, At
  <2>4. QED BY <1>1, <2>1, <2>2, <2>3, RotStep DEF TypeInv, TypeOK, poolVars
<1>4. QED BY <1>2, <1>3 DEF CreateKey

\* The password location is a key.
LEMMA StoreNewKeyType ==
    ASSUME TypeInv, NEW r \in Rotations, StoreNewKey(r) PROVE CoreType'
<1>1. PICK l \in {"unlock", "addNew", "addOld"} :
         rot' = [rot EXCEPT ![r].old = sa.pw, ![r].pc = l]
  BY DEF StoreNewKey
<1> DEFINE y == [rot[r] EXCEPT !.old = sa.pw, !.pc = l]
<1>2. rot' = [rot EXCEPT ![r] = y] /\ rot[r] \in Executions /\ ExecShape(rot[r])
  BY <1>1 DEF TypeInv, TypeOK
<1>3. y \in Executions
  BY <1>2, KeyFacts DEF TypeInv, TypeOK, Executions, PCs, Updates, Held, Rows
<1>4. ExecShape(y)
  BY <1>2, <1>3 DEF ExecShape, Executions, Chosen, Writing, At, TypeInv, TypeOK,
         StoreNewKey, Rows
<1>5. QED BY <1>2, <1>3, <1>4, RotStep
          DEF TypeInv, TypeOK, StoreNewKey, lockVars, poolVars, LockTypeOK

\* The workflow goes on, or ends.
LEMMA UnlockRotationType ==
    ASSUME TypeInv, NEW r \in Rotations, UnlockRotation(r) PROVE CoreType'
<1>1. /\ LockTypeOK' /\ gcp' \subseteq Keys /\ created' \in Keys
      /\ UNCHANGED <<sa, gcp, created, poolVars>>
  BY LockTypes, KmsAssumption DEF TypeInv, TypeOK, UnlockRotation
<1>2. CASE At(r, "unlock") /\ Goto(r, "batch")
  BY <1>1, <1>2, GotoType DEF At, PCs, Updates, Held, Chosen, Writing
<1>3. CASE End(r)
  BY <1>1, <1>3, EndType
<1>4. QED BY <1>2, <1>3 DEF UnlockRotation

\* A copy of the row.
LEMMA ReadRowType ==
    ASSUME TypeInv, NEW r \in Rotations, ReadRow(r) PROVE CoreType'
<1> DEFINE y == [rot[r] EXCEPT !.read = TRUE, !.row = sa]
<1>1. rot' = [rot EXCEPT ![r] = y] /\ rot[r] \in Executions /\ ExecShape(rot[r])
  BY DEF TypeInv, TypeOK, ReadRow
<1>2. y \in Executions
  BY <1>1, KeyFacts DEF TypeInv, TypeOK, Executions, PCs, Updates, Held
<1>3. ExecShape(y)
  BY <1>1, <1>2
     DEF ExecShape, Executions, Chosen, Writing, At, TypeInv, TypeOK, ReadRow
<1>4. QED BY <1>1, <1>2, <1>3, RotStep
             DEF TypeInv, TypeOK, ReadRow, lockVars, poolVars, LockTypeOK

\* A function of service_account.go makes a row of a row.
LEMMA SavedType ==
    ASSUME NEW x \in Executions, ExecShape(x), x.pc \in Updates
    PROVE  Saved(x) \in Rows
<1> USE DEF Executions, Rows
<1>1. CASE x.pc = "addOld"
  BY <1>1 DEF Saved, WithKey, ExecShape, Chosen, Writing
<1>2. CASE x.pc = "addNew"
  BY <1>2 DEF Saved, WithKey, ExecShape, Chosen, Writing
<1>3. CASE x.pc = "setPassword"
  BY <1>3 DEF Saved, ExecShape, Chosen, Writing
<1>4. CASE x.pc = "setPrimary"
  BY <1>4 DEF Saved, WithPrimary, ExecShape, Chosen
<1>5. CASE x.pc = "mark"
  BY <1>5 DEF Saved, WithMark
<1>6. CASE x.pc = "remove"
  BY <1>6 DEF Saved, WithoutKey
<1>7. QED BY <1>1, <1>2, <1>3, <1>4, <1>5, <1>6 DEF Updates

\* The step after each of them.
NextPC == [addOld |-> "addNew", addNew |-> "setPassword", setPassword |-> "unlock",
           setPrimary |-> "mark", mark |-> "list", remove |-> "delete"]

\* Continued, without its CASE.
LEMMA ContinuedForm ==
    ASSUME NEW x \in Executions, x.pc \in Updates
    PROVE  Continued(x) =
             [x EXCEPT !.read = FALSE, !.row = Row0,
                       !.moved = x.moved \/ x.pc = "setPassword",
                       !.dels = IF x.pc = "remove" THEN x.dels \ {Min(x.dels)} ELSE x.dels,
                       !.pc = NextPC[x.pc]]
<1>1. CASE x.pc = "addOld"
  BY <1>1 DEF Continued, NextPC, Executions
<1>2. CASE x.pc = "addNew"
  BY <1>2 DEF Continued, NextPC, Executions
<1>3. CASE x.pc = "setPassword"
  BY <1>3 DEF Continued, NextPC, Executions
<1>4. CASE x.pc = "setPrimary"
  BY <1>4 DEF Continued, NextPC, Executions
<1>5. CASE x.pc = "mark"
  BY <1>5 DEF Continued, NextPC, Executions
<1>6. CASE x.pc = "remove"
  BY <1>6 DEF Continued, NextPC, Executions
<1>7. QED BY <1>1, <1>2, <1>3, <1>4, <1>5, <1>6 DEF Updates

\* What the next write needs is there.
LEMMA ContinuedType ==
    ASSUME NEW x \in Executions, ExecShape(x), x.pc \in Updates
    PROVE  Continued(x) \in Executions /\ ExecShape(Continued(x))
<1> DEFINE d == IF x.pc = "remove" THEN x.dels \ {Min(x.dels)} ELSE x.dels
           y == [x EXCEPT !.read = FALSE, !.row = Row0,
                          !.moved = x.moved \/ x.pc = "setPassword", !.dels = d,
                          !.pc = NextPC[x.pc]]
<1>1. Continued(x) = y
  BY ContinuedForm
<1>2. d \in SUBSET Keys
  BY DEF Executions
<1>3. /\ NextPC[x.pc] \in {"addNew", "setPassword", "unlock", "mark", "list", "delete"}
      /\ NextPC[x.pc] \in Writing => x.pc \in Writing
  BY DEF NextPC, Updates, Writing
<1>4. Row0 \in Rows
  BY KmsAssumption DEF Row0, Rows, Keys
<1> HIDE DEF d
<1>5. y \in Executions
  BY <1>2, <1>3, <1>4 DEF Executions, PCs, Updates, Held
<1>6. ExecShape(y)
  BY <1>3, <1>5 DEF ExecShape, Executions, Chosen, Writing, Updates
<1>7. QED BY <1>1, <1>5, <1>6

\* Every function of service_account.go saves a row.
LEMMA SaveRowType ==
    ASSUME TypeInv, NEW r \in Rotations, SaveRow(r) PROVE CoreType'
<1>1. rot[r] \in Executions /\ ExecShape(rot[r]) /\ rot[r].pc \in Updates
  BY DEF TypeInv, TypeOK, SaveRow
<1>2. rot' = [rot EXCEPT ![r] = Continued(rot[r])] /\ sa' = Saved(rot[r])
  BY DEF SaveRow
<1>3. QED BY <1>1, <1>2, SavedType, ContinuedType, RotStep
          DEF TypeInv, TypeOK, SaveRow, lockVars, poolVars, LockTypeOK

\* The activity starts again, or the workflow goes on or ends.
LEMMA FailUpdateType ==
    ASSUME TypeInv, NEW r \in Rotations, FailUpdate(r) PROVE CoreType'
<1>1. /\ rot[r] \in Executions /\ ExecShape(rot[r]) /\ rot[r].pc \in Updates
      /\ UNCHANGED <<lockVars, sa, gcp, created, poolVars>> /\ LockTypeOK'
  BY DEF TypeInv, TypeOK, FailUpdate, lockVars, LockTypeOK
<1>2. CASE End(r)
  BY <1>1, <1>2, EndType DEF TypeInv, TypeOK
<1>3. CASE rot' = [rot EXCEPT ![r] = Continued(rot[r])]
  BY <1>1, <1>3, ContinuedType, RotStep DEF TypeInv, TypeOK, poolVars
<1>4. ASSUME NEW l \in {"store", "unlockEnd", "complete"},
             rot' = [rot EXCEPT ![r].pc = l, ![r].read = FALSE, ![r].row = Row0]
      PROVE  CoreType'
  <2> DEFINE y == [rot[r] EXCEPT !.pc = l, !.read = FALSE, !.row = Row0]
  <2>1. rot' = [rot EXCEPT ![r] = y]
    BY <1>4 DEF TypeInv, TypeOK
  <2>2. Row0 \in Rows
    BY KmsAssumption DEF Row0, Rows, Keys
  <2>3. y \in Executions
    BY <1>1, <2>2 DEF Executions, PCs, Updates, Held
  <2>4. ExecShape(y)
    BY <1>1, <2>3 DEF ExecShape, Executions, Chosen, Writing, Updates
  <2>5. QED BY <1>1, <2>1, <2>3, <2>4, RotStep DEF TypeInv, TypeOK, poolVars
<1>5. QED BY <1>2, <1>3, <1>4 DEF FailUpdate

\* The pools to migrate.
LEMMA BatchType ==
    ASSUME TypeInv, NEW r \in Rotations, Batch(r) PROVE CoreType'
<1>1. LockTypeOK' /\ UNCHANGED <<sa, gcp, created, poolVars>>
  BY DEF TypeInv, TypeOK, Batch, lockVars, LockTypeOK
<1>2. CASE End(r)
  BY <1>1, <1>2, EndType DEF TypeInv, TypeOK
<1>3. CASE ~End(r)
  <2> DEFINE t == {p \in Pools : pool[p] \in {"READY", "ERROR"}}
             y == [rot[r] EXCEPT !.pc = "migrate", !.todo = t]
  <2>1. rot' = [rot EXCEPT ![r] = y] /\ rot[r] \in Executions /\ ExecShape(rot[r])
    BY <1>3 DEF TypeInv, TypeOK, Batch
  <2>2. t \in SUBSET Pools
    OBVIOUS
  <2> HIDE DEF t
  <2>3. y \in Executions
    BY <2>1, <2>2 DEF Executions, PCs, Updates, Held
  <2>4. ExecShape(y)
    BY <2>1, <2>3 DEF ExecShape, Executions, Chosen, Writing, At, Batch
  <2>5. QED BY <1>1, <2>1, <2>3, <2>4, RotStep DEF TypeInv, TypeOK, poolVars
<1>4. QED BY <1>2, <1>3

\* The pool is done with.
LEMMA SkipPoolType ==
    ASSUME TypeInv, NEW r \in Rotations, NEW p \in Pools, SkipPool(r, p)
    PROVE  CoreType'
<1> DEFINE y == [rot[r] EXCEPT !.todo = @ \ {p}]
<1>1. rot' = [rot EXCEPT ![r] = y] /\ rot[r] \in Executions /\ ExecShape(rot[r])
  BY DEF TypeInv, TypeOK, SkipPool
<1>2. y \in Executions
  BY <1>1, KeyFacts DEF TypeInv, TypeOK, Executions, PCs, Updates, Held
<1>3. ExecShape(y)
  BY <1>1, <1>2
     DEF ExecShape, Executions, Chosen, Writing, At, TypeInv, TypeOK, SkipPool
<1>4. QED BY <1>1, <1>2, <1>3, RotStep
             DEF TypeInv, TypeOK, SkipPool, lockVars, poolVars, LockTypeOK

\* The key of the pool changes, or it is done with.
LEMMA ModifyKmsType ==
    ASSUME TypeInv, NEW r \in Rotations, NEW p \in Pools, ModifyKms(r, p)
    PROVE  CoreType'
<1>1. /\ rot[r] \in Executions /\ ExecShape(rot[r]) /\ rot[r].pc = "migrate"
      /\ LockTypeOK' /\ UNCHANGED <<sa, gcp, created, pool, tracked, seen, copy>>
  BY DEF TypeInv, TypeOK, ModifyKms, At, lockVars, LockTypeOK
<1>2. ontap' \in [Pools -> AnyKey]
  BY <1>1, KeyFacts DEF TypeInv, TypeOK, ModifyKms, Executions
<1>3. \E y \in Executions : ExecShape(y) /\ rot' = [rot EXCEPT ![r] = y]
  <2>1. CASE rot' = [rot EXCEPT ![r].pc = "verify", ![r].at = p]
    <3> DEFINE y == [rot[r] EXCEPT !.pc = "verify", !.at = p]
    <3>1. rot' = [rot EXCEPT ![r] = y]
      BY <2>1 DEF TypeInv, TypeOK
    <3>2. y \in Executions
      BY <1>1 DEF Executions, PCs
    <3>3. ExecShape(y)
      BY <1>1, <3>2 DEF ExecShape, Executions, Chosen, Writing
    <3>4. QED BY <3>1, <3>2, <3>3
  <2>2. CASE rot' = [rot EXCEPT ![r].todo = @ \ {p}, ![r].failed = TRUE]
    <3> DEFINE y == [rot[r] EXCEPT !.todo = @ \ {p}, !.failed = TRUE]
    <3>1. rot' = [rot EXCEPT ![r] = y]
      BY <2>2 DEF TypeInv, TypeOK
    <3>2. y \in Executions
      BY <1>1 DEF Executions
    <3>3. ExecShape(y)
      BY <1>1, <3>2 DEF ExecShape, Executions
    <3>4. QED BY <3>1, <3>2, <3>3
  <2>3. QED BY <2>1, <2>2 DEF ModifyKms
<1>4. QED BY <1>1, <1>2, <1>3, RotStep DEF TypeInv, TypeOK

\* The pool is tracked or not.
LEMMA ReachableType ==
    ASSUME TypeInv, NEW r \in Rotations, Reachable(r) PROVE CoreType'
<1> DEFINE y == [rot[r] EXCEPT !.pc = "migrate", !.at = None,
                               !.todo = @ \ {rot[r].at}]
<1>1. rot' = [rot EXCEPT ![r] = y] /\ rot[r] \in Executions /\ ExecShape(rot[r])
  BY DEF TypeInv, TypeOK, Reachable
<1>2. y \in Executions
  BY <1>1 DEF Executions, PCs
<1>3. ExecShape(y)
  BY <1>1, <1>2 DEF ExecShape, Executions, Chosen, Writing, At, Reachable
<1>4. tracked' \in [Pools -> AnyKey]
  BY <1>1, KeyFacts DEF TypeInv, TypeOK, Reachable, Executions
<1>5. QED BY <1>1, <1>2, <1>3, <1>4, RotStep
          DEF TypeInv, TypeOK, Reachable, lockVars, poolVars, LockTypeOK

\* The old key is restored or not.
LEMMA UnreachableType ==
    ASSUME TypeInv, NEW r \in Rotations, Unreachable(r) PROVE CoreType'
<1> DEFINE y == [rot[r] EXCEPT !.pc = "migrate", !.at = None,
                               !.todo = @ \ {rot[r].at}, !.failed = TRUE]
<1>1. rot' = [rot EXCEPT ![r] = y] /\ rot[r] \in Executions /\ ExecShape(rot[r])
  BY DEF TypeInv, TypeOK, Unreachable
<1>2. y \in Executions
  BY <1>1 DEF Executions, PCs
<1>3. ExecShape(y)
  BY <1>1, <1>2 DEF ExecShape, Executions, Chosen, Writing, At, Unreachable
<1>4. ontap' \in [Pools -> AnyKey]
  BY <1>1, KeyFacts DEF TypeInv, TypeOK, Unreachable, Executions
<1>5. QED BY <1>1, <1>2, <1>3, <1>4, RotStep
          DEF TypeInv, TypeOK, Unreachable, lockVars, poolVars, LockTypeOK

\* The workflow goes on or ends.
LEMMA MigrationsDoneType ==
    ASSUME TypeInv, NEW r \in Rotations, MigrationsDone(r) PROVE CoreType'
<1>1. LockTypeOK' /\ UNCHANGED <<sa, gcp, created, poolVars>>
  BY DEF TypeInv, TypeOK, MigrationsDone, lockVars, LockTypeOK
<1>2. CASE End(r)
  BY <1>1, <1>2, EndType DEF TypeInv, TypeOK
<1>3. CASE Goto(r, "complete")
  BY <1>1, <1>3, GotoType
     DEF TypeInv, TypeOK, MigrationsDone, At, PCs, Updates, Held, Chosen, Writing
<1>4. QED BY <1>2, <1>3 DEF MigrationsDone

\* The same.
LEMMA CompleteType ==
    ASSUME TypeInv, NEW r \in Rotations, Complete(r) PROVE CoreType'
<1>1. LockTypeOK' /\ UNCHANGED <<sa, gcp, created, poolVars>>
  BY DEF TypeInv, TypeOK, Complete, lockVars, LockTypeOK
<1>2. CASE End(r)
  BY <1>1, <1>2, EndType DEF TypeInv, TypeOK
<1>3. CASE Goto(r, "list") \/ Goto(r, "setPrimary")
  BY <1>1, <1>3, GotoType
     DEF TypeInv, TypeOK, Complete, At, PCs, Updates, Held, Chosen, Writing
<1>4. QED BY <1>2, <1>3 DEF Complete

\* The keys of the row that are marked.
LEMMA ListMarkedType ==
    ASSUME TypeInv, NEW r \in Rotations, ListMarked(r) PROVE CoreType'
<1> DEFINE y == [rot[r] EXCEPT !.pc = "delete", !.dels = Marked]
<1>1. rot' = [rot EXCEPT ![r] = y] /\ rot[r] \in Executions /\ ExecShape(rot[r])
  BY DEF TypeInv, TypeOK, ListMarked
<1>2. y \in Executions
  BY <1>1, KeyFacts
     DEF TypeInv, TypeOK, Executions, PCs, Updates, Held, Rows, Marked
<1>3. ExecShape(y)
  BY <1>1, <1>2
     DEF ExecShape, Executions, Chosen, Writing, At, TypeInv, TypeOK, ListMarked
<1>4. QED BY <1>1, <1>2, <1>3, RotStep
             DEF TypeInv, TypeOK, ListMarked, lockVars, poolVars, LockTypeOK

\* A key that is deleted is still to be removed from the row.
LEMMA DeleteKeyType ==
    ASSUME TypeInv, NEW r \in Rotations, DeleteKey(r) PROVE CoreType'
<1>1. /\ LockTypeOK' /\ UNCHANGED <<sa, created, poolVars>> /\ gcp' \subseteq Keys
      /\ rot[r] \in Executions /\ ExecShape(rot[r]) /\ rot[r].pc = "delete"
  BY DEF TypeInv, TypeOK, DeleteKey, At, lockVars, LockTypeOK
<1>2. CASE End(r)
  BY <1>1, <1>2, EndType DEF TypeInv, TypeOK
<1>3. CASE rot[r].dels # {} /\ Goto(r, "remove")
  BY <1>1, <1>3, GotoType
     DEF TypeInv, TypeOK, At, PCs, Updates, Held, Chosen, Writing
<1>4. CASE rot' = [rot EXCEPT ![r].pc = "list", ![r].dels = {}]
  <2> DEFINE y == [rot[r] EXCEPT !.pc = "list", !.dels = {}]
  <2>1. rot' = [rot EXCEPT ![r] = y]
    BY <1>4 DEF TypeInv, TypeOK
  <2>2. y \in Executions
    BY <1>1 DEF Executions, PCs
  <2>3. ExecShape(y)
    BY <1>1, <2>2 DEF ExecShape, Executions, Chosen, Writing
  <2>4. QED BY <1>1, <2>1, <2>2, <2>3, RotStep DEF TypeInv, TypeOK, poolVars
<1>5. QED BY <1>2, <1>3, <1>4 DEF DeleteKey

\* An activity of an execution.
LEMMA ActivityType ==
    ASSUME TypeInv, NEW r \in Rotations, Activity(r) PROVE CoreType'
BY LockRotationType, ReuseKeyType, RefuseKeyType, CreateKeyType, StoreNewKeyType,
   UnlockRotationType, ReadRowType, SaveRowType, FailUpdateType, BatchType,
   SkipPoolType, ModifyKmsType, ReachableType, UnreachableType,
   MigrationsDoneType, CompleteType, ListMarkedType, DeleteKeyType DEF Activity

\* The history is what it should be.
HistoryType == /\ fate \in [Rotations -> {"running", "late", "over"}]
               /\ starts \in 0 .. MaxStarts
               /\ alone \in Rotations \cup {None}
               /\ disturbed \in BOOLEAN

\* The two parts make the whole.
LEMMA TypeParts == ASSUME CoreType', HistoryType' PROVE TypeInv'
BY DEF TypeInv, TypeOK, CoreType, HistoryType

\* A step of an execution.
LEMMA RotationType ==
    ASSUME TypeInv, NEW r \in Rotations, Rotation(r) PROVE TypeInv'
<1>1. CoreType'
  BY ValidateType, ActivityType DEF Rotation
<1>2. HistoryType'
  <2>1. /\ fate' \in [Rotations -> {"running", "late", "over"}]
    BY DEF TypeInv, TypeOK, Rotation
  <2>2. starts' \in 0 .. MaxStarts
    BY KmsAssumption DEF TypeInv, TypeOK, Rotation, Validate, history
  <2>3. alone' \in Rotations \cup {None}
    BY DEF TypeInv, TypeOK, Rotation, Validate, history
  <2>4. disturbed' \in BOOLEAN
    <3>1. CASE Validate(r)
      BY <3>1 DEF TypeInv, TypeOK, Validate
    <3>2. CASE UNCHANGED history
      BY <3>2 DEF TypeInv, TypeOK, history
    <3>3. QED BY <3>1, <3>2 DEF Rotation
  <2>5. QED BY <2>1, <2>2, <2>3, <2>4 DEF HistoryType
<1>3. QED BY <1>1, <1>2, TypeParts

\* The workflow is closed, and its last activity ends.
LEMMA CrashType ==
    ASSUME TypeInv, NEW r \in Rotations, Crash(r) \/ Gone(r) PROVE TypeInv'
<1>1. CASE Crash(r)
  BY <1>1 DEF TypeInv, TypeOK, Crash, lockVars, LockTypeOK, poolVars, history,
         PoolKey
<1>2. CASE Gone(r)
  <2>1. CoreType'
    BY <1>2, EndType DEF TypeInv, TypeOK, Gone, lockVars, LockTypeOK
  <2>2. HistoryType'
    BY <1>2 DEF TypeInv, TypeOK, Gone, history, HistoryType
  <2>3. QED BY <2>1, <2>2, TypeParts
<1>3. QED BY <1>1, <1>2

\* The attempt moves, and the activity starts again with what it was given.
LEMMA TimeoutType ==
    ASSUME TypeInv, NEW r \in Rotations, NEW s \in Rotations \ {r}, Timeout(r, s)
    PROVE  TypeInv'
<1> DEFINE x == rot[r]
           y == [x EXCEPT !.pc = FirstStep(x.pc), !.read = FALSE, !.row = Row0,
                          !.at = None, !.dels = {}]
<1>1. x \in Executions /\ ExecShape(x) /\ x.pc # "idle" /\ x.pc \in PCs
  BY DEF TypeInv, TypeOK, Timeout, At, Executions
<1>2. /\ FirstStep(x.pc) \in PCs /\ FirstStep(x.pc) \notin Writing
      /\ FirstStep(x.pc) \notin {"idle", "remove", "verify"}
      /\ FirstStep(x.pc) \in Chosen => x.pc \in Chosen
  BY <1>1 DEF FirstStep, PCs, Updates, Held, Writing, Chosen
<1>3. Row0 \in Rows
  BY KmsAssumption DEF Row0, Rows, Keys
<1>4. y \in Executions
  BY <1>1, <1>2, <1>3 DEF Executions
<1>5. ExecShape(y)
  BY <1>1, <1>2, <1>4 DEF ExecShape, Executions
<1>6. rot' = [rot EXCEPT ![s] = x, ![r] = y]
  BY DEF Timeout, TypeInv, TypeOK
<1> HIDE DEF y
<1>7. /\ rot' \in [Rotations -> Executions]
      /\ \A t \in Rotations : ExecShape(rot'[t])
  BY <1>1, <1>4, <1>5, <1>6 DEF TypeInv, TypeOK
<1>8. CoreType'
  BY <1>7 DEF Timeout, TypeInv, TypeOK, CoreType, lockVars, LockTypeOK, poolVars,
         PoolKey
<1>9. HistoryType'
  BY KmsAssumption DEF Timeout, TypeInv, TypeOK, HistoryType, Disturb
<1>10. QED BY <1>8, <1>9, TypeParts

\* The steps of a pool.
LEMMA PoolType ==
    ASSUME TypeInv, NEW p \in Pools, Pool(p), UNCHANGED <<rot, fate>>
    PROVE  TypeInv'
<1> USE DEF Pool, CreatePool, VerifyKey, CheckPresent, Resync, Recreate, CopyRow,
            SaveCopy, FailCopy, VerifyReachability, LockPool, ReadPassword,
            ConfigureKms, UnlockPool, CheckReachable, PoolFails, DeletePool
<1>1. LockTypeOK'
  BY LockTypes, KmsAssumption DEF TypeInv, TypeOK
<1>2. pool' \in [Pools -> PoolStates]
  BY DEF TypeInv, TypeOK, PoolStep, PoolStates, Creating
<1>3. ontap' \in [Pools -> AnyKey] /\ seen' \in [Pools -> AnyKey]
  <2>1. created < MaxKey => created + 1 \in AnyKey
    BY KmsAssumption DEF TypeInv, TypeOK, Keys, AnyKey, NoKey
  <2>2. QED BY <2>1, KeyFacts DEF TypeInv, TypeOK, Rows
<1>4. gcp' \subseteq Keys /\ created' \in Keys
  BY KmsAssumption DEF TypeInv, TypeOK, Keys
<1>5. copy' \in [Pools -> Rows \cup {None}]
  <2>1. pool[p] = "keyRead" => [sa EXCEPT !.pw = seen[p]] \in Rows
    BY DEF TypeInv, TypeOK, PoolKey, Rows
  <2>2. QED BY <2>1 DEF TypeInv, TypeOK
<1>6. sa' \in Rows
  <2>1. copy[p] # None => copy[p] \in Rows
    BY DEF TypeInv, TypeOK
  <2>2. copy[p] # None => [sa EXCEPT !.pw = copy[p].pw] \in Rows
    BY <2>1 DEF TypeInv, TypeOK, Rows
  <2>3. QED BY <2>1, <2>2 DEF TypeInv, TypeOK
<1>p. PoolKey'
  <2>1. \A q \in Pools \ {p} : pool'[q] = pool[q] /\ seen'[q] = seen[q]
    BY DEF TypeInv, TypeOK, PoolStep
  <2>2. pool'[p] = "keyRead" => seen'[p] \in Keys
    BY <1>4 DEF TypeInv, TypeOK, PoolStep, PoolKey
  <2>3. QED BY <2>1, <2>2 DEF PoolKey, TypeInv
<1>7. UNCHANGED tracked
  OBVIOUS
<1>8. CoreType'
  BY <1>1, <1>2, <1>3, <1>4, <1>5, <1>6, <1>7, <1>p, PoolFrame
<1>9. HistoryType'
  <2>1. UNCHANGED history \/ (Disturb /\ UNCHANGED starts)
    BY DEF history
  <2>2. QED BY <2>1 DEF TypeInv, TypeOK, HistoryType, history, Disturb
<1>10. QED BY <1>8, <1>9, TypeParts

\* The lease runs out or is renewed.
LEMMA LeaseType ==
    ASSUME TypeInv, LoseLease \/ \E c \in Clients : RenewLease(c) PROVE TypeInv'
BY DEF TypeInv, TypeOK, LockTypeOK, LoseLease, Expire, RenewLease, Renew, poolVars,
       history, PoolKey

\* The invariant holds initially ...
LEMMA InitType == Init => TypeInv
<1>1. Init => \A r \in Rotations : rot[r] = Idle
  BY DEF Init
<1>2. Init => TypeOK
  <2> SUFFICES ASSUME Init PROVE TypeOK
    OBVIOUS
  <2>1. 0 \in Keys
    BY KmsAssumption DEF Keys
  <2>2. LockTypeOK
    BY DEF Init, LockInit, LockTypeOK
  <2>3. sa \in Rows
    BY <2>1 DEF Init, Row0, Rows
  <2>4. rot \in [Rotations -> Executions]
    BY IdleExec DEF Init
  <2>5. pool \in [Pools -> PoolStates]
    BY DEF Init, PoolStates
  <2>6. /\ starts \in 0 .. MaxStarts
        /\ fate \in [Rotations -> {"running", "late", "over"}]
    BY KmsAssumption DEF Init
  <2>7. QED BY <2>1, <2>2, <2>3, <2>4, <2>5, <2>6, KeyFacts DEF Init, TypeOK
<1>3. Init => PoolKey
  BY DEF Init, PoolKey
<1>4. QED BY <1>1, <1>2, <1>3, IdleExec DEF TypeInv

\* ... and every step keeps it.
LEMMA NextType == ASSUME TypeInv, [Next]_vars PROVE TypeInv'
<1>1. CASE \E r \in Rotations : Rotation(r) \/ Crash(r) \/ Gone(r)
  BY <1>1, RotationType, CrashType
<1>t. CASE \E r \in Rotations : \E s \in Rotations \ {r} : Timeout(r, s)
  BY <1>t, TimeoutType
<1>2. CASE \E p \in Pools : Pool(p) /\ UNCHANGED <<rot, fate>>
  BY <1>2, PoolType
<1>3. CASE LoseLease \/ \E c \in Clients : RenewLease(c)
  BY <1>3, LeaseType
<1>4. CASE UNCHANGED vars
  BY <1>4 DEF vars, lockVars, poolVars, history, TypeInv, TypeOK, LockTypeOK,
         PoolKey
<1>5. QED BY <1>1, <1>t, <1>2, <1>3, <1>4 DEF Next

LEMMA TypeInvariance == Spec => []TypeInv
BY InitType, NextType, PTL DEF Spec

\* However many rotations and pool creations overlap, and whatever fails, the row
\* of the service account, the keys and the pools keep their types: in particular
\* every step finds the keys it was handed by an earlier one.
THEOREM TypeCorrect == Spec => []TypeOK
<1>1. TypeInv => TypeOK
  BY DEF TypeInv
<1>2. QED BY <1>1, TypeInvariance, PTL

-----------------------------------------------------------------------------
(* The row, until somebody gets in the way of a rotation.                  *)

Storing  == {"store", "addOld", "addNew", "setPassword"}
\* The steps after the new key was added to the row.
Recorded == {"setPassword", "unlock", "batch", "migrate", "verify", "complete",
             "setPrimary", "mark", "list", "delete", "remove"}

\* The row between two saves: the password location is an active key as soon as
\* there are keys, active keys exist, one key is primary, and the keys were
\* created in the order of their numbers.
RowShape == /\ sa.data = [k \in Keys |-> k]
            /\ sa.prim \subseteq sa.rec
            /\ sa.act \subseteq sa.rec
            /\ sa.rec = {} \/ sa.pw \in sa.act
            /\ sa.pw \in gcp
            /\ sa.act \subseteq gcp
            /\ \A j, k \in sa.prim : j = k
            /\ \A k \in gcp \cup sa.rec : k <= created

\* What an execution knows of the row: the copy it has read is the row, the key
\* it replaces is the password location until it moves that, its new key is
\* another one, which exists until it is in the row and is active from then on.
\* The old key is marked after the location has moved, and the keys to delete
\* are neither primary nor active.
RotShape(x) ==
  /\ x.read => x.row = sa
  /\ x.pc \in {"acquire", "create"} \cup Storing => x.cur = sa.pw
  /\ x.pc \in Writing => x.old = x.cur
  /\ x.pc \in Chosen => x.data = x.new /\ x.new # x.cur
  /\ x.pc \in Chosen => x.new \notin sa.rec \ sa.act
  /\ x.pc \in Storing => x.new \in gcp
  /\ x.pc = "addOld" => x.cur \notin sa.rec
  /\ x.pc = "addNew" => x.cur \in sa.rec
  /\ x.pc \in Recorded => x.new \in sa.act
  /\ x.pc = "mark" => sa.pw = x.new
  /\ x.pc \in {"delete", "remove"} => x.dels \subseteq Marked

\* One execution is under way.
Single == \A r, s \in Rotations : rot[r] = Idle \/ rot[s] = Idle \/ r = s

KeyInv == /\ TypeInv
          /\ Single
          /\ RowShape
          /\ \A r \in Rotations : RotShape(rot[r])

\* What is to be shown of a step of execution r.
Kept(r) == RowShape /\ RotShape(rot[r])

\* A step that leaves the row and the keys alone.
LEMMA QuietFrame ==
    ASSUME KeyInv, UNCHANGED <<sa, gcp, created>>,
           NEW r \in Rotations, RotShape(rot[r])'
    PROVE  Kept(r)'
BY DEF KeyInv, RowShape, Kept

\* The workflow ends.
LEMMA EndShape ==
    ASSUME TypeInv, NEW r \in Rotations, End(r) PROVE RotShape(rot[r])'
<1>1. rot'[r] = Idle
  BY DEF End, TypeInv, TypeOK
<1>2. QED BY <1>1 DEF Idle, RotShape, Chosen, Writing, Storing, Recorded

\* The workflow goes on, to a step of which nothing more is asked.
LEMMA GotoShape ==
    ASSUME KeyInv, NEW r \in Rotations, NEW l \in PCs, Goto(r, l), UNCHANGED sa,
           l \in {"create", "unlockEnd", "batch", "complete", "setPrimary", "list"},
           l = "create" => rot[r].pc \in {"acquire", "create"},
           l \in Chosen => rot[r].pc \in Recorded
    PROVE  RotShape(rot[r])'
<1> DEFINE y == [rot[r] EXCEPT !.pc = l]
<1>1. rot'[r] = y /\ rot[r] \in Executions /\ RotShape(rot[r])
  BY DEF KeyInv, TypeInv, TypeOK, Goto
<1>2. QED BY <1>1 DEF RotShape, Chosen, Writing, Storing, Recorded, Executions

\* The key to replace is the password location.
LEMMA ValidateKeys ==
    ASSUME KeyInv, NEW r \in Rotations, Validate(r)
    PROVE  Kept(r)'
<1> DEFINE y == [rot[r] EXCEPT !.pc = "acquire", !.cur = sa.pw]
<1>1. rot[r] \in Executions /\ RotShape(rot[r]) /\ sa' = sa /\ gcp' = gcp
  BY DEF KeyInv, TypeInv, TypeOK, Validate
<1>2. rot'[r] = y
  BY DEF KeyInv, TypeInv, TypeOK, Validate
<1>3. /\ rot'[r].pc = "acquire" /\ rot'[r].read = rot[r].read
      /\ rot'[r].row = rot[r].row /\ rot'[r].cur = sa.pw
      /\ rot'[r].old = rot[r].old /\ rot'[r].new = rot[r].new
      /\ rot'[r].data = rot[r].data /\ rot'[r].dels = rot[r].dels
  BY <1>1, <1>2 DEF Executions
<1>4. RotShape(rot[r])'
  BY <1>1, <1>3
     DEF Validate, At, RotShape, Chosen, Writing, Storing, Recorded
<1>6. QED BY <1>4, QuietFrame DEF Validate

\* The lock does not matter.
LEMMA LockRotationKeys ==
    ASSUME KeyInv, NEW r \in Rotations, LockRotation(r)
    PROVE  Kept(r)'
<1>1. RotShape(rot[r])'
  BY GotoShape, EndShape
     DEF KeyInv, LockRotation, At, PCs, Updates, Held, Chosen
<1>3. QED BY <1>1, QuietFrame DEF LockRotation

\* The key is active, and not the one to replace.
LEMMA ReuseKeyKeys ==
    ASSUME KeyInv, NEW r \in Rotations, ReuseKey(r)
    PROVE  Kept(r)'
<1>0. PICK k \in NewKeys(r) :
          rot' = [rot EXCEPT ![r].pc = "store", ![r].new = k,
                             ![r].data = sa.data[k]]
  BY DEF ReuseKey
<1>k. k \in sa.act /\ k # rot[r].cur /\ sa.data[k] = k /\ k \in gcp
  BY DEF NewKeys, KeyInv, TypeInv, TypeOK, Rows, RowShape
<1> DEFINE y == [rot[r] EXCEPT !.pc = "store", !.new = k, !.data = sa.data[k]]
<1>1. rot[r] \in Executions /\ RotShape(rot[r]) /\ sa' = sa /\ gcp' = gcp
  BY DEF KeyInv, TypeInv, TypeOK, ReuseKey
<1>2. rot'[r] = y
  BY <1>0, <1>k DEF KeyInv, TypeInv, TypeOK, ReuseKey
<1>3. /\ rot'[r].pc = "store" /\ rot'[r].read = rot[r].read
      /\ rot'[r].row = rot[r].row /\ rot'[r].cur = rot[r].cur
      /\ rot'[r].old = rot[r].old /\ rot'[r].new = k
      /\ rot'[r].data = sa.data[k] /\ rot'[r].dels = rot[r].dels
  BY <1>1, <1>2 DEF Executions
<1>4. RotShape(rot[r])'
  BY <1>1, <1>3, <1>0, <1>k
     DEF ReuseKey, At, RotShape, Chosen, Writing, Storing, Recorded
<1>6. QED BY <1>4, QuietFrame DEF ReuseKey

\* The lock is released next.
LEMMA RefuseKeyKeys ==
    ASSUME KeyInv, NEW r \in Rotations, RefuseKey(r)
    PROVE  Kept(r)'
<1>1. RotShape(rot[r])'
  BY GotoShape DEF RefuseKey, PCs, Updates, Held, Chosen
<1>3. QED BY <1>1, QuietFrame DEF RefuseKey

\* The key is new to the row.
LEMMA CreateKeyKeys ==
    ASSUME KeyInv, NEW r \in Rotations, CreateKey(r)
    PROVE  Kept(r)'
<1>1. /\ created \in Nat /\ created' = created + 1 /\ gcp' = gcp \cup {created'}
      /\ sa' = sa /\ rot[r].pc = "create"
  BY KmsAssumption DEF CreateKey, KeyInv, TypeInv, TypeOK, Keys, At
<1>2. created' \notin gcp \cup sa.rec
  BY <1>1 DEF KeyInv, RowShape
<1>3. gcp \subseteq Nat /\ sa.rec \subseteq Nat
  BY KmsAssumption DEF KeyInv, TypeInv, TypeOK, Rows, Keys
<1>4. RowShape'
  <2>1. \A k \in gcp \cup sa.rec : k \in Nat /\ k <= created
    BY <1>3 DEF KeyInv, RowShape
  <2>2. \A k \in gcp' \cup sa.rec : k <= created'
    BY <1>1, <2>1
  <2>3. QED BY <1>1, <2>2 DEF KeyInv, RowShape
<1>5. RotShape(rot[r])'
  <2>1. CASE Goto(r, "create") \/ Goto(r, "unlockEnd")
    BY <1>1, <2>1, GotoShape DEF PCs, Updates, Held, Chosen
  <2>2. CASE rot' = [rot EXCEPT ![r].pc = "store", ![r].new = created',
                                ![r].data = created']
    <3> DEFINE y == [rot[r] EXCEPT !.pc = "store", !.new = created',
                                   !.data = created']
    <3>1. rot'[r] = y /\ rot[r] \in Executions /\ RotShape(rot[r])
      BY <2>2 DEF KeyInv, TypeInv, TypeOK
    <3>2. rot[r].cur \in gcp
      BY <1>1, <3>1 DEF RotShape, KeyInv, RowShape
    <3>3. QED BY <1>1, <1>2, <3>1, <3>2
              DEF RotShape, Chosen, Writing, Storing, Recorded, Executions
  <2>3. QED BY <2>1, <2>2 DEF CreateKey
<1>7. QED BY <1>4, <1>5 DEF Kept

\* A key that is in the row already is active.
LEMMA StoreNewKeyKeys ==
    ASSUME KeyInv, NEW r \in Rotations, StoreNewKey(r)
    PROVE  Kept(r)'
<1>1. PICK l \in {"unlock", "addNew", "addOld"} :
         /\ rot' = [rot EXCEPT ![r].old = sa.pw, ![r].pc = l]
         /\ l = "unlock" => rot[r].new \in sa.rec
         /\ l = "addOld" => rot[r].cur \notin sa.rec
         /\ l = "addNew" => rot[r].cur \in sa.rec
  BY DEF StoreNewKey
<1> DEFINE y == [rot[r] EXCEPT !.old = sa.pw, !.pc = l]
<1>2. rot'[r] = y /\ rot[r] \in Executions /\ RotShape(rot[r])
  BY <1>1 DEF KeyInv, TypeInv, TypeOK
<1>3. RotShape(rot[r])'
  BY <1>1, <1>2
     DEF StoreNewKey, At, RotShape, Chosen, Writing, Storing, Recorded, Executions
<1>5. QED BY <1>3, QuietFrame DEF StoreNewKey

\* The workflow goes on or ends.
LEMMA UnlockRotationKeys ==
    ASSUME KeyInv, NEW r \in Rotations, UnlockRotation(r)
    PROVE  Kept(r)'
<1>1. RotShape(rot[r])'
  BY GotoShape, EndShape
     DEF KeyInv, UnlockRotation, At, PCs, Updates, Held, Chosen, Recorded
<1>3. QED BY <1>1, QuietFrame DEF UnlockRotation

\* The copy is the row.
LEMMA ReadRowKeys ==
    ASSUME KeyInv, NEW r \in Rotations, ReadRow(r)
    PROVE  Kept(r)'
<1> DEFINE y == [rot[r] EXCEPT !.read = TRUE, !.row = sa]
<1>1. rot[r] \in Executions /\ RotShape(rot[r]) /\ sa' = sa /\ gcp' = gcp
  BY DEF KeyInv, TypeInv, TypeOK, ReadRow
<1>2. rot'[r] = y
  BY DEF KeyInv, TypeInv, TypeOK, ReadRow
<1>3. /\ rot'[r].pc = rot[r].pc /\ rot'[r].read = TRUE
      /\ rot'[r].row = sa /\ rot'[r].cur = rot[r].cur
      /\ rot'[r].old = rot[r].old /\ rot'[r].new = rot[r].new
      /\ rot'[r].data = rot[r].data /\ rot'[r].dels = rot[r].dels
  BY <1>1, <1>2 DEF Executions
<1>4. RotShape(rot[r])'
  BY <1>1, <1>3
     DEF ReadRow, At, RotShape, Chosen, Writing, Storing, Recorded, Updates, Marked
<1>6. QED BY <1>4, QuietFrame DEF ReadRow

-----------------------------------------------------------------------------
(* The functions of service_account.go.                                    *)

\* What Continued leaves alone.
LEMMA ContinuedParts ==
    ASSUME NEW x \in Executions, x.pc \in Updates
    PROVE  /\ ~Continued(x).read /\ Continued(x).pc = NextPC[x.pc]
           /\ Continued(x).cur = x.cur /\ Continued(x).old = x.old
           /\ Continued(x).new = x.new /\ Continued(x).data = x.data
           /\ Continued(x).moved <=> x.moved \/ x.pc = "setPassword"
           /\ Continued(x).todo = x.todo
           /\ Continued(x).at = x.at /\ Continued(x).failed = x.failed
           /\ Continued(x).dels = IF x.pc = "remove"
                                  THEN x.dels \ {Min(x.dels)} ELSE x.dels
<1> DEFINE m == x.moved \/ x.pc = "setPassword"
<1>1. Continued(x) =
        [x EXCEPT !.read = FALSE, !.row = Row0, !.moved = m,
                  !.dels = IF x.pc = "remove" THEN x.dels \ {Min(x.dels)} ELSE x.dels,
                  !.pc = NextPC[x.pc]]
  BY ContinuedForm
<1>2. m \in BOOLEAN
  OBVIOUS
<1> HIDE DEF m
<1>3. Continued(x).moved = m
  BY <1>1, <1>2 DEF Executions
<1>4. Continued(x).moved <=> m
  BY <1>2, <1>3
<1>5. QED BY <1>1, <1>4 DEF Executions, m

\* The execution after a save, or after an update that failed and is ignored.
LEMMA ContinuedFields ==
    ASSUME TypeInv, NEW r \in Rotations, rot[r].pc \in Updates,
           rot' = [rot EXCEPT ![r] = Continued(rot[r])]
    PROVE  /\ ~rot'[r].read /\ rot'[r].pc = NextPC[rot[r].pc]
           /\ rot'[r].cur = rot[r].cur /\ rot'[r].old = rot[r].old
           /\ rot'[r].new = rot[r].new /\ rot'[r].data = rot[r].data
           /\ rot'[r].moved <=> rot[r].moved \/ rot[r].pc = "setPassword"
           /\ rot'[r].todo = rot[r].todo
           /\ rot'[r].at = rot[r].at /\ rot'[r].failed = rot[r].failed
           /\ rot'[r].dels = IF rot[r].pc = "remove"
                             THEN rot[r].dels \ {Min(rot[r].dels)}
                             ELSE rot[r].dels
<1>1. rot[r] \in Executions /\ rot'[r] = Continued(rot[r])
  BY DEF TypeInv, TypeOK
<1>2. QED BY <1>1, ContinuedParts

\* The first save of a row: the array is empty, the old key becomes primary.
LEMMA AddOldKeys ==
    ASSUME KeyInv, NEW r \in Rotations, SaveRow(r), rot[r].pc = "addOld"
    PROVE  RowShape' /\ RotShape(rot[r])'
<1> DEFINE x == rot[r]
<1>1. /\ x \in Executions /\ ExecShape(x) /\ RotShape(x) /\ x.row = sa
      /\ sa \in Rows /\ gcp' = gcp /\ created' = created
  BY DEF KeyInv, TypeInv, TypeOK, SaveRow, RotShape
<1>2. sa' = WithKey(sa, x.cur, x.old, TRUE)
  BY <1>1 DEF SaveRow, Saved
<1>3. /\ ~rot'[r].read /\ rot'[r].pc = "addNew"
      /\ rot'[r].cur = x.cur /\ rot'[r].old = x.old
      /\ rot'[r].new = x.new /\ rot'[r].data = x.data
  <2>1. x.pc \in Updates /\ rot' = [rot EXCEPT ![r] = Continued(x)]
    BY DEF SaveRow
  <2>2. NextPC[x.pc] = "addNew"
    BY DEF NextPC
  <2>3. QED BY <2>1, <2>2, ContinuedFields DEF KeyInv
<1>4. x.cur = sa.pw /\ x.old = x.cur /\ x.cur \in Keys /\ x.new # x.cur
  BY <1>1 DEF RotShape, ExecShape, Chosen, Writing, Storing
<1>5. sa.rec = {} /\ sa.prim = {} /\ sa.act = {}
  BY <1>1, <1>4 DEF RotShape, KeyInv, RowShape
<1>6. /\ sa'.rec = {x.cur} /\ sa'.act = {x.cur} /\ sa'.prim = {x.cur}
      /\ sa'.pw = sa.pw /\ sa'.data = [sa.data EXCEPT ![x.cur] = x.cur]
  BY <1>1, <1>2, <1>4, <1>5 DEF WithKey, Rows
<1>7. x.cur <= created /\ sa'.data = [k \in Keys |-> k]
  BY <1>4, <1>6 DEF KeyInv, RowShape
<1>8. RowShape'
  BY <1>1, <1>4, <1>6, <1>7 DEF KeyInv, RowShape
<1>9. RotShape(rot[r])'
  BY <1>1, <1>2, <1>3, <1>4, <1>6 DEF RotShape, Chosen, Writing, Storing, Recorded
<1> QED BY <1>8, <1>9

\* The new key becomes active.
LEMMA AddNewKeys ==
    ASSUME KeyInv, NEW r \in Rotations, SaveRow(r), rot[r].pc = "addNew"
    PROVE  RowShape' /\ RotShape(rot[r])'
<1> DEFINE x == rot[r]
<1>1. /\ x \in Executions /\ ExecShape(x) /\ RotShape(x) /\ x.row = sa
      /\ sa \in Rows /\ gcp' = gcp /\ created' = created
  BY DEF KeyInv, TypeInv, TypeOK, SaveRow, RotShape
<1>2. sa' = WithKey(sa, x.new, x.data, FALSE)
  BY <1>1 DEF SaveRow, Saved
<1>3. /\ ~rot'[r].read /\ rot'[r].pc = "setPassword"
      /\ rot'[r].cur = x.cur /\ rot'[r].old = x.old
      /\ rot'[r].new = x.new /\ rot'[r].data = x.data
  <2>1. x.pc \in Updates /\ rot' = [rot EXCEPT ![r] = Continued(x)]
    BY DEF SaveRow
  <2>2. NextPC[x.pc] = "setPassword"
    BY DEF NextPC
  <2>3. QED BY <2>1, <2>2, ContinuedFields DEF KeyInv
<1>4. /\ x.data = x.new /\ x.new \in Keys /\ x.new \in gcp /\ x.cur = sa.pw
      /\ x.old = x.cur /\ x.new # x.cur
  BY <1>1 DEF RotShape, ExecShape, Chosen, Writing, Storing
<1>5. /\ sa'.rec = sa.rec \cup {x.new} /\ sa'.act = sa.act \cup {x.new}
      /\ sa'.prim = sa.prim /\ sa'.pw = sa.pw
      /\ sa'.data = [sa.data EXCEPT ![x.new] = x.new]
  BY <1>1, <1>2, <1>4 DEF WithKey, Rows
<1>6. x.cur \in sa.act
  BY <1>1, <1>4 DEF RotShape, KeyInv, RowShape
<1>7. x.new <= created /\ sa'.data = [k \in Keys |-> k]
  BY <1>4, <1>5 DEF KeyInv, RowShape
<1>8. RowShape'
  BY <1>1, <1>4, <1>5, <1>6, <1>7 DEF KeyInv, RowShape
<1>9. RotShape(rot[r])'
  BY <1>1, <1>2, <1>3, <1>4, <1>5 DEF RotShape, Chosen, Writing, Storing, Recorded
<1> QED BY <1>8, <1>9

\* The password location moves to an active key.
LEMMA SetPasswordKeys ==
    ASSUME KeyInv, NEW r \in Rotations, SaveRow(r), rot[r].pc = "setPassword"
    PROVE  RowShape' /\ RotShape(rot[r])'
<1> DEFINE x == rot[r]
<1>1. /\ x \in Executions /\ ExecShape(x) /\ RotShape(x) /\ x.row = sa
      /\ sa \in Rows /\ gcp' = gcp /\ created' = created
  BY DEF KeyInv, TypeInv, TypeOK, SaveRow, RotShape
<1>2. sa' = [sa EXCEPT !.pw = x.data]
  BY <1>1 DEF SaveRow, Saved
<1>3. /\ ~rot'[r].read /\ rot'[r].pc = "unlock"
      /\ rot'[r].cur = x.cur /\ rot'[r].old = x.old
      /\ rot'[r].new = x.new /\ rot'[r].data = x.data
  <2>1. x.pc \in Updates /\ rot' = [rot EXCEPT ![r] = Continued(x)]
    BY DEF SaveRow
  <2>2. NextPC[x.pc] = "unlock"
    BY DEF NextPC
  <2>3. QED BY <2>1, <2>2, ContinuedFields DEF KeyInv
<1>4. x.data = x.new /\ x.new \in sa.act
  BY <1>1 DEF RotShape, Chosen, Recorded
<1>5. /\ sa'.rec = sa.rec /\ sa'.act = sa.act /\ sa'.prim = sa.prim
      /\ sa'.pw = x.new /\ sa'.data = sa.data
  BY <1>1, <1>2, <1>4 DEF Rows
<1>8. RowShape'
  BY <1>1, <1>4, <1>5 DEF KeyInv, RowShape
<1>9. RotShape(rot[r])'
  BY <1>1, <1>2, <1>3, <1>4, <1>5 DEF RotShape, Chosen, Writing, Storing, Recorded
<1> QED BY <1>8, <1>9

\* The password location moves with the primary key.
LEMMA SetPrimaryKeys ==
    ASSUME KeyInv, NEW r \in Rotations, SaveRow(r), rot[r].pc = "setPrimary"
    PROVE  RowShape' /\ RotShape(rot[r])'
<1> DEFINE x == rot[r]
<1>1. /\ x \in Executions /\ ExecShape(x) /\ RotShape(x) /\ x.row = sa
      /\ sa \in Rows /\ gcp' = gcp /\ created' = created
  BY DEF KeyInv, TypeInv, TypeOK, SaveRow, RotShape
<1>2. sa' = WithPrimary(sa, x.new)
  BY <1>1 DEF SaveRow, Saved
<1>3. /\ ~rot'[r].read /\ rot'[r].pc = "mark"
      /\ rot'[r].cur = x.cur /\ rot'[r].old = x.old
      /\ rot'[r].new = x.new /\ rot'[r].data = x.data
  <2>1. x.pc \in Updates /\ rot' = [rot EXCEPT ![r] = Continued(x)]
    BY DEF SaveRow
  <2>2. NextPC[x.pc] = "mark"
    BY DEF NextPC
  <2>3. QED BY <2>1, <2>2, ContinuedFields DEF KeyInv
<1>4. x.data = x.new /\ x.new \in sa.act /\ x.new \in Keys /\ x.new # x.cur
  BY <1>1 DEF RotShape, ExecShape, Chosen, Recorded
<1>5. /\ sa'.rec = sa.rec /\ sa'.act = sa.act /\ sa'.prim = {x.new}
      /\ sa'.pw = x.new /\ sa'.data = sa.data
  BY <1>1, <1>2, <1>4 DEF WithPrimary, Rows, KeyInv, RowShape
<1>8. RowShape'
  BY <1>1, <1>4, <1>5 DEF KeyInv, RowShape
<1>9. RotShape(rot[r])'
  BY <1>1, <1>2, <1>3, <1>4, <1>5 DEF RotShape, Chosen, Writing, Storing, Recorded
<1> QED BY <1>8, <1>9

\* The old key is not the password location any more.
LEMMA MarkKeys ==
    ASSUME KeyInv, NEW r \in Rotations, SaveRow(r), rot[r].pc = "mark"
    PROVE  RowShape' /\ RotShape(rot[r])'
<1> DEFINE x == rot[r]
<1>1. /\ x \in Executions /\ ExecShape(x) /\ RotShape(x) /\ x.row = sa
      /\ sa \in Rows /\ gcp' = gcp /\ created' = created
  BY DEF KeyInv, TypeInv, TypeOK, SaveRow, RotShape
<1>2. sa' = WithMark(sa, x.cur)
  BY <1>1 DEF SaveRow, Saved
<1>3. /\ ~rot'[r].read /\ rot'[r].pc = "list"
      /\ rot'[r].cur = x.cur /\ rot'[r].old = x.old
      /\ rot'[r].new = x.new /\ rot'[r].data = x.data
  <2>1. x.pc \in Updates /\ rot' = [rot EXCEPT ![r] = Continued(x)]
    BY DEF SaveRow
  <2>2. NextPC[x.pc] = "list"
    BY DEF NextPC
  <2>3. QED BY <2>1, <2>2, ContinuedFields DEF KeyInv
<1>4. x.data = x.new /\ x.new \in sa.act /\ x.new # x.cur /\ sa.pw = x.new
  BY <1>1 DEF RotShape, Chosen, Recorded
<1>5. /\ sa'.rec = sa.rec /\ sa'.act = sa.act \ {x.cur}
      /\ sa'.prim = sa.prim \ {x.cur} /\ sa'.pw = sa.pw /\ sa'.data = sa.data
  BY <1>1, <1>2 DEF WithMark, Rows
<1>8. RowShape'
  BY <1>1, <1>4, <1>5 DEF KeyInv, RowShape
<1>9. RotShape(rot[r])'
  BY <1>1, <1>2, <1>3, <1>4, <1>5 DEF RotShape, Chosen, Writing, Storing, Recorded
<1> QED BY <1>8, <1>9

\* A key that is marked is not the password location.
LEMMA RemoveKeys ==
    ASSUME KeyInv, NEW r \in Rotations, SaveRow(r), rot[r].pc = "remove"
    PROVE  RowShape' /\ RotShape(rot[r])'
<1> DEFINE x == rot[r]
<1>1. /\ x \in Executions /\ ExecShape(x) /\ RotShape(x) /\ x.row = sa
      /\ sa \in Rows /\ gcp' = gcp /\ created' = created
  BY DEF KeyInv, TypeInv, TypeOK, SaveRow, RotShape
<1>2. sa' = WithoutKey(sa, Min(x.dels))
  BY <1>1 DEF SaveRow, Saved
<1>3. /\ ~rot'[r].read /\ rot'[r].pc = "delete"
      /\ rot'[r].cur = x.cur /\ rot'[r].old = x.old
      /\ rot'[r].new = x.new /\ rot'[r].data = x.data
  <2>1. x.pc \in Updates /\ rot' = [rot EXCEPT ![r] = Continued(x)]
    BY DEF SaveRow
  <2>2. NextPC[x.pc] = "delete"
    BY DEF NextPC
  <2>3. QED BY <2>1, <2>2, ContinuedFields DEF KeyInv
<1>4. x.data = x.new /\ x.new \in sa.act /\ x.new # x.cur /\ x.dels \subseteq Marked
  BY <1>1 DEF RotShape, Chosen, Recorded
<1>5. rot'[r].dels = x.dels \ {Min(x.dels)}
  BY ContinuedFields DEF KeyInv, SaveRow, Updates
<1>6. Min(x.dels) \in x.dels
  BY <1>1, MinKey DEF ExecShape, Executions
<1>7. /\ sa'.rec = sa.rec \ {Min(x.dels)} /\ sa'.act = sa.act \ {Min(x.dels)}
      /\ sa'.prim = sa.prim \ {Min(x.dels)} /\ sa'.pw = sa.pw /\ sa'.data = sa.data
  BY <1>1, <1>2 DEF WithoutKey, Rows
<1>m. Min(x.dels) \notin sa.act
  BY <1>4, <1>6 DEF Marked
<1>8. RowShape'
  BY <1>1, <1>7, <1>m DEF KeyInv, RowShape
<1>9. RotShape(rot[r])'
  BY <1>1, <1>2, <1>3, <1>4, <1>5, <1>7, <1>m
     DEF RotShape, Chosen, Writing, Storing, Recorded, Marked
<1> QED BY <1>8, <1>9

\* The six functions.
LEMMA SaveRowKeys ==
    ASSUME KeyInv, NEW r \in Rotations, SaveRow(r)
    PROVE  Kept(r)'
<1>1. RowShape' /\ RotShape(rot[r])'
  BY AddOldKeys, AddNewKeys, SetPasswordKeys, SetPrimaryKeys, MarkKeys, RemoveKeys
     DEF SaveRow, Updates
<1>3. QED BY <1>1 DEF Kept

\* A failed update leaves the row as it was; what is tried again starts from
\* what was saved.
LEMMA FailUpdateKeys ==
    ASSUME KeyInv, NEW r \in Rotations, FailUpdate(r)
    PROVE  Kept(r)'
<1> DEFINE x == rot[r]
<1>1. /\ x \in Executions /\ RotShape(x) /\ x.pc \in Updates /\ sa' = sa /\ gcp' = gcp
  BY DEF KeyInv, TypeInv, TypeOK, FailUpdate
<1>2. RotShape(rot[r])'
  <2>1. CASE End(r)
    BY <2>1, EndShape DEF KeyInv
  <2>2. CASE /\ x.pc \in {"mark", "remove"}
             /\ rot' = [rot EXCEPT ![r] = Continued(x)]
    <3>1. /\ ~rot'[r].read
          /\ rot'[r].pc = IF x.pc = "mark" THEN "list" ELSE "delete"
          /\ rot'[r].cur = x.cur /\ rot'[r].new = x.new /\ rot'[r].data = x.data
          /\ x.pc = "remove" => rot'[r].dels \subseteq x.dels
      <4>1. /\ ~rot'[r].read /\ rot'[r].pc = NextPC[x.pc]
            /\ rot'[r].cur = x.cur /\ rot'[r].new = x.new /\ rot'[r].data = x.data
        BY <1>1, <2>2, ContinuedFields DEF KeyInv
      <4>2. x.pc = "remove" => rot'[r].dels = x.dels \ {Min(x.dels)}
        BY <1>1, <2>2, ContinuedFields DEF KeyInv
      <4>3. NextPC[x.pc] = IF x.pc = "mark" THEN "list" ELSE "delete"
        BY <2>2 DEF NextPC
      <4>4. QED BY <4>1, <4>2, <4>3
    <3>2. QED BY <1>1, <2>2, <3>1
              DEF RotShape, Chosen, Writing, Storing, Recorded, Marked
  <2>3. ASSUME NEW l \in {"store", "unlockEnd", "complete"},
               l = "store" => x.pc \in Writing,
               l = "complete" => x.pc \in {"setPrimary", "mark"},
               rot' = [rot EXCEPT ![r].pc = l, ![r].read = FALSE, ![r].row = Row0]
        PROVE  RotShape(rot[r])'
    <3> DEFINE y == [x EXCEPT !.pc = l, !.read = FALSE, !.row = Row0]
    <3>1. rot'[r] = y
      BY <2>3 DEF KeyInv, TypeInv, TypeOK
    <3>2. /\ rot'[r].pc = l /\ ~rot'[r].read /\ rot'[r].cur = x.cur
          /\ rot'[r].new = x.new /\ rot'[r].data = x.data
      BY <1>1, <3>1 DEF Executions
    <3>3. QED BY <1>1, <2>3, <3>2 DEF RotShape, Chosen, Writing, Storing, Recorded
  <2>4. QED BY <2>1, <2>2, <2>3 DEF FailUpdate, Writing
<1>4. QED BY <1>2, QuietFrame DEF FailUpdate

-----------------------------------------------------------------------------
(* Migration and deletion.                                                 *)

\* The keys of the execution stay.
LEMMA BatchKeys ==
    ASSUME KeyInv, NEW r \in Rotations, Batch(r)
    PROVE  Kept(r)'
<1>1. RotShape(rot[r])'
  <2>1. CASE End(r)
    BY <2>1, EndShape DEF KeyInv
  <2>2. CASE ~End(r)
    <3> DEFINE y == [rot[r] EXCEPT !.pc = "migrate",
                       !.todo = {p \in Pools : pool[p] \in {"READY", "ERROR"}}]
    <3>1. rot'[r] = y /\ rot[r] \in Executions /\ RotShape(rot[r])
      BY <2>2 DEF KeyInv, TypeInv, TypeOK, Batch
    <3>2. QED BY <3>1
              DEF Batch, At, RotShape, Chosen, Writing, Storing, Recorded, Executions
  <2>3. QED BY <2>1, <2>2
<1>3. QED BY <1>1, QuietFrame DEF Batch

\* The same.
LEMMA SkipPoolKeys ==
    ASSUME KeyInv, NEW r \in Rotations, NEW p \in Pools, SkipPool(r, p)
    PROVE  Kept(r)'
<1> DEFINE y == [rot[r] EXCEPT !.todo = @ \ {p}]
<1>1. rot[r] \in Executions /\ RotShape(rot[r]) /\ sa' = sa /\ gcp' = gcp
  BY DEF KeyInv, TypeInv, TypeOK, SkipPool
<1>2. rot'[r] = y
  BY DEF KeyInv, TypeInv, TypeOK, SkipPool
<1>3. /\ rot'[r].pc = rot[r].pc /\ rot'[r].read = rot[r].read
      /\ rot'[r].row = rot[r].row /\ rot'[r].cur = rot[r].cur
      /\ rot'[r].old = rot[r].old /\ rot'[r].new = rot[r].new
      /\ rot'[r].data = rot[r].data /\ rot'[r].dels = rot[r].dels
  BY <1>1, <1>2 DEF Executions
<1>4. RotShape(rot[r])'
  BY <1>1, <1>3
     DEF SkipPool, At, RotShape, Chosen, Writing, Storing, Recorded
<1>6. QED BY <1>4, QuietFrame DEF SkipPool

\* The same.
LEMMA ModifyKmsKeys ==
    ASSUME KeyInv, NEW r \in Rotations, NEW p \in Pools, ModifyKms(r, p)
    PROVE  Kept(r)'
<1>1. rot[r] \in Executions /\ RotShape(rot[r]) /\ rot[r].pc = "migrate" /\ sa' = sa
  BY DEF KeyInv, TypeInv, TypeOK, ModifyKms, At
<1>2. \/ rot'[r] = [rot[r] EXCEPT !.pc = "verify", !.at = p]
      \/ rot'[r] = [rot[r] EXCEPT !.todo = @ \ {p}, !.failed = TRUE]
  BY DEF KeyInv, TypeInv, TypeOK, ModifyKms
<1>3. /\ rot'[r].pc \in {"migrate", "verify"} /\ rot'[r].read = rot[r].read
      /\ rot'[r].row = rot[r].row /\ rot'[r].cur = rot[r].cur
      /\ rot'[r].new = rot[r].new /\ rot'[r].data = rot[r].data
  BY <1>1, <1>2 DEF Executions
<1>4. RotShape(rot[r])'
  BY <1>1, <1>3 DEF RotShape, Chosen, Writing, Storing, Recorded
<1>6. QED BY <1>4, QuietFrame DEF ModifyKms

\* The same.
LEMMA ReachableKeys ==
    ASSUME KeyInv, NEW r \in Rotations, Reachable(r)
    PROVE  Kept(r)'
<1> DEFINE y == [rot[r] EXCEPT !.pc = "migrate", !.at = None,
                               !.todo = @ \ {rot[r].at}]
<1>1. rot[r] \in Executions /\ RotShape(rot[r]) /\ sa' = sa /\ gcp' = gcp
  BY DEF KeyInv, TypeInv, TypeOK, Reachable
<1>2. rot'[r] = y
  BY DEF KeyInv, TypeInv, TypeOK, Reachable
<1>3. /\ rot'[r].pc = "migrate" /\ rot'[r].read = rot[r].read
      /\ rot'[r].row = rot[r].row /\ rot'[r].cur = rot[r].cur
      /\ rot'[r].old = rot[r].old /\ rot'[r].new = rot[r].new
      /\ rot'[r].data = rot[r].data /\ rot'[r].dels = rot[r].dels
  BY <1>1, <1>2 DEF Executions
<1>4. RotShape(rot[r])'
  BY <1>1, <1>3
     DEF Reachable, At, RotShape, Chosen, Writing, Storing, Recorded
<1>6. QED BY <1>4, QuietFrame DEF Reachable

\* The same.
LEMMA UnreachableKeys ==
    ASSUME KeyInv, NEW r \in Rotations, Unreachable(r)
    PROVE  Kept(r)'
<1> DEFINE y == [rot[r] EXCEPT !.pc = "migrate", !.at = None,
                               !.todo = @ \ {rot[r].at}, !.failed = TRUE]
<1>1. rot[r] \in Executions /\ RotShape(rot[r]) /\ sa' = sa /\ gcp' = gcp
  BY DEF KeyInv, TypeInv, TypeOK, Unreachable
<1>2. rot'[r] = y
  BY DEF KeyInv, TypeInv, TypeOK, Unreachable
<1>3. /\ rot'[r].pc = "migrate" /\ rot'[r].read = rot[r].read
      /\ rot'[r].row = rot[r].row /\ rot'[r].cur = rot[r].cur
      /\ rot'[r].old = rot[r].old /\ rot'[r].new = rot[r].new
      /\ rot'[r].data = rot[r].data /\ rot'[r].dels = rot[r].dels
  BY <1>1, <1>2 DEF Executions
<1>4. RotShape(rot[r])'
  BY <1>1, <1>3
     DEF Unreachable, At, RotShape, Chosen, Writing, Storing, Recorded
<1>6. QED BY <1>4, QuietFrame DEF Unreachable

\* The workflow goes on or ends.
LEMMA MigrationsDoneKeys ==
    ASSUME KeyInv, NEW r \in Rotations, MigrationsDone(r)
    PROVE  Kept(r)'
<1>1. RotShape(rot[r])'
  BY GotoShape, EndShape
     DEF KeyInv, MigrationsDone, At, PCs, Updates, Held, Chosen, Recorded
<1>3. QED BY <1>1, QuietFrame DEF MigrationsDone

\* The workflow goes on or ends.
LEMMA CompleteKeys ==
    ASSUME KeyInv, NEW r \in Rotations, Complete(r)
    PROVE  Kept(r)'
<1>1. RotShape(rot[r])'
  BY GotoShape, EndShape
     DEF KeyInv, Complete, At, PCs, Updates, Held, Chosen, Recorded
<1>3. QED BY <1>1, QuietFrame DEF Complete

\* The keys to delete are the marked ones.
LEMMA ListMarkedKeys ==
    ASSUME KeyInv, NEW r \in Rotations, ListMarked(r)
    PROVE  Kept(r)'
<1> DEFINE y == [rot[r] EXCEPT !.pc = "delete", !.dels = Marked]
<1>1. rot[r] \in Executions /\ RotShape(rot[r]) /\ sa' = sa /\ gcp' = gcp
  BY DEF KeyInv, TypeInv, TypeOK, ListMarked
<1>2. rot'[r] = y
  BY DEF KeyInv, TypeInv, TypeOK, ListMarked
<1>3. /\ rot'[r].pc = "delete" /\ rot'[r].read = rot[r].read
      /\ rot'[r].row = rot[r].row /\ rot'[r].cur = rot[r].cur
      /\ rot'[r].old = rot[r].old /\ rot'[r].new = rot[r].new
      /\ rot'[r].data = rot[r].data /\ rot'[r].dels = Marked
  BY <1>1, <1>2 DEF Executions
<1>4. RotShape(rot[r])'
  BY <1>1, <1>3
     DEF ListMarked, At, RotShape, Chosen, Writing, Storing, Recorded, Marked
<1>6. QED BY <1>4, QuietFrame DEF ListMarked

\* A marked key is neither active nor the password location.
LEMMA DeleteKeyKeys ==
    ASSUME KeyInv, NEW r \in Rotations, DeleteKey(r)
    PROVE  Kept(r)'
<1> DEFINE x == rot[r]
<1>1. /\ x \in Executions /\ ExecShape(x) /\ RotShape(x) /\ x.pc = "delete"
      /\ sa' = sa /\ created' = created /\ sa \in Rows
  BY DEF KeyInv, TypeInv, TypeOK, DeleteKey, At
<1>2. RowShape'
  <2>1. CASE gcp' = gcp
    BY <1>1, <2>1 DEF KeyInv, RowShape
  <2>2. CASE x.dels # {} /\ gcp' = gcp \ {Min(x.dels)}
    <3>1. Min(x.dels) \in sa.rec \ sa.act
      BY <1>1, <2>2, MinKey DEF RotShape, Marked, Executions
    <3>2. QED BY <1>1, <2>2, <3>1 DEF KeyInv, RowShape
  <2>3. QED BY <2>1, <2>2 DEF DeleteKey
<1>3. RotShape(rot[r])'
  <2>1. CASE End(r)
    BY <2>1, EndShape DEF KeyInv
  <2>2. CASE Goto(r, "remove")
    <3>1. rot'[r] = [x EXCEPT !.pc = "remove"]
      BY <2>2 DEF Goto, KeyInv, TypeInv, TypeOK
    <3>2. QED BY <1>1, <3>1
              DEF RotShape, Chosen, Writing, Storing, Recorded, Executions, Marked
  <2>3. CASE rot' = [rot EXCEPT ![r].pc = "list", ![r].dels = {}]
    <3>1. rot'[r] = [x EXCEPT !.pc = "list", !.dels = {}]
      BY <2>3 DEF KeyInv, TypeInv, TypeOK
    <3>2. QED BY <1>1, <3>1
              DEF RotShape, Chosen, Writing, Storing, Recorded, Executions
  <2>4. QED BY <2>1, <2>2, <2>3 DEF DeleteKey
<1>5. QED BY <1>2, <1>3 DEF Kept

\* An activity of the execution under way.
LEMMA ActivityKeys ==
    ASSUME KeyInv, NEW r \in Rotations, Activity(r) PROVE Kept(r)'
BY LockRotationKeys, ReuseKeyKeys, RefuseKeyKeys, CreateKeyKeys, StoreNewKeyKeys,
   UnlockRotationKeys, ReadRowKeys, SaveRowKeys, FailUpdateKeys, BatchKeys,
   SkipPoolKeys, ModifyKmsKeys, ReachableKeys, UnreachableKeys,
   MigrationsDoneKeys, CompleteKeys, ListMarkedKeys, DeleteKeyKeys DEF Activity

\* It changes one execution, which had started.
LEMMA ActivityFrame ==
    ASSUME TypeInv, NEW r \in Rotations, Activity(r)
    PROVE  rot[r] # Idle /\ \A s \in Rotations \ {r} : rot'[s] = rot[s]
<1>1. rot[r].pc # "idle"
  BY DEF Activity, LockRotation, ReuseKey, RefuseKey, CreateKey, StoreNewKey,
         ReadRow, SaveRow, FailUpdate, UnlockRotation, Batch, SkipPool, ModifyKms,
         Reachable, Unreachable, MigrationsDone, Complete, ListMarked, DeleteKey,
         At, Updates
<1>2. \A s \in Rotations \ {r} : rot'[s] = rot[s]
  BY DEF TypeInv, TypeOK, Activity, LockRotation, ReuseKey, RefuseKey, CreateKey,
         StoreNewKey, ReadRow, SaveRow, FailUpdate, UnlockRotation, Batch, SkipPool,
         ModifyKms, Reachable, Unreachable, MigrationsDone, Complete, ListMarked,
         DeleteKey, Goto, End
<1>3. QED BY <1>1, <1>2 DEF Idle

\* The executions that have not started have nothing to say of the row.
LEMMA SingleFrame ==
    ASSUME KeyInv, TypeInv', NEW r \in Rotations, Kept(r)',
           \A s \in Rotations \ {r} : rot'[s] = rot[s] /\ rot[s] = Idle
    PROVE  KeyInv'
<1>1. \A s \in Rotations \ {r} : RotShape(rot[s])'
  BY DEF Idle, RotShape, Chosen, Writing, Storing, Recorded
<1>2. QED BY <1>1 DEF KeyInv, Kept, Single

\* A step of an execution.
LEMMA RotationKeys ==
    ASSUME KeyInv, NEW r \in Rotations, Rotation(r), ~disturbed' PROVE KeyInv'
<1>1. TypeInv'
  BY RotationType DEF KeyInv
<1>2. CASE Activity(r)
  <2>1. \A s \in Rotations \ {r} : rot'[s] = rot[s] /\ rot[s] = Idle
    BY <1>2, ActivityFrame DEF KeyInv, Single
  <2>2. QED BY <1>1, <1>2, <2>1, ActivityKeys, SingleFrame
<1>3. CASE Validate(r)
  <2>1. alone' # None
    BY <1>3 DEF Validate
  <2>2. \A s \in Rotations \ {r} : rot[s] = Idle
    BY <1>3, <2>1 DEF Validate
  <2>3. \A s \in Rotations \ {r} : rot'[s] = rot[s]
    BY <1>3 DEF Validate, KeyInv, TypeInv, TypeOK
  <2>4. QED BY <1>1, <1>3, <2>2, <2>3, ValidateKeys, SingleFrame
<1>4. QED BY <1>2, <1>3 DEF Rotation

\* The workflow is closed, and its last activity ends.
LEMMA CrashKeys ==
    ASSUME KeyInv, NEW r \in Rotations, Crash(r) \/ Gone(r) PROVE KeyInv'
<1>1. TypeInv'
  BY CrashType DEF KeyInv
<1>2. CASE Crash(r)
  BY <1>1, <1>2 DEF Crash, KeyInv, Single, RowShape, RotShape, Marked
<1>3. CASE Gone(r)
  <2>1. /\ End(r) /\ UNCHANGED <<sa, gcp, created>>
        /\ \A s \in Rotations \ {r} : rot'[s] = rot[s]
        /\ rot'[r] = Idle
    BY <1>3 DEF Gone, End, KeyInv, TypeInv, TypeOK
  <2>2. RowShape'
    BY <2>1 DEF KeyInv, RowShape
  <2>3. \A s \in Rotations \ {r} : RotShape(rot[s])'
    BY <2>1 DEF KeyInv, RotShape, Marked
  <2>4. RotShape(rot[r])'
    BY <2>1, EndShape DEF KeyInv
  <2>5. Single'
    BY <2>1 DEF KeyInv, Single
  <2>6. QED BY <1>1, <2>2, <2>3, <2>4, <2>5 DEF KeyInv
<1>4. QED BY <1>2, <1>3

\* A step that leaves the row and the executions alone, and deletes no key.
LEMMA OtherKeys ==
    ASSUME KeyInv, TypeInv', UNCHANGED <<sa, rot>>, gcp \subseteq gcp',
           \A k \in gcp' \cup sa.rec : k <= created'
    PROVE  KeyInv'
BY DEF KeyInv, Single, RowShape, RotShape, Marked

\* A step of a pool that is not in the way of a rotation.
LEMMA PoolKeys ==
    ASSUME KeyInv, NEW p \in Pools, Pool(p), UNCHANGED <<rot, fate>>, ~disturbed'
    PROVE  KeyInv'
<1>1. TypeInv'
  BY PoolType DEF KeyInv
<1>2. sa' = sa
  BY DEF Pool, CreatePool, VerifyKey, CheckPresent, Resync, Recreate, CopyRow,
         SaveCopy, FailCopy, VerifyReachability, LockPool, ReadPassword,
         ConfigureKms, UnlockPool, CheckReachable, PoolFails, DeletePool, Disturb
<1>3. \/ UNCHANGED <<gcp, created>>
      \/ created' = created + 1 /\ gcp' = gcp \cup {created'}
  BY DEF Pool, CreatePool, VerifyKey, CheckPresent, Resync, Recreate, CopyRow,
         SaveCopy, FailCopy, VerifyReachability, LockPool, ReadPassword,
         ConfigureKms, UnlockPool, CheckReachable, PoolFails, DeletePool, Disturb
<1>4. \A k \in gcp \cup sa.rec : k \in Nat /\ k <= created
  BY KmsAssumption DEF KeyInv, TypeInv, TypeOK, Rows, Keys, RowShape
<1>5. created \in Nat
  BY KmsAssumption DEF KeyInv, TypeInv, TypeOK, Keys
<1>6. gcp \subseteq gcp' /\ \A k \in gcp' \cup sa.rec : k <= created'
  BY <1>3, <1>4, <1>5
<1>7. QED BY <1>1, <1>2, <1>6, OtherKeys

\* The invariant holds initially ...
LEMMA InitKeys == Init => KeyInv
<1> SUFFICES ASSUME Init PROVE KeyInv
  OBVIOUS
<1>1. TypeInv
  BY InitType
<1>2. RowShape
  BY DEF Init, RowShape, Row0
<1>3. \A r \in Rotations : RotShape(rot[r])
  BY DEF Init, Idle, RotShape, Chosen, Writing, Storing, Recorded
<1>4. Single
  BY DEF Init, Single
<1>5. QED BY <1>1, <1>2, <1>3, <1>4 DEF KeyInv

\* ... and every step keeps it, until somebody gets in the way.
Undisturbed == TypeInv /\ (~disturbed => KeyInv)

LEMMA NextKeys == ASSUME Undisturbed, [Next]_vars PROVE Undisturbed'
<1>1. TypeInv'
  BY NextType DEF Undisturbed
<1> SUFFICES ASSUME ~disturbed' PROVE KeyInv'
  BY <1>1 DEF Undisturbed
<1>2. KeyInv
  <2>1. CASE \E r \in Rotations : Validate(r)
    BY <2>1 DEF Validate, Undisturbed
  <2>2. ASSUME NEW p \in Pools, Pool(p) PROVE disturbed' = disturbed
    BY <2>2 DEF history, Pool, CreatePool, VerifyKey, CheckPresent, Resync, Recreate,
       CopyRow, SaveCopy, FailCopy, VerifyReachability, LockPool, ReadPassword,
       ConfigureKms, UnlockPool, CheckReachable, PoolFails, DeletePool, Disturb
  <2>3. CASE ~\E r \in Rotations : Validate(r)
    <3>1. disturbed' = disturbed
      <4>1. CASE \E r \in Rotations : Rotation(r) \/ Crash(r) \/ Gone(r)
        BY <2>3, <4>1 DEF Rotation, history, Crash, Gone
      <4>2. CASE \E r \in Rotations : \E s \in Rotations \ {r} : Timeout(r, s)
        BY <4>2 DEF Timeout, Disturb
      <4>3. CASE LoseLease \/ (\E c \in Clients : RenewLease(c)) \/ UNCHANGED vars
        BY <4>3 DEF LoseLease, RenewLease, history, vars
      <4>4. QED BY <2>2, <4>1, <4>2, <4>3 DEF Next
    <3>2. QED BY <3>1 DEF Undisturbed
  <2>4. QED BY <2>1, <2>3
<1>3. CASE \E r \in Rotations : Rotation(r) \/ Crash(r) \/ Gone(r)
  BY <1>2, <1>3, RotationKeys, CrashKeys
<1>4. CASE \E r \in Rotations : \E s \in Rotations \ {r} : Timeout(r, s)
  BY <1>4 DEF Timeout, Disturb
<1>5. CASE \E p \in Pools : Pool(p) /\ UNCHANGED <<rot, fate>>
  BY <1>2, <1>5, PoolKeys
<1>6. CASE UNCHANGED <<sa, gcp, created, rot>>
  BY <1>1, <1>2, <1>6, OtherKeys DEF KeyInv, RowShape
<1>7. QED BY <1>3, <1>4, <1>5, <1>6 DEF Next, LoseLease, RenewLease, vars

\* The invariant of the three theorems.
LEMMA KeysInvariance == Spec => []Undisturbed
<1>1. Init => Undisturbed
  BY InitKeys DEF Undisturbed, KeyInv
<1>2. Undisturbed /\ [Next]_vars => Undisturbed'
  BY NextKeys
<1>3. QED BY <1>1, <1>2, PTL DEF Spec

\* For any number of executions and of pool creations, whatever fails, is repeated
\* or comes late: until two executions overlap or a pool creation gets in the way,
\* the key in ServiceAccountPasswordLocation is never deleted from GCP.
THEOREM PasswordKey == Spec => []PasswordKeyIsLive
<1>1. Undisturbed => PasswordKeyIsLive
  BY DEF Undisturbed, KeyInv, RowShape, PasswordKeyIsLive
<1>2. QED BY <1>1, KeysInvariance, PTL

\* ... no key in the row is active that does not exist ...
THEOREM ActiveKeys == Spec => []ActiveKeysLive
<1>1. Undisturbed => ActiveKeysLive
  BY DEF Undisturbed, KeyInv, RowShape, ActiveKeysLive
<1>2. QED BY <1>1, KeysInvariance, PTL

\* ... and no two keys are primary.
THEOREM OnePrimary == Spec => []AtMostOnePrimary
<1>1. ASSUME Undisturbed, ~disturbed PROVE Cardinality(sa.prim) <= 1
  <2>1. CASE sa.prim = {}
    BY <2>1, FS_EmptySet
  <2>2. CASE sa.prim # {}
    <3>1. PICK k \in sa.prim : TRUE
      BY <2>2
    <3>2. sa.prim = {k}
      BY <1>1, <3>1 DEF Undisturbed, KeyInv, RowShape
    <3>3. Cardinality(sa.prim) = 1
      BY <3>2, FS_Singleton
    <3>4. QED BY <3>3
  <2>3. QED BY <2>1, <2>2
<1>2. Undisturbed => AtMostOnePrimary
  BY <1>1 DEF AtMostOnePrimary
<1>3. QED BY <1>2, KeysInvariance, PTL
=============================================================================
