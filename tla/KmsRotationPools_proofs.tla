---------------------- MODULE KmsRotationPools_proofs ----------------------
(***************************************************************************)
(* What a rotation does that nobody gets in the way of, however earlier    *)
(* executions, late activities, repeated attempts and pool creations have  *)
(* left the row, the keys in GCP and the pools.                            *)
(*                                                                         *)
(* The argument has two parts.  Nobody knows of a key that GCP has not     *)
(* created yet, whoever overlaps with whom: so the key such a rotation     *)
(* creates is in nobody's way.  From then on AloneShape follows that key   *)
(* through the row, to the pools, and past the deletion of others.         *)
(***************************************************************************)
EXTENDS KmsRotation_proofs

\* The steps after the pools to migrate were listed, and after the location has
\* moved.
Batched == {"migrate", "verify", "complete", "setPrimary", "mark", "list",
            "delete", "remove"}
Moved   == Batched \cup {"unlock", "batch"}

\* A key that is one of the first c that GCP has created, or none; a row with such
\* keys; an execution with such keys.
Made(k, c)  == k = NoKey \/ k <= c
Known(s, c) == /\ s.pw <= c
               /\ \A k \in s.rec : k <= c /\ s.data[k] <= c
               /\ s.prim \subseteq s.rec
               /\ s.act \subseteq s.rec
MadeExec(x, c) == /\ Known(x.row, c)
                  /\ Made(x.cur, c) /\ Made(x.old, c)
                  /\ Made(x.new, c) /\ Made(x.data, c)

\* Nobody knows of a key that GCP has not created yet, whoever has overlapped with
\* whom.
MadeKeys == /\ Known(sa, created)
            /\ \A k \in gcp : k <= created
            /\ \A p \in Pools : /\ Made(tracked[p], created)
                                /\ Made(seen[p], created)
                                /\ copy[p] # None => Known(copy[p], created)

\* What the execution nobody is in the way of knows of the row: the copy it has
\* read is the row, ...
RowPart(x) == /\ x.read => x.row = sa
              /\ x.moved => x.pc \in Moved
              /\ x.pc \notin {"delete", "remove"} => x.dels = {}

\* ... the key it stores, unless it was in the row, is one no pool remembers, ...
StorePart(x) ==
  x.pc \in Storing /\ ~(x.pc = "store" /\ x.new \in sa.rec) =>
    /\ x.data = x.new
    /\ x.new \in gcp
    /\ x.new # x.cur
    /\ x.new \notin sa.prim
    /\ \A p \in Pools : tracked[p] # x.new
    /\ x.pc \in {"addOld", "addNew"} => x.new \notin sa.rec
    /\ x.pc = "setPassword" => x.new \in sa.act /\ sa.data[x.new] = x.new

\* ... and once it has moved the location there, it stays, is the only primary key
\* when there is nothing left to do but to delete others, ...
KeyPart(x) ==
  x.moved =>
    /\ x.data = x.new
    /\ x.new \in gcp
    /\ x.new # x.cur
    /\ x.new \in sa.act
    /\ sa.data[x.new] = x.new
    /\ sa.pw = x.new
    /\ x.new \in sa.prim => sa.prim = {x.new}
    /\ x.pc \in {"mark", "list", "delete", "remove"} => x.new \in sa.prim
    /\ x.dels \subseteq Marked

\* ... and the pools have it from the batch on, are still to be migrated, or their
\* migration has failed.
PoolShape(x, p) ==
  /\ p \in x.todo => pool[p] \in {"READY", "ERROR", "DELETING"}
  /\ pool[p] = "configure" => seen[p] = x.new
  /\ pool[p] \in {"unlock", "check"} => ontap[p] = x.new
  /\ pool[p] = "READY" =>
        \/ ontap[p] = x.new
        \/ x.pc \in {"migrate", "verify"} /\ (p \in x.todo \/ x.failed)

PoolPart(x) ==
  x.moved =>
    /\ \A p \in Pools : tracked[p] = x.new => x.pc \in Batched /\ ontap[p] = x.new
    /\ x.pc = "verify" => /\ x.at \in x.todo
                          /\ ontap[x.at] = x.new /\ tracked[x.at] # x.new
    /\ x.pc \in Batched => \A p \in Pools : PoolShape(x, p)

AloneShape(x) == RowPart(x) /\ StorePart(x) /\ KeyPart(x) /\ PoolPart(x)

AloneInv == /\ TypeInv
            /\ MadeKeys
            /\ \A r \in Rotations : MadeExec(rot[r], created)
            /\ alone # None => /\ AloneShape(rot[alone])
                               /\ \A s \in Rotations \ {alone} : rot[s] = Idle

-----------------------------------------------------------------------------
(* The keys that were created.                                             *)

\* GCP creates one key at a time, or none.
Creates == created' \in {created, created + 1}

\* A key that was created stays so.
LEMMA MadeStays ==
    ASSUME TypeInv, Creates
    PROVE  /\ \A k \in AnyKey : Made(k, created) => Made(k, created')
           /\ \A s \in Rows : Known(s, created) => Known(s, created')
<1>1. created \in Nat /\ (created' = created \/ created' = created + 1)
  BY KmsAssumption DEF TypeInv, TypeOK, Keys, Creates
<1>2. \A k \in AnyKey : k \in Nat
  BY KmsAssumption DEF AnyKey, NoKey
<1>3. \A k \in AnyKey : Made(k, created) => Made(k, created')
  BY <1>1, <1>2 DEF Made
<1>4. ASSUME NEW s \in Rows, Known(s, created) PROVE Known(s, created')
  <2>1. s.pw \in Nat /\ \A k \in s.rec : k \in Nat /\ s.data[k] \in Nat
    BY KmsAssumption DEF Rows, Keys
  <2>2. QED BY <1>1, <1>4, <2>1 DEF Known
<1>5. QED BY <1>3, <1>4


\* An execution has the same keys, or ends.
KeepsKeys(x, y) == /\ y.row = x.row \/ y.row = Row0
                   /\ y.cur = x.cur /\ y.old = x.old
                   /\ y.new = x.new /\ y.data = x.data

\* No key is newer than the first.
LEMMA MadeFirst == ASSUME TypeInv PROVE Known(Row0, created) /\ MadeExec(Idle, created)
<1>1. created \in Nat /\ Row0.pw = 0 /\ Row0.rec = {} /\ Row0.prim = {}
      /\ Row0.act = {}
  BY KmsAssumption DEF TypeInv, TypeOK, Keys, Row0
<1>2. Known(Row0, created)
  BY <1>1 DEF Known
<1>3. QED BY <1>2 DEF MadeExec, Idle, Made

\* The workflow goes on.
LEMMA GotoFields ==
    ASSUME TypeInv, NEW r \in Rotations, NEW l \in PCs, Goto(r, l)
    PROVE  /\ rot'[r].pc = l /\ rot'[r].read = rot[r].read
           /\ rot'[r].row = rot[r].row /\ rot'[r].cur = rot[r].cur
           /\ rot'[r].old = rot[r].old /\ rot'[r].new = rot[r].new
           /\ rot'[r].data = rot[r].data /\ rot'[r].moved = rot[r].moved
           /\ rot'[r].todo = rot[r].todo /\ rot'[r].at = rot[r].at
           /\ rot'[r].failed = rot[r].failed /\ rot'[r].dels = rot[r].dels
<1>1. rot'[r] = [rot[r] EXCEPT !.pc = l] /\ rot[r] \in Executions
  BY DEF Goto, TypeInv, TypeOK
<1>2. QED BY <1>1 DEF Executions

\* The workflow ends.
LEMMA EndFields ==
    ASSUME TypeInv, NEW r \in Rotations, End(r) PROVE rot'[r] = Idle
BY DEF End, TypeInv, TypeOK

\* The activity starts again.
Again(x, l) == [x EXCEPT !.pc = l, !.read = FALSE, !.row = Row0]

LEMMA AgainParts ==
    ASSUME NEW x \in Executions, NEW l \in PCs
    PROVE  /\ Again(x, l).pc = l /\ ~Again(x, l).read /\ Again(x, l).row = Row0
           /\ Again(x, l).cur = x.cur /\ Again(x, l).old = x.old
           /\ Again(x, l).new = x.new /\ Again(x, l).data = x.data
           /\ Again(x, l).moved = x.moved /\ Again(x, l).todo = x.todo
           /\ Again(x, l).at = x.at /\ Again(x, l).failed = x.failed
           /\ Again(x, l).dels = x.dels
BY DEF Executions, Again

LEMMA AgainFields ==
    ASSUME TypeInv, NEW r \in Rotations, NEW l \in PCs,
           rot' = [rot EXCEPT ![r].pc = l, ![r].read = FALSE, ![r].row = Row0]
    PROVE  /\ rot'[r].pc = l /\ ~rot'[r].read
           /\ rot'[r].row = Row0 /\ rot'[r].cur = rot[r].cur
           /\ rot'[r].old = rot[r].old /\ rot'[r].new = rot[r].new
           /\ rot'[r].data = rot[r].data /\ rot'[r].moved = rot[r].moved
           /\ rot'[r].todo = rot[r].todo /\ rot'[r].at = rot[r].at
           /\ rot'[r].failed = rot[r].failed /\ rot'[r].dels = rot[r].dels
<1>1. rot'[r] = Again(rot[r], l) /\ rot[r] \in Executions
  BY DEF TypeInv, TypeOK, Again
<1>2. QED BY <1>1, AgainParts

\* A migration goes on, and the activities after the pools were listed leave the
\* keys of the execution and the copy of the row alone.
LEMMA MigrateFields ==
    ASSUME TypeInv, NEW r \in Rotations,
           \/ Batch(r) \/ Reachable(r) \/ Unreachable(r) \/ ListMarked(r)
           \/ DeleteKey(r)
           \/ \E p \in Pools : SkipPool(r, p) \/ ModifyKms(r, p)
    PROVE  \/ rot'[r] = Idle
           \/ /\ rot'[r].read = rot[r].read /\ rot'[r].row = rot[r].row
              /\ rot'[r].cur = rot[r].cur /\ rot'[r].old = rot[r].old
              /\ rot'[r].new = rot[r].new /\ rot'[r].data = rot[r].data
              /\ rot'[r].moved = rot[r].moved
<1> DEFINE x == rot[r]
<1>0. x \in Executions /\ rot \in [Rotations -> Executions]
  BY DEF TypeInv, TypeOK
<1>1. CASE Batch(r)
  <2>1. \/ rot'[r] = Idle
        \/ rot'[r] = [x EXCEPT !.pc = "migrate",
                               !.todo = {p \in Pools : pool[p] \in {"READY", "ERROR"}}]
    BY <1>0, <1>1 DEF Batch, End
  <2>2. QED BY <1>0, <2>1 DEF Executions
<1>2. CASE Reachable(r)
  <2>1. rot'[r] = [x EXCEPT !.pc = "migrate", !.at = None, !.todo = @ \ {x.at}]
    BY <1>0, <1>2 DEF Reachable
  <2>2. QED BY <1>0, <2>1 DEF Executions
<1>3. CASE Unreachable(r)
  <2>1. rot'[r] = [x EXCEPT !.pc = "migrate", !.at = None, !.todo = @ \ {x.at},
                            !.failed = TRUE]
    BY <1>0, <1>3 DEF Unreachable
  <2>2. QED BY <1>0, <2>1 DEF Executions
<1>4. CASE ListMarked(r)
  <2>1. rot'[r] = [x EXCEPT !.pc = "delete", !.dels = Marked]
    BY <1>0, <1>4 DEF ListMarked
  <2>2. QED BY <1>0, <2>1 DEF Executions
<1>5. CASE DeleteKey(r)
  <2>1. \/ rot'[r] = Idle
        \/ rot'[r] = [x EXCEPT !.pc = "remove"]
        \/ rot'[r] = [x EXCEPT !.pc = "list", !.dels = {}]
    BY <1>0, <1>5 DEF DeleteKey, Goto, End
  <2>2. QED BY <1>0, <2>1 DEF Executions
<1>6. ASSUME NEW p \in Pools, SkipPool(r, p) \/ ModifyKms(r, p)
      PROVE  /\ rot'[r].read = rot[r].read /\ rot'[r].row = rot[r].row
             /\ rot'[r].cur = rot[r].cur /\ rot'[r].old = rot[r].old
             /\ rot'[r].new = rot[r].new /\ rot'[r].data = rot[r].data
             /\ rot'[r].moved = rot[r].moved
  <2>1. \/ rot'[r] = [x EXCEPT !.todo = @ \ {p}]
        \/ rot'[r] = [x EXCEPT !.pc = "verify", !.at = p]
        \/ rot'[r] = [x EXCEPT !.todo = @ \ {p}, !.failed = TRUE]
    BY <1>0, <1>6 DEF SkipPool, ModifyKms
  <2>2. QED BY <1>0, <2>1 DEF Executions
<1>7. QED BY <1>1, <1>2, <1>3, <1>4, <1>5, <1>6

\* So do all steps but those that choose a key, and those that read the row.
LEMMA ActivityFields ==
    ASSUME TypeInv, NEW r \in Rotations, Activity(r),
           ~ReuseKey(r), ~CreateKey(r), ~StoreNewKey(r), ~ReadRow(r)
    PROVE  rot'[r] = Idle \/ KeepsKeys(rot[r], rot'[r])
<1>1. CASE \/ Batch(r) \/ Reachable(r) \/ Unreachable(r) \/ ListMarked(r)
           \/ DeleteKey(r)
           \/ \E p \in Pools : SkipPool(r, p) \/ ModifyKms(r, p)
  BY <1>1, MigrateFields DEF KeepsKeys
<1>2. CASE \/ LockRotation(r) \/ RefuseKey(r) \/ UnlockRotation(r)
           \/ MigrationsDone(r) \/ Complete(r)
  <2>1. End(r) \/ \E l \in PCs : Goto(r, l)
    BY <1>2 DEF LockRotation, RefuseKey, UnlockRotation, MigrationsDone, Complete,
                PCs, Held, Updates
  <2>2. QED BY <2>1, GotoFields, EndFields DEF KeepsKeys
<1>3. ASSUME rot[r].pc \in Updates, rot' = [rot EXCEPT ![r] = Continued(rot[r])]
      PROVE  KeepsKeys(rot[r], rot'[r])
  <2>1. rot[r] \in Executions /\ rot'[r] = Continued(rot[r])
    BY <1>3 DEF TypeInv, TypeOK
  <2>2. Continued(rot[r]).row = Row0
    BY <1>3, <2>1, ContinuedForm DEF Executions
  <2>3. QED BY <1>3, <2>1, <2>2, ContinuedParts DEF KeepsKeys
<1>4. CASE SaveRow(r)
  BY <1>3, <1>4 DEF SaveRow
<1>5. CASE FailUpdate(r)
  <2>1. \/ End(r)
        \/ rot[r].pc \in Updates /\ rot' = [rot EXCEPT ![r] = Continued(rot[r])]
        \/ \E l \in PCs :
             rot' = [rot EXCEPT ![r].pc = l, ![r].read = FALSE, ![r].row = Row0]
    BY <1>5 DEF FailUpdate, PCs, Held
  <2>2. QED BY <1>3, <2>1, EndFields, AgainFields DEF KeepsKeys
<1>6. QED BY <1>1, <1>2, <1>4, <1>5 DEF Activity

\* The row after a save has no key that was not created.
LEMMA SavedKnown ==
    ASSUME TypeInv, NEW x \in Executions, ExecShape(x), x.pc \in Updates,
           MadeExec(x, created), ~KeyNotFound(x)
    PROVE  Known(Saved(x), created)
<1>0. x.row \in Rows /\ Known(x.row, created) /\ created \in Nat /\ NoKey \notin Keys
  BY KmsAssumption DEF TypeInv, TypeOK, Executions, MadeExec, Keys, NoKey
<1>1. CASE x.pc = "addOld"
  <2>1. x.cur \in Keys /\ x.old \in Keys /\ x.cur <= created /\ x.old <= created
    BY <1>0, <1>1 DEF ExecShape, Writing, MadeExec, Made
  <2>2. Saved(x) = WithKey(x.row, x.cur, x.old, TRUE)
    BY <1>1 DEF Saved
  <2>3. QED BY <1>0, <2>1, <2>2 DEF Known, WithKey, Rows
<1>2. CASE x.pc = "addNew"
  <2>1. x.new \in Keys /\ x.data \in Keys /\ x.new <= created /\ x.data <= created
    BY <1>0, <1>2 DEF ExecShape, Chosen, MadeExec, Made
  <2>2. Saved(x) = WithKey(x.row, x.new, x.data, FALSE)
    BY <1>2 DEF Saved
  <2>3. QED BY <1>0, <2>1, <2>2 DEF Known, WithKey, Rows
<1>3. CASE x.pc = "setPassword"
  <2>1. x.data \in Keys /\ x.data <= created
    BY <1>0, <1>3 DEF ExecShape, Chosen, MadeExec, Made
  <2>2. Saved(x) = [x.row EXCEPT !.pw = x.data]
    BY <1>3 DEF Saved
  <2>3. QED BY <1>0, <2>1, <2>2 DEF Known, Rows
<1>4. CASE x.pc = "setPrimary"
  <2>1. x.new \in x.row.rec
    BY <1>4 DEF KeyNotFound
  <2>2. Saved(x) = WithPrimary(x.row, x.new)
    BY <1>4 DEF Saved
  <2>3. QED BY <1>0, <2>1, <2>2 DEF Known, WithPrimary, Rows
<1>5. CASE x.pc = "mark"
  <2>1. Saved(x) = WithMark(x.row, x.cur)
    BY <1>5 DEF Saved
  <2>2. QED BY <1>0, <2>1 DEF Known, WithMark, Rows
<1>6. CASE x.pc = "remove"
  <2>1. Saved(x) = WithoutKey(x.row, Min(x.dels))
    BY <1>6 DEF Saved
  <2>2. QED BY <1>0, <2>1 DEF Known, WithoutKey, Rows
<1>7. QED BY <1>1, <1>2, <1>3, <1>4, <1>5, <1>6 DEF Updates

\* An activity knows of no key that was not created.
LEMMA ActivityMade ==
    ASSUME AloneInv, NEW r \in Rotations, Activity(r)
    PROVE  Creates /\ MadeExec(rot'[r], created')
<1> DEFINE x == rot[r]
<1>0. /\ TypeInv /\ x \in Executions /\ ExecShape(x) /\ MadeExec(x, created)
      /\ Known(sa, created)
      /\ sa \in Rows /\ rot \in [Rotations -> Executions] /\ Row0 \in Rows
  <2>1. Row0 \in Rows
    BY KmsAssumption DEF Row0, Rows, Keys
  <2>2. QED BY <2>1 DEF AloneInv, MadeKeys, TypeInv, TypeOK
<1>1. Creates
  BY DEF Creates, Activity, LockRotation, ReuseKey, RefuseKey, CreateKey,
         StoreNewKey, ReadRow, SaveRow, FailUpdate, UnlockRotation, Batch, SkipPool,
         ModifyKms, Reachable, Unreachable, MigrationsDone, Complete, ListMarked,
         DeleteKey
<1> SUFFICES MadeExec(rot'[r], created')
  BY <1>1
<1>2. /\ \A k \in AnyKey : Made(k, created) => Made(k, created')
      /\ \A s \in Rows : Known(s, created) => Known(s, created')
  BY <1>0, <1>1, MadeStays
<1>3. CASE rot'[r] = Idle \/ KeepsKeys(x, rot'[r])
  <2>1. Known(Row0, created') /\ Known(x.row, created')
    BY <1>0, <1>2, MadeFirst DEF MadeExec, Executions
  <2>2. /\ Made(x.cur, created') /\ Made(x.old, created') /\ Made(x.new, created')
        /\ Made(x.data, created') /\ Made(NoKey, created')
    BY <1>0, <1>2 DEF MadeExec, Executions, Made
  <2>3. QED BY <1>3, <2>1, <2>2 DEF MadeExec, KeepsKeys, Idle
<1>4. CASE ReuseKey(r)
  <2>1. PICK k \in NewKeys(r) :
            rot' = [rot EXCEPT ![r].pc = "store", ![r].new = k,
                               ![r].data = sa.data[k]]
    BY <1>4 DEF ReuseKey
  <2>2. rot'[r] = [x EXCEPT !.pc = "store", !.new = k, !.data = sa.data[k]]
    BY <1>0, <2>1
  <2>3. /\ rot'[r].row = x.row /\ rot'[r].cur = x.cur /\ rot'[r].old = x.old
        /\ rot'[r].new = k /\ rot'[r].data = sa.data[k]
    BY <1>0, <2>2 DEF Executions
  <2>4. k \in sa.rec /\ k <= created /\ sa.data[k] <= created /\ k \in Keys
        /\ sa.data[k] \in Keys
    BY <1>0 DEF NewKeys, Known, Rows
  <2>5. Made(k, created') /\ Made(sa.data[k], created')
    BY <1>4, <2>4 DEF ReuseKey, Made
  <2>6. Made(rot'[r].new, created') /\ Made(rot'[r].data, created')
    BY <1>4, <2>3, <2>4 DEF ReuseKey, Made
  <2>7. QED BY <1>0, <1>2, <1>4, <2>3, <2>6 DEF MadeExec, Made, Known, ReuseKey
<1>5. CASE CreateKey(r)
  <2>1. created \in Nat /\ created' = created + 1
    BY <1>0, <1>5, KmsAssumption DEF CreateKey, TypeInv, TypeOK, Keys
  <2>2. CASE \E l \in {"create", "unlockEnd"} : Goto(r, l)
    BY <1>0, <1>3, <2>2, GotoFields DEF KeepsKeys, PCs, Held
  <2>3. CASE rot' = [rot EXCEPT ![r].pc = "store", ![r].new = created',
                                ![r].data = created']
    <3>1. rot'[r] = [x EXCEPT !.pc = "store", !.new = created', !.data = created']
      BY <1>0, <2>3
    <3>2. /\ rot'[r].row = x.row /\ rot'[r].cur = x.cur /\ rot'[r].old = x.old
          /\ rot'[r].new = created' /\ rot'[r].data = created'
      BY <1>0, <3>1 DEF Executions
    <3>3. Known(x.row, created') /\ Made(x.cur, created') /\ Made(x.old, created')
      BY <1>0, <1>2 DEF MadeExec, Executions
    <3>4. QED BY <2>1, <3>2, <3>3 DEF MadeExec, Made
  <2>4. QED BY <1>5, <2>2, <2>3 DEF CreateKey
<1>6. CASE StoreNewKey(r)
  <2>1. PICK l \in PCs : rot' = [rot EXCEPT ![r].old = sa.pw, ![r].pc = l]
    BY <1>6 DEF StoreNewKey, PCs, Held
  <2>2. rot'[r] = [x EXCEPT !.old = sa.pw, !.pc = l]
    BY <1>0, <2>1
  <2>3. /\ rot'[r].row = x.row /\ rot'[r].cur = x.cur /\ rot'[r].old = sa.pw
        /\ rot'[r].new = x.new /\ rot'[r].data = x.data
    BY <1>0, <2>2 DEF Executions
  <2>4. QED BY <1>0, <1>6, <2>3 DEF MadeExec, Made, Known, StoreNewKey
<1>7. CASE ReadRow(r)
  <2>1. rot'[r] = [x EXCEPT !.read = TRUE, !.row = sa]
    BY <1>0, <1>7 DEF ReadRow
  <2>2. /\ rot'[r].row = sa /\ rot'[r].cur = x.cur /\ rot'[r].old = x.old
        /\ rot'[r].new = x.new /\ rot'[r].data = x.data
    BY <1>0, <2>1 DEF Executions
  <2>3. QED BY <1>0, <1>7, <2>2 DEF MadeExec, Made, Known, ReadRow
<1>8. QED BY <1>0, <1>1, <1>3, <1>4, <1>5, <1>6, <1>7, ActivityFields


\* Nor does the row, or a pool.
LEMMA ActivityMadeKeys ==
    ASSUME AloneInv, NEW r \in Rotations, Activity(r) PROVE MadeKeys'
<1> DEFINE x == rot[r]
<1>0. /\ TypeInv /\ x \in Executions /\ ExecShape(x) /\ MadeExec(x, created)
      /\ MadeKeys /\ sa \in Rows /\ created \in Nat
      /\ tracked \in [Pools -> AnyKey] /\ seen \in [Pools -> AnyKey]
      /\ copy \in [Pools -> Rows \cup {None}] /\ gcp \subseteq Nat
  BY KmsAssumption DEF AloneInv, TypeInv, TypeOK, Keys
<1>1. Creates
  BY ActivityMade
<1>2. /\ \A k \in AnyKey : Made(k, created) => Made(k, created')
      /\ \A s \in Rows : Known(s, created) => Known(s, created')
  BY <1>0, <1>1, MadeStays
<1>3. Known(sa', created')
  <2>1. CASE SaveRow(r)
    <3>1. /\ x.pc \in Updates /\ ~KeyNotFound(x) /\ sa' = Saved(x)
          /\ created' = created
      BY <2>1 DEF SaveRow
    <3>2. QED BY <1>0, <3>1, SavedKnown
  <2>2. CASE ~SaveRow(r)
    <3>1. sa' = sa
      BY <2>2 DEF Activity, LockRotation, ReuseKey, RefuseKey, CreateKey,
           StoreNewKey, ReadRow, FailUpdate, UnlockRotation, Batch, SkipPool,
           ModifyKms, Reachable, Unreachable, MigrationsDone, Complete, ListMarked,
           DeleteKey
    <3>2. QED BY <1>0, <1>2, <3>1 DEF MadeKeys
  <2>3. QED BY <2>1, <2>2
<1>4. \A k \in gcp' : k <= created'
  <2>1. \/ gcp' \subseteq gcp /\ created' = created
        \/ gcp' = gcp \cup {created'} /\ created' = created + 1
    BY DEF Activity, LockRotation, ReuseKey, RefuseKey, CreateKey, SaveRow,
           StoreNewKey, ReadRow, FailUpdate, UnlockRotation, Batch, SkipPool,
           ModifyKms, Reachable, Unreachable, MigrationsDone, Complete, ListMarked,
           DeleteKey
  <2>2. \A k \in gcp : k \in Nat /\ k <= created
    BY <1>0 DEF MadeKeys
  <2>3. CASE gcp' \subseteq gcp /\ created' = created
    BY <2>2, <2>3
  <2>4. CASE gcp' = gcp \cup {created'} /\ created' = created + 1
    BY <1>0, <2>2, <2>4
  <2>5. QED BY <2>1, <2>3, <2>4
<1>5. UNCHANGED <<seen, copy>>
  BY DEF Activity, LockRotation, ReuseKey, RefuseKey, CreateKey, SaveRow,
         StoreNewKey, ReadRow, FailUpdate, UnlockRotation, Batch, SkipPool,
         ModifyKms, Reachable, Unreachable, MigrationsDone, Complete, ListMarked,
         DeleteKey, poolVars
<1>6. \A p \in Pools : tracked'[p] = tracked[p] \/ tracked'[p] = x.new
  <2>1. CASE Reachable(r)
    BY <1>0, <2>1 DEF Reachable
  <2>2. CASE ~Reachable(r)
    BY <2>2 DEF Activity, LockRotation, ReuseKey, RefuseKey, CreateKey, SaveRow,
           StoreNewKey, ReadRow, FailUpdate, UnlockRotation, Batch, SkipPool,
           ModifyKms, Unreachable, MigrationsDone, Complete, ListMarked,
           DeleteKey, poolVars
  <2>3. QED BY <2>1, <2>2
<1>7. Made(x.new, created')
  BY <1>0, <1>2 DEF MadeExec, Executions
<1>8. \A p \in Pools : Made(tracked'[p], created')
  BY <1>0, <1>2, <1>6, <1>7 DEF MadeKeys
<1>9. \A p \in Pools : /\ Made(seen'[p], created')
                       /\ copy'[p] # None => Known(copy'[p], created')
  BY <1>0, <1>2, <1>5 DEF MadeKeys
<1>10. QED BY <1>3, <1>4, <1>8, <1>9 DEF MadeKeys

-----------------------------------------------------------------------------
(* The execution nobody is in the way of, until it has moved the location.  *)

\* The workflow ends.
LEMMA EndAlone ==
    ASSUME TypeInv, NEW r \in Rotations, End(r) PROVE AloneShape(rot[r])'
<1>1. rot'[r] = Idle
  BY EndFields
<1>2. QED BY <1>1 DEF Idle, AloneShape, RowPart, StorePart, KeyPart, PoolPart,
                      Storing

\* What there is to show before the location has moved.
LEMMA UnmovedAlone ==
    ASSUME NEW r \in Rotations, ~rot'[r].moved, RowPart(rot[r])',
           rot'[r].pc \in Storing => StorePart(rot[r])'
    PROVE  AloneShape(rot[r])'
BY DEF AloneShape, StorePart, KeyPart, PoolPart

\* The parts of the invariant a step of r = alone starts from.
LEMMA AloneParts ==
    ASSUME AloneInv, NEW r \in Rotations, r = alone
    PROVE  /\ TypeInv /\ rot[r] \in Executions /\ ExecShape(rot[r])
           /\ MadeKeys /\ MadeExec(rot[r], created)
           /\ RowPart(rot[r]) /\ StorePart(rot[r]) /\ KeyPart(rot[r])
           /\ PoolPart(rot[r])
           /\ sa \in Rows /\ sa.act \subseteq sa.rec /\ sa.prim \subseteq sa.rec
           /\ rot \in [Rotations -> Executions]
<1>1. alone # None
  BY NoneAssumption, KmsAssumption
<1>2. QED BY <1>1 DEF AloneInv, AloneShape, TypeInv, TypeOK, MadeKeys, Known

\* No key yet.
LEMMA ValidateAlone ==
    ASSUME TypeInv, NEW r \in Rotations, Validate(r) PROVE AloneShape(rot[r])'
<1>1. rot'[r] = [Idle EXCEPT !.pc = "acquire", !.cur = sa.pw]
  BY DEF TypeInv, TypeOK, Validate
<1>2. ~rot'[r].moved /\ ~rot'[r].read /\ rot'[r].pc = "acquire" /\ rot'[r].dels = {}
  BY <1>1 DEF Idle
<1>3. QED BY <1>2, UnmovedAlone DEF RowPart, Storing

\* The same, or the end.
LEMMA LockRotationAlone ==
    ASSUME AloneInv, NEW r \in Rotations, r = alone, LockRotation(r) \/ RefuseKey(r)
    PROVE  AloneShape(rot[r])'
<1>0. TypeInv /\ RowPart(rot[r]) /\ rot[r].pc \in {"acquire", "create"}
  BY AloneParts DEF LockRotation, RefuseKey, At
<1>1. CASE End(r)
  BY <1>0, <1>1, EndAlone
<1>2. CASE Goto(r, "create") \/ Goto(r, "unlockEnd")
  <2>1. /\ rot'[r].pc \in {"create", "unlockEnd"} /\ rot'[r].read = rot[r].read
        /\ rot'[r].row = rot[r].row /\ rot'[r].moved = rot[r].moved
        /\ rot'[r].dels = rot[r].dels /\ sa' = sa
    BY <1>0, <1>2, GotoFields DEF LockRotation, RefuseKey, PCs, Held
  <2>2. ~rot[r].moved
    BY <1>0 DEF RowPart, Moved, Batched
  <2>3. QED BY <1>0, <2>1, <2>2, UnmovedAlone DEF RowPart, Storing
<1>3. QED BY <1>1, <1>2 DEF LockRotation, RefuseKey

\* The key is in the row.
LEMMA ReuseKeyAlone ==
    ASSUME AloneInv, NEW r \in Rotations, r = alone, ReuseKey(r)
    PROVE  AloneShape(rot[r])'
<1> DEFINE x == rot[r]
<1>0. /\ TypeInv /\ x \in Executions /\ RowPart(x) /\ x.pc = "create"
      /\ rot \in [Rotations -> Executions] /\ sa.act \subseteq sa.rec /\ sa' = sa
  BY AloneParts DEF ReuseKey, At
<1>1. PICK k \in NewKeys(r) :
          rot' = [rot EXCEPT ![r].pc = "store", ![r].new = k,
                             ![r].data = sa.data[k]]
  BY DEF ReuseKey
<1>2. rot'[r] = [x EXCEPT !.pc = "store", !.new = k, !.data = sa.data[k]]
  BY <1>0, <1>1
<1>3. /\ rot'[r].pc = "store" /\ rot'[r].read = x.read /\ rot'[r].row = x.row
      /\ rot'[r].new = k /\ rot'[r].moved = x.moved /\ rot'[r].dels = x.dels
  BY <1>0, <1>2 DEF Executions
<1>4. k \in sa'.rec
  BY <1>0 DEF NewKeys
<1>5. ~x.moved
  BY <1>0 DEF RowPart, Moved, Batched
<1>6. QED BY <1>0, <1>3, <1>4, <1>5, UnmovedAlone DEF RowPart, StorePart

\* Nobody knows of the key.
LEMMA CreateKeyAlone ==
    ASSUME AloneInv, NEW r \in Rotations, r = alone, CreateKey(r)
    PROVE  AloneShape(rot[r])'
<1> DEFINE x == rot[r]
<1>0. /\ TypeInv /\ x \in Executions /\ RowPart(x) /\ x.pc = "create"
      /\ rot \in [Rotations -> Executions] /\ sa' = sa /\ tracked' = tracked
      /\ MadeKeys /\ MadeExec(x, created) /\ sa \in Rows
      /\ sa.prim \subseteq sa.rec
  BY AloneParts DEF CreateKey, At, poolVars
<1>1. ~x.moved
  BY <1>0 DEF RowPart, Moved, Batched
<1>2. CASE \E l \in {"create", "unlockEnd"} : Goto(r, l)
  <2>1. /\ rot'[r].pc \in {"create", "unlockEnd"} /\ rot'[r].read = x.read
        /\ rot'[r].row = x.row /\ rot'[r].moved = x.moved
        /\ rot'[r].dels = x.dels
    BY <1>0, <1>2, GotoFields DEF PCs, Held
  <2>2. QED BY <1>0, <1>1, <2>1, UnmovedAlone DEF RowPart, Storing
<1>3. CASE rot' = [rot EXCEPT ![r].pc = "store", ![r].new = created',
                              ![r].data = created']
  <2>1. rot'[r] = [x EXCEPT !.pc = "store", !.new = created', !.data = created']
    BY <1>0, <1>3
  <2>2. /\ rot'[r].pc = "store" /\ rot'[r].read = x.read /\ rot'[r].row = x.row
        /\ rot'[r].new = created' /\ rot'[r].data = created'
        /\ rot'[r].cur = x.cur /\ rot'[r].moved = x.moved /\ rot'[r].dels = x.dels
    BY <1>0, <2>1 DEF Executions
  <2>3. /\ created \in Nat /\ created < MaxKey /\ MaxKey \in Nat
        /\ created' = created + 1 /\ created' \in gcp'
    BY <1>0, KmsAssumption DEF TypeInv, TypeOK, Keys, CreateKey
  <2>4. \A k \in AnyKey : Made(k, created) => k # created'
    <3>1. \A k \in AnyKey : k \in Nat
      BY KmsAssumption DEF AnyKey, NoKey
    <3>2. QED BY <2>3, <3>1 DEF Made, NoKey
  <2>5. created' # x.cur /\ \A p \in Pools : tracked[p] # created'
    BY <1>0, <2>4 DEF MadeExec, MadeKeys, Executions, TypeInv, TypeOK
  <2>6. created' \notin sa.rec
    BY <1>0, <2>4, KeyFacts DEF MadeKeys, Known, Rows, Made
  <2>7. StorePart(rot[r])'
    BY <1>0, <2>2, <2>3, <2>5, <2>6 DEF StorePart
  <2>8. QED BY <1>0, <1>1, <2>2, <2>7, UnmovedAlone DEF RowPart
<1>4. QED BY <1>2, <1>3 DEF CreateKey

\* A key that is in the row already is left as it is.
LEMMA StoreNewKeyAlone ==
    ASSUME AloneInv, NEW r \in Rotations, r = alone, StoreNewKey(r)
    PROVE  AloneShape(rot[r])'
<1> DEFINE x == rot[r]
<1>0. /\ TypeInv /\ x \in Executions /\ RowPart(x) /\ StorePart(x) /\ x.pc = "store"
      /\ rot \in [Rotations -> Executions]
      /\ sa' = sa /\ gcp' = gcp /\ tracked' = tracked
  BY AloneParts DEF StoreNewKey, At, poolVars
<1>1. PICK l \in {"unlock", "addNew", "addOld"} :
         /\ rot' = [rot EXCEPT ![r].old = sa.pw, ![r].pc = l]
         /\ l = "unlock" <=> x.new \in sa.rec
  BY DEF StoreNewKey
<1>2. rot'[r] = [x EXCEPT !.old = sa.pw, !.pc = l]
  BY <1>0, <1>1
<1>3. /\ rot'[r].pc = l /\ rot'[r].read = x.read /\ rot'[r].row = x.row
      /\ rot'[r].cur = x.cur /\ rot'[r].new = x.new /\ rot'[r].data = x.data
      /\ rot'[r].moved = x.moved /\ rot'[r].dels = x.dels
  BY <1>0, <1>2 DEF Executions
<1>4. ~x.moved
  BY <1>0 DEF RowPart, Moved, Batched
<1>5. RowPart(rot[r])'
  BY <1>0, <1>1, <1>3, <1>4 DEF RowPart
<1>6. l # "unlock" => StorePart(rot[r])'
  BY <1>0, <1>1, <1>3 DEF StorePart, Storing
<1>7. QED BY <1>1, <1>3, <1>4, <1>5, <1>6, UnmovedAlone DEF Storing

\* The copy is the row.
LEMMA ReadRowAlone ==
    ASSUME AloneInv, NEW r \in Rotations, r = alone, ReadRow(r)
    PROVE  AloneShape(rot[r])'
<1> DEFINE x == rot[r]
<1>0. /\ x \in Executions /\ RowPart(x) /\ StorePart(x) /\ KeyPart(x) /\ PoolPart(x)
      /\ rot \in [Rotations -> Executions] /\ x.pc \in Updates
      /\ UNCHANGED <<sa, gcp, pool, ontap, tracked, seen>>
  BY AloneParts DEF ReadRow, poolVars
<1>1. rot'[r] = [x EXCEPT !.read = TRUE, !.row = sa]
  BY <1>0 DEF ReadRow
<1>2. /\ rot'[r].pc = x.pc /\ rot'[r].row = sa /\ rot'[r].cur = x.cur
      /\ rot'[r].new = x.new /\ rot'[r].data = x.data /\ rot'[r].dels = x.dels
      /\ rot'[r].moved = x.moved /\ rot'[r].todo = x.todo /\ rot'[r].at = x.at
      /\ rot'[r].failed = x.failed
  BY <1>0, <1>1 DEF Executions
<1>3. RowPart(rot[r])'
  BY <1>0, <1>2 DEF RowPart
<1>4. StorePart(rot[r])' /\ KeyPart(rot[r])'
  BY <1>0, <1>2 DEF StorePart, KeyPart, Marked
<1>5. PoolPart(rot[r])'
  BY <1>0, <1>2 DEF PoolPart, PoolShape, Updates
<1>6. QED BY <1>3, <1>4, <1>5 DEF AloneShape

-----------------------------------------------------------------------------
(* The functions of service_account.go.                                    *)

\* The old key is added, and the new one is not there yet.
LEMMA AddOldAlone ==
    ASSUME AloneInv, NEW r \in Rotations, r = alone, SaveRow(r), rot[r].pc = "addOld"
    PROVE  AloneShape(rot[r])'
<1> DEFINE x == rot[r]
<1>0. /\ TypeInv /\ x \in Executions /\ ExecShape(x) /\ RowPart(x) /\ StorePart(x)
      /\ sa \in Rows /\ gcp' = gcp /\ tracked' = tracked /\ x.row = sa
      /\ x.pc \in Updates /\ rot' = [rot EXCEPT ![r] = Continued(x)]
  BY AloneParts DEF SaveRow, poolVars, RowPart
<1>1. sa' = WithKey(sa, x.cur, x.old, TRUE)
  BY <1>0 DEF SaveRow, Saved
<1>2. /\ ~rot'[r].read /\ rot'[r].pc = NextPC[x.pc] /\ rot'[r].cur = x.cur
      /\ rot'[r].new = x.new /\ rot'[r].data = x.data
      /\ rot'[r].moved <=> x.moved \/ x.pc = "setPassword"
      /\ rot'[r].dels = x.dels
  BY <1>0, ContinuedFields
<1>3. NextPC[x.pc] = "addNew"
  BY DEF NextPC
<1>4. ~x.moved
  BY <1>0 DEF RowPart, Moved, Batched
<1>5. sa'.rec = sa.rec \cup {x.cur} /\ sa'.prim = sa.prim \cup {x.cur}
  BY <1>0, <1>1 DEF WithKey, Rows
<1>6. StorePart(rot[r])'
  BY <1>0, <1>2, <1>3, <1>5 DEF StorePart, Storing
<1>7. QED BY <1>0, <1>2, <1>3, <1>4, <1>6, UnmovedAlone DEF RowPart

\* The new key is added, with its data.
LEMMA AddNewAlone ==
    ASSUME AloneInv, NEW r \in Rotations, r = alone, SaveRow(r), rot[r].pc = "addNew"
    PROVE  AloneShape(rot[r])'
<1> DEFINE x == rot[r]
<1>0. /\ TypeInv /\ x \in Executions /\ ExecShape(x) /\ RowPart(x) /\ StorePart(x)
      /\ sa \in Rows /\ gcp' = gcp /\ tracked' = tracked /\ x.row = sa
      /\ x.pc \in Updates /\ rot' = [rot EXCEPT ![r] = Continued(x)]
  BY AloneParts DEF SaveRow, poolVars, RowPart
<1>1. sa' = WithKey(sa, x.new, x.data, FALSE) /\ x.new \in Keys
  BY <1>0 DEF SaveRow, Saved, ExecShape, Chosen
<1>2. /\ ~rot'[r].read /\ rot'[r].pc = NextPC[x.pc] /\ rot'[r].cur = x.cur
      /\ rot'[r].new = x.new /\ rot'[r].data = x.data
      /\ rot'[r].moved <=> x.moved \/ x.pc = "setPassword"
      /\ rot'[r].dels = x.dels
  BY <1>0, ContinuedFields
<1>3. NextPC[x.pc] = "setPassword"
  BY DEF NextPC
<1>4. ~x.moved
  BY <1>0 DEF RowPart, Moved, Batched
<1>5. /\ sa'.act = sa.act \cup {x.new} /\ sa'.prim = sa.prim
      /\ sa'.data[x.new] = x.data
  BY <1>0, <1>1 DEF WithKey, Rows
<1>6. StorePart(rot[r])'
  BY <1>0, <1>2, <1>3, <1>5 DEF StorePart, Storing
<1>7. QED BY <1>0, <1>2, <1>3, <1>4, <1>6, UnmovedAlone DEF RowPart

\* The location moves to the new key.
LEMMA SetPasswordAlone ==
    ASSUME AloneInv, NEW r \in Rotations, r = alone, SaveRow(r),
           rot[r].pc = "setPassword"
    PROVE  AloneShape(rot[r])'
<1> DEFINE x == rot[r]
<1>0. /\ TypeInv /\ x \in Executions /\ ExecShape(x) /\ RowPart(x) /\ StorePart(x)
      /\ sa \in Rows /\ gcp' = gcp /\ tracked' = tracked /\ x.row = sa
      /\ x.pc \in Updates /\ rot' = [rot EXCEPT ![r] = Continued(x)]
  BY AloneParts DEF SaveRow, poolVars, RowPart
<1>1. sa' = [sa EXCEPT !.pw = x.data]
  BY <1>0 DEF SaveRow, Saved
<1>2. /\ ~rot'[r].read /\ rot'[r].pc = NextPC[x.pc] /\ rot'[r].cur = x.cur
      /\ rot'[r].new = x.new /\ rot'[r].data = x.data /\ rot'[r].dels = x.dels
  BY <1>0, ContinuedFields
<1>3. NextPC[x.pc] = "unlock"
  BY DEF NextPC
<1>4. /\ x.data = x.new /\ x.new \in gcp /\ x.new # x.cur /\ x.new \notin sa.prim
      /\ x.new \in sa.act /\ sa.data[x.new] = x.new /\ x.dels = {}
      /\ \A p \in Pools : tracked[p] # x.new
  BY <1>0 DEF StorePart, Storing, RowPart
<1>5. /\ sa'.act = sa.act /\ sa'.prim = sa.prim /\ sa'.data = sa.data
      /\ sa'.pw = x.new
  BY <1>0, <1>1, <1>4 DEF Rows
<1>6. RowPart(rot[r])' /\ StorePart(rot[r])'
  BY <1>2, <1>3, <1>4 DEF RowPart, StorePart, Storing, Moved
<1>7. KeyPart(rot[r])'
  BY <1>0, <1>2, <1>3, <1>4, <1>5 DEF KeyPart
<1>8. PoolPart(rot[r])'
  BY <1>0, <1>2, <1>3, <1>4 DEF PoolPart, Batched
<1>9. QED BY <1>6, <1>7, <1>8 DEF AloneShape

\* Where an execution goes on from its last three updates, its keys and its pools
\* stay.
LEMMA LaterAlone ==
    ASSUME TypeInv, NEW r \in Rotations, rot[r].pc \in {"setPrimary", "mark", "remove"},
           PoolPart(rot[r]), RowPart(rot[r]),
           rot' = [rot EXCEPT ![r] = Continued(rot[r])],
           UNCHANGED <<pool, ontap, tracked, seen>>,
           KeyPart(rot[r])'
    PROVE  AloneShape(rot[r])'
<1> DEFINE x == rot[r]
<1>1. /\ ~rot'[r].read /\ rot'[r].pc = NextPC[x.pc]
      /\ rot'[r].new = x.new /\ rot'[r].todo = x.todo
      /\ rot'[r].at = x.at /\ rot'[r].failed = x.failed
      /\ rot'[r].dels = IF x.pc = "remove" THEN x.dels \ {Min(x.dels)} ELSE x.dels
      /\ rot'[r].moved <=> x.moved \/ x.pc = "setPassword"
  BY ContinuedFields DEF Updates
<1>2. /\ NextPC[x.pc] \in {"mark", "list", "delete"}
      /\ x.pc # "remove" => NextPC[x.pc] \in {"mark", "list"}
  BY DEF NextPC
<1>3. RowPart(rot[r])' /\ StorePart(rot[r])'
  <2>1. rot'[r].pc # "delete" => rot'[r].dels = {}
    <3>1. CASE x.pc = "remove"
      BY <1>1, <3>1 DEF NextPC
    <3>2. CASE x.pc # "remove"
      BY <1>1, <3>2 DEF RowPart
    <3>3. QED BY <3>1, <3>2
  <2>2. QED BY <1>1, <1>2, <2>1 DEF RowPart, StorePart, Storing, Moved, Batched
<1>4. PoolPart(rot[r])'
  BY <1>1, <1>2 DEF PoolPart, PoolShape, Batched
<1>5. QED BY <1>3, <1>4 DEF AloneShape

\* The new key becomes the only primary one.
LEMMA SetPrimaryAlone ==
    ASSUME AloneInv, NEW r \in Rotations, r = alone, SaveRow(r),
           rot[r].pc = "setPrimary"
    PROVE  AloneShape(rot[r])'
<1> DEFINE x == rot[r]
<1>0. /\ TypeInv /\ x \in Executions /\ RowPart(x) /\ KeyPart(x) /\ PoolPart(x)
      /\ sa \in Rows /\ gcp' = gcp /\ x.row = sa
      /\ x.pc \in Updates /\ rot' = [rot EXCEPT ![r] = Continued(x)]
      /\ UNCHANGED <<pool, ontap, tracked, seen>>
  BY AloneParts DEF SaveRow, poolVars, RowPart
<1>1. sa' = WithPrimary(sa, x.new)
  BY <1>0 DEF SaveRow, Saved
<1>2. /\ rot'[r].pc = NextPC[x.pc] /\ rot'[r].cur = x.cur
      /\ rot'[r].new = x.new /\ rot'[r].data = x.data /\ rot'[r].dels = x.dels
      /\ rot'[r].moved <=> x.moved \/ x.pc = "setPassword"
  BY <1>0, ContinuedFields
<1>3. /\ sa'.act = sa.act /\ sa'.prim = {x.new} /\ sa'.data = sa.data
      /\ sa'.pw = sa.data[x.new] /\ x.dels = {}
  BY <1>0, <1>1 DEF WithPrimary, Rows, RowPart
<1>4. KeyPart(rot[r])'
  BY <1>0, <1>2, <1>3 DEF KeyPart
<1>5. QED BY <1>0, <1>4, LaterAlone

\* The old key is another one.
LEMMA MarkAlone ==
    ASSUME AloneInv, NEW r \in Rotations, r = alone, SaveRow(r), rot[r].pc = "mark"
    PROVE  AloneShape(rot[r])'
<1> DEFINE x == rot[r]
<1>0. /\ TypeInv /\ x \in Executions /\ RowPart(x) /\ KeyPart(x) /\ PoolPart(x)
      /\ sa \in Rows /\ gcp' = gcp /\ x.row = sa
      /\ x.pc \in Updates /\ rot' = [rot EXCEPT ![r] = Continued(x)]
      /\ UNCHANGED <<pool, ontap, tracked, seen>>
  BY AloneParts DEF SaveRow, poolVars, RowPart
<1>1. sa' = WithMark(sa, x.cur)
  BY <1>0 DEF SaveRow, Saved
<1>2. /\ rot'[r].pc = NextPC[x.pc] /\ rot'[r].cur = x.cur
      /\ rot'[r].new = x.new /\ rot'[r].data = x.data /\ rot'[r].dels = x.dels
      /\ rot'[r].moved <=> x.moved \/ x.pc = "setPassword"
  BY <1>0, ContinuedFields
<1>3. /\ sa'.act = sa.act \ {x.cur} /\ sa'.prim = sa.prim \ {x.cur}
      /\ sa'.data = sa.data /\ sa'.pw = sa.pw /\ x.dels = {}
  BY <1>0, <1>1 DEF WithMark, Rows, RowPart
<1>4. KeyPart(rot[r])'
  BY <1>0, <1>2, <1>3 DEF KeyPart
<1>5. QED BY <1>0, <1>4, LaterAlone

\* So is a key that is removed.
LEMMA RemoveAlone ==
    ASSUME AloneInv, NEW r \in Rotations, r = alone, SaveRow(r), rot[r].pc = "remove"
    PROVE  AloneShape(rot[r])'
<1> DEFINE x == rot[r]
<1>0. /\ TypeInv /\ x \in Executions /\ ExecShape(x) /\ RowPart(x) /\ KeyPart(x)
      /\ PoolPart(x) /\ sa \in Rows /\ gcp' = gcp /\ x.row = sa
      /\ x.pc \in Updates /\ rot' = [rot EXCEPT ![r] = Continued(x)]
      /\ UNCHANGED <<pool, ontap, tracked, seen>>
  BY AloneParts DEF SaveRow, poolVars, RowPart
<1> DEFINE m == Min(x.dels)
<1>1. sa' = WithoutKey(sa, m) /\ m \in x.dels
  BY <1>0, MinKey DEF SaveRow, Saved, ExecShape, Executions
<1>2. /\ rot'[r].pc = NextPC[x.pc] /\ rot'[r].cur = x.cur
      /\ rot'[r].new = x.new /\ rot'[r].data = x.data
      /\ rot'[r].dels = x.dels \ {m}
      /\ rot'[r].moved <=> x.moved \/ x.pc = "setPassword"
  BY <1>0, ContinuedFields
<1> HIDE DEF m
<1>3. /\ sa'.rec = sa.rec \ {m} /\ sa'.act = sa.act \ {m} /\ sa'.prim = sa.prim \ {m}
      /\ sa'.data = sa.data /\ sa'.pw = sa.pw
  BY <1>0, <1>1 DEF WithoutKey, Rows
<1>4. KeyPart(rot[r])'
  BY <1>0, <1>1, <1>2, <1>3 DEF KeyPart, Marked
<1>5. QED BY <1>0, <1>4, LaterAlone

\* The six functions.
LEMMA SaveRowAlone ==
    ASSUME AloneInv, NEW r \in Rotations, r = alone, SaveRow(r)
    PROVE  AloneShape(rot[r])'
BY AddOldAlone, AddNewAlone, SetPasswordAlone, SetPrimaryAlone, MarkAlone, RemoveAlone
   DEF SaveRow, Updates

\* An update that fails leaves the row as it was.
LEMMA FailUpdateAlone ==
    ASSUME AloneInv, NEW r \in Rotations, r = alone, FailUpdate(r)
    PROVE  AloneShape(rot[r])'
<1> DEFINE x == rot[r]
<1>0. /\ TypeInv /\ x \in Executions /\ ExecShape(x) /\ RowPart(x) /\ StorePart(x)
      /\ KeyPart(x) /\ PoolPart(x) /\ sa.act \subseteq sa.rec /\ x.pc \in Updates
      /\ UNCHANGED <<sa, gcp, pool, ontap, tracked, seen>>
  BY AloneParts DEF FailUpdate, poolVars
<1>1. CASE End(r)
  BY <1>0, <1>1, EndAlone
<1>2. CASE /\ x.pc \in {"mark", "remove"}
           /\ rot' = [rot EXCEPT ![r] = Continued(x)]
  <2>0. /\ rot'[r].pc = NextPC[x.pc] /\ rot'[r].cur = x.cur
        /\ rot'[r].new = x.new /\ rot'[r].data = x.data
        /\ rot'[r].dels = IF x.pc = "remove" THEN x.dels \ {Min(x.dels)} ELSE x.dels
        /\ rot'[r].moved <=> x.moved \/ x.pc = "setPassword"
    BY <1>0, <1>2, ContinuedFields
  <2>1. rot'[r].dels \subseteq x.dels /\ (rot'[r].moved <=> x.moved)
    BY <1>2, <2>0
  <2>2. KeyPart(rot[r])'
    BY <1>0, <1>2, <2>0, <2>1 DEF KeyPart, Marked
  <2>3. QED BY <1>0, <1>2, <2>2, LaterAlone
<1>3. ASSUME NEW l \in {"store", "unlockEnd", "complete"},
             l \in {"store", "unlockEnd"} => x.pc \in Writing,
             l = "complete" => x.pc \in {"setPrimary", "mark"},
             rot' = [rot EXCEPT ![r].pc = l, ![r].read = FALSE, ![r].row = Row0]
      PROVE  AloneShape(rot[r])'
  <2>0. l \in PCs
    BY DEF PCs, Held
  <2>1. /\ rot'[r].pc = l /\ ~rot'[r].read /\ rot'[r].cur = x.cur
        /\ rot'[r].new = x.new /\ rot'[r].data = x.data /\ rot'[r].moved = x.moved
        /\ rot'[r].todo = x.todo /\ rot'[r].at = x.at /\ rot'[r].failed = x.failed
        /\ rot'[r].dels = x.dels
    BY <1>0, <1>3, <2>0, AgainFields
  <2>2. RowPart(rot[r])'
    BY <1>0, <1>3, <2>1 DEF RowPart, Moved, Batched, Writing
  <2>3. CASE l \in {"store", "unlockEnd"}
    <3>1. ~x.moved
      BY <1>0, <1>3, <2>3 DEF RowPart, Moved, Batched, Writing
    <3>2. l = "store" => StorePart(rot[r])'
      <4>1. x.pc \in Storing /\ x.pc # "store"
        BY <1>3, <2>3 DEF Storing, Writing
      <4>2. /\ x.data = x.new /\ x.new \in gcp /\ x.new # x.cur
            /\ x.new \notin sa.prim /\ \A p \in Pools : tracked[p] # x.new
        BY <1>0, <4>1 DEF StorePart
      <4>3. QED BY <1>0, <2>1, <4>2 DEF StorePart
    <3>3. QED BY <2>1, <2>2, <2>3, <3>1, <3>2, UnmovedAlone DEF Storing
  <2>4. CASE l = "complete"
    <3>1. StorePart(rot[r])' /\ KeyPart(rot[r])'
      BY <1>0, <2>1, <2>4 DEF StorePart, Storing, KeyPart, Marked
    <3>2. PoolPart(rot[r])'
      BY <1>0, <1>3, <2>1, <2>4 DEF PoolPart, PoolShape, Batched
    <3>3. QED BY <2>2, <3>1, <3>2 DEF AloneShape
  <2>5. QED BY <2>3, <2>4
<1>4. QED BY <1>1, <1>2, <1>3 DEF FailUpdate, Writing

-----------------------------------------------------------------------------
(* The execution nobody is in the way of, after it has moved the location.  *)

\* What there is to show when the row and the keys of the execution stay.
LEMMA KeptAlone ==
    ASSUME NEW r \in Rotations, RowPart(rot[r]), KeyPart(rot[r]), sa' = sa,
           rot[r].new \in gcp => rot[r].new \in gcp',
           rot'[r].pc \in Moved, rot'[r].read = rot[r].read,
           rot'[r].row = rot[r].row, rot'[r].cur = rot[r].cur,
           rot'[r].new = rot[r].new, rot'[r].data = rot[r].data,
           rot'[r].moved = rot[r].moved,
           rot'[r].pc \notin {"delete", "remove"} => rot'[r].dels = {},
           rot[r].moved => rot'[r].dels \subseteq Marked,
           rot[r].moved /\ rot'[r].pc \in {"mark", "list", "delete", "remove"} =>
              rot[r].new \in sa.prim,
           PoolPart(rot[r])'
    PROVE  AloneShape(rot[r])'
<1>1. RowPart(rot[r])'
  BY DEF RowPart
<1>2. StorePart(rot[r])'
  BY DEF StorePart, Storing, Moved, Batched
<1>3. KeyPart(rot[r])'
  BY DEF KeyPart, Marked
<1>4. QED BY <1>1, <1>2, <1>3 DEF AloneShape

\* The lock is given back; no pool remembers the key yet.
LEMMA UnlockRotationAlone ==
    ASSUME AloneInv, NEW r \in Rotations, r = alone, UnlockRotation(r)
    PROVE  AloneShape(rot[r])'
<1> DEFINE x == rot[r]
<1>0. /\ TypeInv /\ RowPart(x) /\ KeyPart(x) /\ PoolPart(x)
      /\ UNCHANGED <<sa, gcp, ontap, tracked>>
  BY AloneParts DEF UnlockRotation, poolVars
<1>1. CASE End(r)
  BY <1>0, <1>1, EndAlone
<1>2. CASE At(r, "unlock") /\ Goto(r, "batch")
  <2>0. "batch" \in PCs /\ x.pc = "unlock"
    BY <1>2 DEF PCs, At
  <2>1. /\ rot'[r].pc = "batch" /\ rot'[r].read = x.read /\ rot'[r].row = x.row
        /\ rot'[r].cur = x.cur /\ rot'[r].new = x.new /\ rot'[r].data = x.data
        /\ rot'[r].moved = x.moved /\ rot'[r].dels = x.dels
    BY <1>0, <1>2, <2>0, GotoFields
  <2>2. x.dels = {}
    BY <1>0, <2>0 DEF RowPart
  <2>3. PoolPart(rot[r])'
    BY <1>0, <2>0, <2>1 DEF PoolPart, Batched
  <2>4. QED BY <1>0, <2>1, <2>2, <2>3, KeptAlone DEF Moved
<1>3. QED BY <1>1, <1>2 DEF UnlockRotation

\* No pool is being created: a READY one is to be migrated.
LEMMA BatchAlone ==
    ASSUME AloneInv, NEW r \in Rotations, r = alone, Batch(r)
    PROVE  AloneShape(rot[r])'
<1> DEFINE x == rot[r]
           t == {p \in Pools : pool[p] \in {"READY", "ERROR"}}
<1>0. /\ TypeInv /\ x \in Executions /\ RowPart(x) /\ KeyPart(x) /\ PoolPart(x)
      /\ rot \in [Rotations -> Executions] /\ x.pc = "batch"
      /\ UNCHANGED <<sa, gcp, pool, ontap, tracked, seen>>
  BY AloneParts DEF Batch, At, poolVars
<1>1. CASE End(r)
  BY <1>0, <1>1, EndAlone
<1>2. CASE ~End(r)
  <2>1. /\ rot'[r] = [x EXCEPT !.pc = "migrate", !.todo = t]
        /\ \A p \in Pools : pool[p] \notin Creating
    BY <1>0, <1>2 DEF Batch
  <2>2. /\ rot'[r].pc = "migrate" /\ rot'[r].read = x.read /\ rot'[r].row = x.row
        /\ rot'[r].cur = x.cur /\ rot'[r].new = x.new /\ rot'[r].data = x.data
        /\ rot'[r].moved = x.moved /\ rot'[r].dels = x.dels /\ rot'[r].todo = t
    BY <1>0, <2>1 DEF Executions
  <2>3. x.dels = {}
    BY <1>0 DEF RowPart
  <2>4. \A p \in Pools : PoolShape(rot[r], p)'
    BY <1>0, <2>1, <2>2 DEF PoolShape, Creating
  <2>5. PoolPart(rot[r])'
    BY <1>0, <2>2, <2>4 DEF PoolPart, Batched
  <2>6. QED BY <1>0, <2>2, <2>3, <2>5, KeptAlone DEF Moved, Batched
<1>3. QED BY <1>1, <1>2

\* A pool that remembers the new key has it; the others skipped are not READY.
LEMMA SkipPoolAlone ==
    ASSUME AloneInv, NEW r \in Rotations, r = alone, NEW p \in Pools, SkipPool(r, p)
    PROVE  AloneShape(rot[r])'
<1> DEFINE x == rot[r]
<1>0. /\ TypeInv /\ x \in Executions /\ RowPart(x) /\ KeyPart(x) /\ PoolPart(x)
      /\ rot \in [Rotations -> Executions] /\ x.pc = "migrate"
      /\ pool[p] \in {"ERROR", "DELETING"} \/ tracked[p] = x.new
      /\ UNCHANGED <<sa, gcp, pool, ontap, tracked, seen>>
  BY AloneParts DEF SkipPool, At, poolVars
<1>1. rot'[r] = [x EXCEPT !.todo = x.todo \ {p}]
  BY <1>0 DEF SkipPool
<1>2. /\ rot'[r].pc = "migrate" /\ rot'[r].read = x.read /\ rot'[r].row = x.row
      /\ rot'[r].cur = x.cur /\ rot'[r].new = x.new /\ rot'[r].data = x.data
      /\ rot'[r].moved = x.moved /\ rot'[r].dels = x.dels
      /\ rot'[r].todo = x.todo \ {p} /\ rot'[r].failed = x.failed
  BY <1>0, <1>1 DEF Executions
<1>3. x.dels = {}
  BY <1>0 DEF RowPart
<1>4. PoolPart(rot[r])'
  <2> SUFFICES ASSUME x.moved PROVE PoolPart(rot[r])'
    BY <1>2 DEF PoolPart
  <2>1. /\ \A q \in Pools : tracked[q] = x.new => ontap[q] = x.new
        /\ \A q \in Pools : PoolShape(x, q)
    BY <1>0 DEF PoolPart, Batched
  <2>2. \A q \in Pools : PoolShape(rot[r], q)'
    BY <1>0, <1>2, <2>1 DEF PoolShape
  <2>3. QED BY <1>0, <1>2, <2>1, <2>2 DEF PoolPart, Batched
<1>5. QED BY <1>0, <1>2, <1>3, <1>4, KeptAlone DEF Moved, Batched

\* The pool gets the new key, or its migration has failed.
LEMMA ModifyKmsAlone ==
    ASSUME AloneInv, NEW r \in Rotations, r = alone, NEW p \in Pools, ModifyKms(r, p)
    PROVE  AloneShape(rot[r])'
<1> DEFINE x == rot[r]
<1>0. /\ TypeInv /\ x \in Executions /\ RowPart(x) /\ KeyPart(x) /\ PoolPart(x)
      /\ rot \in [Rotations -> Executions] /\ x.pc = "migrate" /\ p \in x.todo
      /\ tracked[p] # x.new /\ ontap \in [Pools -> AnyKey]
      /\ UNCHANGED <<sa, gcp, pool, tracked, seen>>
  BY AloneParts DEF ModifyKms, At, TypeInv, TypeOK
<1>1. \/ /\ rot'[r] = [x EXCEPT !.pc = "verify", !.at = p]
         /\ ontap' = [ontap EXCEPT ![p] = x.data]
      \/ /\ rot'[r] = [x EXCEPT !.todo = x.todo \ {p}, !.failed = TRUE]
         /\ ontap' = ontap \/ ontap' = [ontap EXCEPT ![p] = x.data]
  BY <1>0 DEF ModifyKms
<1>2. /\ rot'[r].read = x.read /\ rot'[r].row = x.row
      /\ rot'[r].cur = x.cur /\ rot'[r].new = x.new /\ rot'[r].data = x.data
      /\ rot'[r].moved = x.moved /\ rot'[r].dels = x.dels
  BY <1>0, <1>1 DEF Executions
<1>3. \/ /\ rot'[r].pc = "verify" /\ rot'[r].at = p /\ rot'[r].todo = x.todo
         /\ rot'[r].failed = x.failed /\ ontap'[p] = x.data
      \/ /\ rot'[r].pc = "migrate" /\ rot'[r].todo = x.todo \ {p}
         /\ rot'[r].failed
  BY <1>0, <1>1 DEF Executions
<1>4. \A q \in Pools : ontap'[q] = ontap[q] \/ ontap'[q] = x.data
  BY <1>0, <1>1
<1>5. x.dels = {}
  BY <1>0 DEF RowPart
<1>6. PoolPart(rot[r])'
  <2> SUFFICES ASSUME x.moved PROVE PoolPart(rot[r])'
    BY <1>2 DEF PoolPart
  <2>1. /\ x.data = x.new
        /\ \A q \in Pools : tracked[q] = x.new => ontap[q] = x.new
        /\ \A q \in Pools : PoolShape(x, q)
    BY <1>0 DEF PoolPart, KeyPart, Batched
  <2>2. \A q \in Pools : PoolShape(rot[r], q)'
    BY <1>0, <1>2, <1>3, <1>4, <2>1 DEF PoolShape
  <2>3. QED BY <1>0, <1>2, <1>3, <1>4, <2>1, <2>2 DEF PoolPart, Batched
<1>7. QED BY <1>0, <1>2, <1>3, <1>5, <1>6, KeptAlone DEF Moved, Batched

\* The pool that is remembered to have the new key has it.
LEMMA ReachableAlone ==
    ASSUME AloneInv, NEW r \in Rotations, r = alone, Reachable(r)
    PROVE  AloneShape(rot[r])'
<1> DEFINE x == rot[r]
           p == rot[r].at
<1>0. /\ TypeInv /\ x \in Executions /\ RowPart(x) /\ KeyPart(x) /\ PoolPart(x)
      /\ rot \in [Rotations -> Executions] /\ x.pc = "verify" /\ p \in Pools
      /\ tracked \in [Pools -> AnyKey]
      /\ UNCHANGED <<sa, gcp, pool, ontap, seen>>
  BY AloneParts DEF Reachable, At, TypeInv, TypeOK, ExecShape
<1>1. rot'[r] = [x EXCEPT !.pc = "migrate", !.at = None, !.todo = x.todo \ {p}]
  BY <1>0 DEF Reachable
<1>2. /\ rot'[r].pc = "migrate" /\ rot'[r].read = x.read /\ rot'[r].row = x.row
      /\ rot'[r].cur = x.cur /\ rot'[r].new = x.new /\ rot'[r].data = x.data
      /\ rot'[r].moved = x.moved /\ rot'[r].dels = x.dels
      /\ rot'[r].todo = x.todo \ {p} /\ rot'[r].failed = x.failed
  BY <1>0, <1>1 DEF Executions
<1>3. x.dels = {}
  BY <1>0 DEF RowPart
<1>4. \A q \in Pools : tracked'[q] = tracked[q] \/ (q = p /\ tracked'[q] = x.new)
  BY <1>0 DEF Reachable
<1>5. PoolPart(rot[r])'
  <2> SUFFICES ASSUME x.moved PROVE PoolPart(rot[r])'
    BY <1>2 DEF PoolPart
  <2>1. /\ ontap[p] = x.new
        /\ \A q \in Pools : tracked[q] = x.new => ontap[q] = x.new
        /\ \A q \in Pools : PoolShape(x, q)
    BY <1>0 DEF PoolPart, Batched
  <2>2. \A q \in Pools : PoolShape(rot[r], q)'
    BY <1>0, <1>2, <2>1 DEF PoolShape
  <2>3. QED BY <1>0, <1>2, <1>4, <2>1, <2>2 DEF PoolPart, Batched
<1>6. QED BY <1>0, <1>2, <1>3, <1>5, KeptAlone DEF Moved, Batched

\* A pool that gets its old key back does not remember the new one, is not being
\* created, and keeps the rotation from completing.
LEMMA UnreachableAlone ==
    ASSUME AloneInv, NEW r \in Rotations, r = alone, Unreachable(r)
    PROVE  AloneShape(rot[r])'
<1> DEFINE x == rot[r]
           p == rot[r].at
<1>0. /\ TypeInv /\ x \in Executions /\ RowPart(x) /\ KeyPart(x) /\ PoolPart(x)
      /\ rot \in [Rotations -> Executions] /\ x.pc = "verify" /\ p \in Pools
      /\ ontap \in [Pools -> AnyKey]
      /\ UNCHANGED <<sa, gcp, pool, tracked, seen>>
  BY AloneParts DEF Unreachable, At, TypeInv, TypeOK, ExecShape
<1>1. rot'[r] = [x EXCEPT !.pc = "migrate", !.at = None, !.todo = x.todo \ {p},
                          !.failed = TRUE]
  BY <1>0 DEF Unreachable
<1>2. /\ rot'[r].pc = "migrate" /\ rot'[r].read = x.read /\ rot'[r].row = x.row
      /\ rot'[r].cur = x.cur /\ rot'[r].new = x.new /\ rot'[r].data = x.data
      /\ rot'[r].moved = x.moved /\ rot'[r].dels = x.dels
      /\ rot'[r].todo = x.todo \ {p} /\ rot'[r].failed
  BY <1>0, <1>1 DEF Executions
<1>3. x.dels = {}
  BY <1>0 DEF RowPart
<1>4. \A q \in Pools : q = p \/ ontap'[q] = ontap[q]
  BY <1>0 DEF Unreachable
<1>5. PoolPart(rot[r])'
  <2> SUFFICES ASSUME x.moved PROVE PoolPart(rot[r])'
    BY <1>2 DEF PoolPart
  <2>1. /\ tracked[p] # x.new /\ p \in x.todo
        /\ \A q \in Pools : tracked[q] = x.new => ontap[q] = x.new
        /\ \A q \in Pools : PoolShape(x, q)
    BY <1>0 DEF PoolPart, Batched
  <2>2. \A q \in Pools : PoolShape(rot[r], q)'
    BY <1>0, <1>2, <1>4, <2>1 DEF PoolShape
  <2>3. QED BY <1>0, <1>2, <1>4, <2>1, <2>2 DEF PoolPart, Batched
<1>6. QED BY <1>0, <1>2, <1>3, <1>5, KeptAlone DEF Moved, Batched

\* No pool is left to be migrated and none has failed: every READY one has the
\* new key.
LEMMA MigrationsDoneAlone ==
    ASSUME AloneInv, NEW r \in Rotations, r = alone, MigrationsDone(r)
    PROVE  AloneShape(rot[r])'
<1> DEFINE x == rot[r]
<1>0. /\ TypeInv /\ RowPart(x) /\ KeyPart(x) /\ PoolPart(x)
      /\ x.pc = "migrate" /\ x.todo = {}
      /\ UNCHANGED <<sa, gcp, pool, ontap, tracked, seen>>
  BY AloneParts DEF MigrationsDone, At, poolVars
<1>1. CASE End(r)
  BY <1>0, <1>1, EndAlone
<1>2. CASE ~x.failed /\ Goto(r, "complete")
  <2>0. "complete" \in PCs
    BY DEF PCs
  <2>1. /\ rot'[r].pc = "complete" /\ rot'[r].read = x.read /\ rot'[r].row = x.row
        /\ rot'[r].cur = x.cur /\ rot'[r].new = x.new /\ rot'[r].data = x.data
        /\ rot'[r].moved = x.moved /\ rot'[r].dels = x.dels /\ rot'[r].todo = x.todo
    BY <1>0, <1>2, <2>0, GotoFields
  <2>2. x.dels = {}
    BY <1>0 DEF RowPart
  <2>3. PoolPart(rot[r])'
    BY <1>0, <1>2, <2>1 DEF PoolPart, PoolShape, Batched
  <2>4. QED BY <1>0, <2>1, <2>2, <2>3, KeptAlone DEF Moved, Batched
<1>3. QED BY <1>1, <1>2 DEF MigrationsDone

\* Nothing but the step changes.
LEMMA CompleteAlone ==
    ASSUME AloneInv, NEW r \in Rotations, r = alone, Complete(r)
    PROVE  AloneShape(rot[r])'
<1> DEFINE x == rot[r]
<1>0. /\ TypeInv /\ RowPart(x) /\ KeyPart(x) /\ PoolPart(x) /\ x.pc = "complete"
      /\ UNCHANGED <<sa, gcp, pool, ontap, tracked, seen>>
  BY AloneParts DEF Complete, At, poolVars
<1>1. CASE End(r)
  BY <1>0, <1>1, EndAlone
<1>2. CASE ~End(r)
  <2>0. PICK l \in {"list", "setPrimary"} :
            Goto(r, l) /\ (l = "list" => x.new \in sa.prim)
    BY <1>2 DEF Complete
  <2>1. l \in PCs
    BY DEF PCs, Updates
  <2>2. /\ rot'[r].pc = l /\ rot'[r].read = x.read /\ rot'[r].row = x.row
        /\ rot'[r].cur = x.cur /\ rot'[r].new = x.new /\ rot'[r].data = x.data
        /\ rot'[r].moved = x.moved /\ rot'[r].dels = x.dels /\ rot'[r].todo = x.todo
        /\ rot'[r].failed = x.failed
    BY <1>0, <2>0, <2>1, GotoFields
  <2>3. x.dels = {}
    BY <1>0 DEF RowPart
  <2>4. PoolPart(rot[r])'
    BY <1>0, <2>0, <2>2 DEF PoolPart, PoolShape, Batched
  <2>5. QED BY <1>0, <2>0, <2>2, <2>3, <2>4, KeptAlone DEF Moved, Batched
<1>3. QED BY <1>1, <1>2

\* The keys to delete are the marked ones.
LEMMA ListMarkedAlone ==
    ASSUME AloneInv, NEW r \in Rotations, r = alone, ListMarked(r)
    PROVE  AloneShape(rot[r])'
<1> DEFINE x == rot[r]
<1>0. /\ TypeInv /\ x \in Executions /\ RowPart(x) /\ KeyPart(x) /\ PoolPart(x)
      /\ rot \in [Rotations -> Executions] /\ x.pc = "list"
      /\ UNCHANGED <<sa, gcp, pool, ontap, tracked, seen>>
  BY AloneParts DEF ListMarked, At, poolVars
<1>1. rot'[r] = [x EXCEPT !.pc = "delete", !.dels = Marked]
  BY <1>0 DEF ListMarked
<1>2. /\ rot'[r].pc = "delete" /\ rot'[r].read = x.read /\ rot'[r].row = x.row
      /\ rot'[r].cur = x.cur /\ rot'[r].new = x.new /\ rot'[r].data = x.data
      /\ rot'[r].moved = x.moved /\ rot'[r].dels = Marked /\ rot'[r].todo = x.todo
      /\ rot'[r].failed = x.failed
  BY <1>0, <1>1 DEF Executions
<1>3. PoolPart(rot[r])'
  BY <1>0, <1>2 DEF PoolPart, PoolShape, Batched
<1>4. x.moved => x.new \in sa.prim
  BY <1>0 DEF KeyPart
<1>5. QED BY <1>0, <1>2, <1>3, <1>4, KeptAlone DEF Moved, Batched

\* The new key is not among them.
LEMMA DeleteKeyAlone ==
    ASSUME AloneInv, NEW r \in Rotations, r = alone, DeleteKey(r)
    PROVE  AloneShape(rot[r])'
<1> DEFINE x == rot[r]
<1>0. /\ TypeInv /\ x \in Executions /\ RowPart(x) /\ KeyPart(x) /\ PoolPart(x)
      /\ rot \in [Rotations -> Executions] /\ x.pc = "delete"
      /\ UNCHANGED <<sa, pool, ontap, tracked, seen>>
  BY AloneParts DEF DeleteKey, At, poolVars
<1>1. CASE End(r)
  BY <1>0, <1>1, EndAlone
<1>2. CASE ~End(r)
  <2>1. \/ /\ rot'[r] = [x EXCEPT !.pc = "remove"] /\ x.dels # {}
           /\ gcp' = gcp \ {Min(x.dels)}
        \/ rot'[r] = [x EXCEPT !.pc = "list", !.dels = {}] /\ gcp' = gcp
    BY <1>0, <1>2 DEF DeleteKey, Goto
  <2>2. /\ rot'[r].read = x.read /\ rot'[r].row = x.row
        /\ rot'[r].cur = x.cur /\ rot'[r].new = x.new /\ rot'[r].data = x.data
        /\ rot'[r].moved = x.moved /\ rot'[r].todo = x.todo
        /\ rot'[r].failed = x.failed
    BY <1>0, <2>1 DEF Executions
  <2>3. \/ rot'[r].pc = "remove" /\ rot'[r].dels = x.dels
        \/ rot'[r].pc = "list" /\ rot'[r].dels = {}
    BY <1>0, <2>1 DEF Executions
  <2>4. x.moved => /\ x.new \in sa.prim /\ x.new \in gcp
                   /\ x.dels \subseteq Marked /\ x.new \notin x.dels
    BY <1>0 DEF KeyPart, Marked
  <2>5. x.moved => x.new \in gcp'
    <3>1. CASE gcp' = gcp
      BY <2>4, <3>1
    <3>2. CASE x.dels # {} /\ gcp' = gcp \ {Min(x.dels)}
      <4>1. Min(x.dels) \in x.dels
        BY <1>0, <3>2, MinKey DEF Executions
      <4>2. QED BY <2>4, <3>2, <4>1
    <3>3. QED BY <2>1, <3>1, <3>2
  <2>6. PoolPart(rot[r])'
    BY <1>0, <2>2, <2>3 DEF PoolPart, PoolShape, Batched
  <2>7. RowPart(rot[r])' /\ StorePart(rot[r])'
    BY <1>0, <2>2, <2>3 DEF RowPart, StorePart, Storing, Moved, Batched
  <2>8. KeyPart(rot[r])'
    BY <1>0, <2>2, <2>3, <2>4, <2>5 DEF KeyPart, Marked
  <2>9. QED BY <2>6, <2>7, <2>8 DEF AloneShape
<1>3. QED BY <1>1, <1>2

\* Every step of its activities.
LEMMA ActivityAlone ==
    ASSUME AloneInv, NEW r \in Rotations, r = alone, Activity(r)
    PROVE  AloneShape(rot[r])'
BY LockRotationAlone, ReuseKeyAlone, CreateKeyAlone, StoreNewKeyAlone,
   ReadRowAlone, SaveRowAlone, FailUpdateAlone, UnlockRotationAlone, BatchAlone,
   SkipPoolAlone, ModifyKmsAlone, ReachableAlone, UnreachableAlone,
   MigrationsDoneAlone, CompleteAlone, ListMarkedAlone, DeleteKeyAlone
   DEF Activity

-----------------------------------------------------------------------------
(* Steps of the executions.                                                *)

\* A step of an execution: the one nobody is in the way of goes on, or another one
\* starts and it is in the way.
LEMMA RotationAlone ==
    ASSUME AloneInv, NEW r \in Rotations, Rotation(r) PROVE AloneInv'
<1>1. TypeInv /\ TypeInv'
  BY RotationType DEF AloneInv
<1>2. CASE Activity(r) /\ UNCHANGED history
  <2>1. /\ Creates /\ MadeExec(rot'[r], created') /\ MadeKeys'
        /\ rot[r] # Idle /\ \A s \in Rotations \ {r} : rot'[s] = rot[s]
    BY <1>1, <1>2, ActivityMade, ActivityMadeKeys, ActivityFrame
  <2>2. \A s \in Rotations : MadeExec(rot'[s], created')
    <3>1. ASSUME NEW s \in Rotations \ {r} PROVE MadeExec(rot[s], created')
      <4>1. rot[s] \in Executions /\ MadeExec(rot[s], created)
        BY <1>1 DEF AloneInv, TypeInv, TypeOK
      <4>2. QED BY <1>1, <2>1, <4>1, MadeStays DEF MadeExec, Executions
    <3>2. QED BY <2>1, <3>1
  <2>3. alone # None => r = alone
    BY <2>1 DEF AloneInv
  <2>4. alone' # None => /\ AloneShape(rot[alone])'
                         /\ \A s \in Rotations \ {alone'} : rot'[s] = Idle
    BY <1>2, <2>1, <2>3, ActivityAlone DEF AloneInv, history
  <2>5. QED BY <1>1, <2>1, <2>2, <2>4 DEF AloneInv
<1>3. CASE Validate(r)
  <2>1. /\ rot' = [rot EXCEPT ![r].pc = "acquire", ![r].cur = sa.pw] /\ rot[r] = Idle
        /\ UNCHANGED <<sa, gcp, created, pool, ontap, tracked, seen, copy>>
        /\ rot \in [Rotations -> Executions] /\ Known(sa, created)
    BY <1>1, <1>3 DEF Validate, poolVars, TypeInv, TypeOK, AloneInv, MadeKeys
  <2>2. rot'[r] = [Idle EXCEPT !.pc = "acquire", !.cur = sa.pw]
        /\ \A s \in Rotations \ {r} : rot'[s] = rot[s]
    BY <2>1
  <2>3. MadeExec(rot'[r], created)
    <3>1. /\ rot'[r].row = Row0 /\ rot'[r].cur = sa.pw /\ rot'[r].old = NoKey
          /\ rot'[r].new = NoKey /\ rot'[r].data = NoKey
      BY <2>2 DEF Idle
    <3>2. QED BY <1>1, <2>1, <3>1, MadeFirst DEF MadeExec, Made, Known
  <2>4. \A s \in Rotations : MadeExec(rot'[s], created')
    BY <2>1, <2>2, <2>3 DEF AloneInv
  <2>5. MadeKeys'
    BY <2>1 DEF AloneInv, MadeKeys
  <2>6. alone' # None => alone' = r /\ \A s \in Rotations \ {r} : rot[s] = Idle
    BY <1>3 DEF Validate
  <2>7. AloneShape(rot[r])'
    BY <1>1, <1>3, ValidateAlone
  <2>8. QED BY <1>1, <2>2, <2>4, <2>5, <2>6, <2>7 DEF AloneInv
<1>4. QED BY <1>2, <1>3 DEF Rotation

\* A workflow is closed, and its last activity ends.
LEMMA CrashAlone ==
    ASSUME AloneInv, NEW r \in Rotations, Crash(r) \/ Gone(r) PROVE AloneInv'
<1>1. TypeInv /\ TypeInv'
  BY CrashType DEF AloneInv
<1>2. /\ UNCHANGED <<sa, gcp, created, pool, ontap, tracked, seen, copy, alone>>
      /\ rot' = rot \/ End(r)
  BY DEF Crash, Gone, poolVars, history
<1>3. MadeKeys'
  BY <1>2 DEF AloneInv, MadeKeys
<1>4. CASE rot' = rot
  BY <1>1, <1>2, <1>3, <1>4
     DEF AloneInv, AloneShape, RowPart, StorePart, KeyPart, PoolPart, PoolShape, Marked
<1>5. CASE End(r)
  <2>1. rot'[r] = Idle /\ \A s \in Rotations \ {r} : rot'[s] = rot[s]
    BY <1>1, <1>5 DEF End, TypeInv, TypeOK
  <2>2. \A s \in Rotations : MadeExec(rot'[s], created')
    BY <1>1, <1>2, <2>1, MadeFirst DEF AloneInv
  <2>3. ASSUME alone # None
        PROVE  /\ AloneShape(rot[alone])'
               /\ \A s \in Rotations \ {alone} : rot'[s] = Idle
    <3>1. \A s \in Rotations \ {alone} : rot'[s] = Idle
      BY <2>1, <2>3 DEF AloneInv
    <3>2. CASE r = alone
      BY <1>1, <1>2, <1>5, <3>1, <3>2, EndAlone
    <3>3. CASE r # alone
      <4>1. alone \in Rotations /\ rot'[alone] = rot[alone] /\ AloneShape(rot[alone])
        BY <1>1, <2>1, <2>3, <3>3 DEF AloneInv, TypeInv, TypeOK
      <4>2. QED BY <1>2, <3>1, <4>1 DEF AloneShape, RowPart, StorePart, KeyPart,
                   PoolPart, PoolShape, Marked
    <3>4. QED BY <3>2, <3>3
  <2>4. QED BY <1>1, <1>2, <1>3, <2>2, <2>3 DEF AloneInv
<1>6. QED BY <1>2, <1>4, <1>5

\* Two attempts of an activity are in each other's way.
LEMMA TimeoutAlone ==
    ASSUME AloneInv, NEW r \in Rotations, NEW s \in Rotations \ {r}, Timeout(r, s)
    PROVE  AloneInv'
<1> DEFINE x == rot[r]
           y == [x EXCEPT !.pc = FirstStep(x.pc), !.read = FALSE, !.row = Row0,
                          !.at = None, !.dels = {}]
<1>1. TypeInv /\ TypeInv'
  BY TimeoutType DEF AloneInv
<1>2. /\ x \in Executions /\ MadeExec(x, created) /\ rot' = [rot EXCEPT ![s] = x, ![r] = y]
      /\ rot \in [Rotations -> Executions]
      /\ UNCHANGED <<sa, gcp, created, pool, ontap, tracked, seen, copy>>
      /\ alone' = None
  BY <1>1 DEF Timeout, TypeInv, TypeOK, AloneInv, Disturb, poolVars
<1>3. y.row = Row0 /\ y.cur = x.cur /\ y.old = x.old /\ y.new = x.new /\ y.data = x.data
  BY <1>2 DEF Executions
<1> HIDE DEF y
<1>4. MadeExec(y, created)
  BY <1>1, <1>2, <1>3, MadeFirst DEF MadeExec
<1>5. \A t \in Rotations : MadeExec(rot'[t], created')
  <2>1. /\ rot'[s] = x /\ rot'[r] = y
        /\ \A t \in Rotations \ {r, s} : rot'[t] = rot[t]
    BY <1>2
  <2>2. QED BY <1>2, <1>4, <2>1 DEF AloneInv
<1>6. MadeKeys'
  BY <1>2 DEF AloneInv, MadeKeys
<1>7. QED BY <1>1, <1>2, <1>5, <1>6 DEF AloneInv

-----------------------------------------------------------------------------
(* Steps of the pools.                                                     *)

\* A pool creation knows of no key that was not created.
LEMMA PoolMade ==
    ASSUME AloneInv, NEW p \in Pools, Pool(p), UNCHANGED <<rot, fate>>
    PROVE  Creates /\ MadeKeys' /\ \A r \in Rotations : MadeExec(rot'[r], created')
<1> USE DEF Pool, CreatePool, VerifyKey, CheckPresent, Resync, Recreate, CopyRow,
            SaveCopy, FailCopy, VerifyReachability, LockPool, ReadPassword,
            ConfigureKms, UnlockPool, CheckReachable, PoolFails, DeletePool
<1>0. /\ TypeInv /\ MadeKeys /\ sa \in Rows /\ created \in Nat /\ gcp \subseteq Nat
      /\ seen \in [Pools -> AnyKey] /\ copy \in [Pools -> Rows \cup {None}]
      /\ tracked \in [Pools -> AnyKey]
  BY KmsAssumption DEF AloneInv, TypeInv, TypeOK, Keys
<1>1. Creates
  BY DEF Creates
<1>2. /\ \A k \in AnyKey : Made(k, created) => Made(k, created')
      /\ \A s \in Rows : Known(s, created) => Known(s, created')
  BY <1>0, <1>1, MadeStays
<1>3. Known(sa, created) /\ (copy[p] # None => copy[p] \in Rows /\ Known(copy[p], created))
  BY <1>0 DEF MadeKeys
<1>4. Known(sa', created')
  <2>1. copy[p] # None => Known([sa EXCEPT !.pw = copy[p].pw], created)
    BY <1>0, <1>3 DEF Known, Rows
  <2>2. \/ sa' = sa
        \/ copy[p] # None /\ created' = created
           /\ (sa' = copy[p] \/ sa' = [sa EXCEPT !.pw = copy[p].pw])
    OBVIOUS
  <2>3. QED BY <1>0, <1>2, <1>3, <2>1, <2>2
<1>5. \A k \in gcp' : k <= created'
  <2>1. \/ gcp' \subseteq gcp /\ created' = created
        \/ gcp' = gcp \cup {created'} /\ created' = created + 1
    OBVIOUS
  <2>2. \A k \in gcp : k \in Nat /\ k <= created
    BY <1>0 DEF MadeKeys
  <2>3. CASE gcp' \subseteq gcp /\ created' = created
    BY <2>2, <2>3
  <2>4. CASE gcp' = gcp \cup {created'} /\ created' = created + 1
    BY <1>0, <2>2, <2>4
  <2>5. QED BY <2>1, <2>3, <2>4
<1>6. tracked' = tracked
  OBVIOUS
<1>7. \A q \in Pools : Made(seen'[q], created')
  <2>1. \A q \in Pools : \/ seen'[q] = seen[q] \/ seen'[q] = NoKey
                         \/ seen'[q] = sa.pw \/ seen'[q] = created'
    BY <1>0
  <2>2. sa.pw \in AnyKey /\ Made(sa.pw, created)
    BY <1>0, <1>3, KeyFacts DEF Known, Made, Rows
  <2>3. created' \in Nat
    BY <1>0, <1>1 DEF Creates
  <2>4. Made(created', created') /\ Made(NoKey, created')
    BY <2>3 DEF Made
  <2>5. \A q \in Pools : seen[q] \in AnyKey /\ Made(seen[q], created)
    BY <1>0 DEF MadeKeys
  <2>6. QED BY <1>2, <2>1, <2>2, <2>4, <2>5
<1>8. \A q \in Pools : copy'[q] # None => Known(copy'[q], created')
  <2>1. pool[p] = "keyRead" => [sa EXCEPT !.pw = seen[p]] \in Rows
                               /\ Known([sa EXCEPT !.pw = seen[p]], created)
    <3>1. pool[p] = "keyRead" => seen[p] \in Keys /\ seen[p] <= created
      BY <1>0, KmsAssumption DEF TypeInv, PoolKey, MadeKeys, Made, Keys, NoKey
    <3>2. QED BY <1>0, <1>3, <3>1 DEF Known, Rows
  <2>2. \A q \in Pools : \/ copy'[q] = copy[q] \/ copy'[q] = None \/ copy'[q] = sa
                         \/ /\ pool[p] = "keyRead"
                            /\ copy'[q] = [sa EXCEPT !.pw = seen[p]]
    BY <1>0
  <2>3. \A q \in Pools : copy[q] # None => copy[q] \in Rows /\ Known(copy[q], created)
    BY <1>0 DEF MadeKeys
  <2>4. QED BY <1>0, <1>2, <1>3, <2>1, <2>2, <2>3
<1>9. \A q \in Pools : Made(tracked'[q], created')
  BY <1>0, <1>2, <1>6 DEF MadeKeys
<1>10. MadeKeys'
  BY <1>4, <1>5, <1>7, <1>8, <1>9 DEF MadeKeys
<1>11. ASSUME NEW r \in Rotations PROVE MadeExec(rot'[r], created')
  <2>1. rot[r] \in Executions /\ MadeExec(rot[r], created) /\ rot' = rot
    BY <1>0 DEF AloneInv, TypeInv, TypeOK
  <2>2. QED BY <1>2, <2>1 DEF MadeExec, Executions
<1>12. QED BY <1>1, <1>10, <1>11

\* A pool that is to be migrated is not created again, and one that is created reads
\* and gets the new key.
LEMMA PoolShapeStep ==
    ASSUME TypeInv, NEW p \in Pools, Pool(p), rot' = rot, NEW r \in Rotations,
           sa.pw = rot[r].new, \A q \in Pools : PoolShape(rot[r], q)
    PROVE  /\ \A q \in Pools : ontap'[q] = ontap[q] \/ ontap'[q] = rot[r].new
           /\ \A q \in Pools : PoolShape(rot[r], q)'
<1> DEFINE x == rot[r]
<1>1. /\ rot' = rot /\ sa.pw = x.new /\ \A q \in Pools : PoolShape(x, q)
      /\ pool \in [Pools -> PoolStates] /\ ontap \in [Pools -> AnyKey]
      /\ seen \in [Pools -> AnyKey]
  BY DEF TypeInv, TypeOK
<1>2. CASE \/ CreatePool(p) \/ VerifyKey(p) \/ CheckPresent(p) \/ Resync(p)
           \/ Recreate(p) \/ CopyRow(p) \/ SaveCopy(p) \/ FailCopy(p)
           \/ VerifyReachability(p) \/ LockPool(p) \/ PoolFails(p) \/ DeletePool(p)
  <2>1. ontap' = ontap /\ \A q \in Pools : q # p => pool'[q] = pool[q] /\ seen'[q] = seen[q]
    BY <1>1, <1>2 DEF CreatePool, VerifyKey, CheckPresent, Resync, Recreate, CopyRow,
       SaveCopy, FailCopy, VerifyReachability, LockPool, PoolFails, DeletePool, PoolStep
  <2>2. \/ /\ pool'[p] \in {"verify", "present", "resync", "recreate", "keyRead",
                            "keySave", "stateRead", "stateSave", "reach", "start",
                            "read", "DELETING", "ERROR"}
           /\ pool[p] \in {"READY", "ERROR", "DELETING"} =>
                pool'[p] \in {"DELETING", "ERROR"}
        \/ pool'[p] = pool[p] /\ seen'[p] = seen[p]
    BY <1>1, <1>2 DEF CreatePool, VerifyKey, CheckPresent, Resync, Recreate, CopyRow,
       SaveCopy, FailCopy, VerifyReachability, LockPool, PoolFails, DeletePool, PoolStep
  <2>3. \A q \in Pools : PoolShape(rot[r], q)'
    BY <1>1, <2>1, <2>2 DEF PoolShape
  <2>4. QED BY <2>1, <2>3
<1>3. CASE ReadPassword(p)
  <2>1. /\ ontap' = ontap /\ seen'[p] = x.new /\ pool[p] = "read"
        /\ pool'[p] = "configure"
        /\ \A q \in Pools : q # p => pool'[q] = pool[q] /\ seen'[q] = seen[q]
    BY <1>1, <1>3 DEF ReadPassword, PoolStep
  <2>2. \A q \in Pools : PoolShape(rot[r], q)'
    BY <1>1, <2>1 DEF PoolShape
  <2>3. QED BY <2>1, <2>2
<1>4. CASE ConfigureKms(p)
  <2>1. pool[p] = "configure" /\ seen[p] = x.new
    BY <1>1, <1>4 DEF ConfigureKms, PoolShape
  <2>2. /\ pool'[p] \in {"unlock", "read", "unlockFail"}
        /\ pool'[p] = "unlock" => ontap'[p] = x.new
        /\ ontap'[p] = ontap[p] \/ ontap'[p] = x.new
        /\ \A q \in Pools : q # p => /\ pool'[q] = pool[q]
                                     /\ seen'[q] = seen[q] /\ ontap'[q] = ontap[q]
    BY <1>1, <1>4, <2>1 DEF ConfigureKms, PoolStep
  <2>3. \A q \in Pools : PoolShape(rot[r], q)'
    BY <1>1, <2>1, <2>2 DEF PoolShape
  <2>4. QED BY <2>2, <2>3
<1>5. CASE UnlockPool(p) \/ CheckReachable(p)
  <2>1. /\ ontap' = ontap /\ seen' = seen
        /\ pool[p] \in {"unlock", "unlockFail", "check"}
        /\ pool'[p] \in {"check", "READY"} => pool[p] \in {"unlock", "check"}
        /\ pool'[p] \in {"check", "READY", "DELETING"}
        /\ \A q \in Pools : q # p => pool'[q] = pool[q]
    BY <1>1, <1>5 DEF UnlockPool, CheckReachable, PoolStep
  <2>2. \A q \in Pools : PoolShape(rot[r], q)'
    BY <1>1, <2>1 DEF PoolShape
  <2>3. QED BY <2>1, <2>2
<1>6. QED BY <1>2, <1>3, <1>4, <1>5 DEF Pool

\* A step of a pool creation that gets in nobody's way disturbs no execution.
LEMMA PoolAlone ==
    ASSUME AloneInv, NEW p \in Pools, Pool(p), UNCHANGED <<rot, fate>>
    PROVE  AloneInv'
<1>1. /\ TypeInv /\ TypeInv' /\ MadeKeys'
      /\ \A r \in Rotations : MadeExec(rot'[r], created')
  BY PoolType, PoolMade DEF AloneInv
<1>2. ASSUME alone' # None
      PROVE  /\ AloneShape(rot[alone])'
             /\ \A s \in Rotations \ {alone'} : rot'[s] = Idle
  <2>1. alone' = alone /\ sa' = sa /\ gcp \subseteq gcp' /\ tracked' = tracked
    BY <1>2 DEF Pool, CreatePool, VerifyKey, CheckPresent, Resync, Recreate, CopyRow,
       SaveCopy, FailCopy, VerifyReachability, LockPool, ReadPassword, ConfigureKms,
       UnlockPool, CheckReachable, PoolFails, DeletePool, Disturb, history
  <2> DEFINE x == rot[alone]
  <2>2. /\ alone \in Rotations /\ RowPart(x) /\ StorePart(x) /\ KeyPart(x)
        /\ PoolPart(x) /\ \A s \in Rotations \ {alone} : rot[s] = Idle
        /\ rot'[alone'] = x /\ ExecShape(x)
    BY <1>1, <1>2, <2>1 DEF AloneInv, AloneShape, TypeInv, TypeOK
  <2>3. RowPart(rot[alone])' /\ StorePart(rot[alone])' /\ KeyPart(rot[alone])'
    BY <2>1, <2>2 DEF RowPart, StorePart, KeyPart, Marked
  <2>4. PoolPart(rot[alone])'
    <3> SUFFICES ASSUME x.moved PROVE PoolPart(rot[alone])'
      BY <2>2 DEF PoolPart
    <3>1. CASE x.pc \notin Batched
      BY <2>1, <2>2, <3>1 DEF PoolPart, Batched
    <3>2. CASE x.pc \in Batched
      <4>1. sa.pw = x.new /\ \A q \in Pools : PoolShape(x, q)
        BY <2>2, <3>2 DEF KeyPart, PoolPart
      <4>2. /\ \A q \in Pools : ontap'[q] = ontap[q] \/ ontap'[q] = x.new
            /\ \A q \in Pools : PoolShape(rot[alone], q)'
        BY <1>1, <2>1, <2>2, <4>1, PoolShapeStep
      <4>3. x.pc = "verify" => x.at \in Pools
        BY <2>2 DEF ExecShape
      <4>4. QED BY <2>1, <2>2, <3>2, <4>2, <4>3 DEF PoolPart
    <3>3. QED BY <3>1, <3>2
  <2>5. QED BY <2>1, <2>2, <2>3, <2>4 DEF AloneShape
<1>3. QED BY <1>1, <1>2 DEF AloneInv

-----------------------------------------------------------------------------

\* The invariant holds initially ...
LEMMA InitAlone == Init => AloneInv
<1> SUFFICES ASSUME Init PROVE AloneInv
  OBVIOUS
<1>1. TypeInv
  BY InitType
<1>2. created = 0 /\ sa = Row0 /\ gcp = {0}
  BY DEF Init
<1>3. Known(sa, created) /\ MadeExec(Idle, created)
  BY <1>1, <1>2, MadeFirst
<1>4. MadeKeys
  BY <1>2, <1>3 DEF Init, MadeKeys, Made
<1>5. QED BY <1>1, <1>3, <1>4 DEF Init, AloneInv

\* ... and every step keeps it.
LEMMA NextAlone == ASSUME AloneInv, [Next]_vars PROVE AloneInv'
<1>1. CASE \E r \in Rotations : Rotation(r) \/ Crash(r) \/ Gone(r)
  BY <1>1, RotationAlone, CrashAlone
<1>2. CASE \E r \in Rotations : \E s \in Rotations \ {r} : Timeout(r, s)
  BY <1>2, TimeoutAlone
<1>3. CASE \E p \in Pools : Pool(p) /\ UNCHANGED <<rot, fate>>
  BY <1>3, PoolAlone
<1>4. CASE UNCHANGED <<sa, gcp, created, rot, poolVars, history>>
  <2>1. TypeInv'
    BY NextType DEF AloneInv
  <2>2. QED BY <1>4, <2>1 DEF AloneInv, MadeKeys, AloneShape, RowPart, StorePart,
               KeyPart, PoolPart, PoolShape, Marked, poolVars, history
<1>5. QED BY <1>1, <1>2, <1>3, <1>4 DEF Next, LoseLease, RenewLease, vars

LEMMA AloneInvariance == Spec => []AloneInv
<1>1. AloneInv /\ [Next]_vars => AloneInv'
  BY NextAlone
<1>2. QED BY <1>1, InitAlone, PTL DEF Spec

\* For any number of executions, attempts and pool creations that overlap, fail, are
\* closed or come late: once a rotation nobody gets in the way of has moved the
\* password location to the key it created and made that key primary, the location
\* has that key, it alone is primary, and it exists and is not to be deleted.
THEOREM Repairs == Spec => []RotationRepairsRow
<1>1. ASSUME AloneInv PROVE RotationRepairsRow
  <2> SUFFICES ASSUME NEW r \in Rotations, r = alone, rot[r].moved,
                      rot[r].pc \in {"mark", "list", "delete", "remove"}
               PROVE  /\ sa.pw = rot[r].new
                      /\ sa.prim = {rot[r].new}
                      /\ rot[r].new \in gcp \ rot[r].dels
    BY DEF RotationRepairsRow
  <2>1. KeyPart(rot[r])
    BY <1>1, AloneParts
  <2>2. QED BY <2>1 DEF KeyPart, Marked
<1>2. QED BY <1>1, AloneInvariance, PTL

\* For any number of them, and of pools that are created or deleted meanwhile: such
\* a rotation deletes no key that a READY pool's SVM has in ONTAP, whatever calls
\* and writes fail, and the pools still have keys that exist.
THEOREM DeletesUnused == Spec => []DeletesUnusedKeys
<1>1. ASSUME AloneInv PROVE DeletesUnusedKeys
  <2> SUFFICES ASSUME NEW r \in Rotations, r = alone, rot[r].moved,
                      rot[r].pc \in {"delete", "remove"},
                      NEW p \in Pools, pool[p] = "READY"
               PROVE  ontap[p] \in gcp \ rot[r].dels
    BY DEF DeletesUnusedKeys
  <2>1. KeyPart(rot[r]) /\ PoolPart(rot[r])
    BY <1>1, AloneParts
  <2>2. ontap[p] = rot[r].new
    BY <2>1 DEF PoolPart, PoolShape, Batched
  <2>3. QED BY <2>1, <2>2 DEF KeyPart, Marked
<1>2. QED BY <1>1, AloneInvariance, PTL
=============================================================================
