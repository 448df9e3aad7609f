--------------------- MODULE VolumeCancellation_proofs ---------------------
(***************************************************************************)
(* Proofs about VolumeCancellation with and without manual QoS, for any    *)
(* number of delete calls and any faults: its types, that a delete job     *)
(* that is DONE means a deleted row, that a live row refers to a VPG that  *)
(* exists, and that a create workflow that ends without success has undone *)
(* what it did.                                                            *)
(***************************************************************************)
EXTENDS VolumeCancellation, SequenceTheorems, TLAPS

Undos == Resources \cup {"row"}

InUndo(x) == \E i \in 1 .. Len(undo) : undo[i] = x

\* The undo of the row runs before the undo of the VPG.
RowAboveVpg == \A i \in 1 .. Len(undo) :
                 undo[i] = "vpg" => \E j \in (i + 1) .. Len(undo) : undo[j] = "row"

\* Where the create workflow is, by the state of its execution.
PcShape == /\ cst = "closed" <=> cpc \in {"succeeded", "failed"}
           /\ cancelled => cpc \in {"rollback", "cleanup", "failed", "stopped"}
           /\ cpc = "abandon" => "undo" \in lapses

\* DoneMeansDeleted, from the deletion of the row on.
DoneShape == \A d \in Calls :
               djob[d] = "DONE" \/ dpc[d] \in {"vpg", "cleanup"} => vol = "DELETED"

\* Before the volume is assigned to its VPG nobody knows the VPG but the create
\* workflow; what the look at a VPG found is still so when the VPG is deleted.
AssignShape ==
  /\ cpc \in {"ensure", "processing", "prepare", "policy", "qos", "vpg", "assign"}
       => "vpg" \notin attrs /\ \A d \in Calls : "vpg" \notin snap[d]
  /\ cpc = "assign" => "vpg" \in res
  /\ cpc = "cleanup" => ~(Live /\ "vpg" \in attrs)
  /\ \A d \in Calls : dpc[d] = "cleanup" => "vpg" \in snap[d]

\* What exists has an undo registered, or is a VPG that is about to be deleted or
\* whose undo left it to the live row that refers to it; a cancellation finds the
\* row's undo above the VPG's.
RollShape ==
  cst # "terminated" /\ cpc \notin {"done", "succeeded"} /\ "undo" \notin lapses =>
    /\ \A x \in res : \/ InUndo(x)
                      \/ x = "vpg" /\ cpc = "cleanup"
                      \/ /\ x = "vpg" /\ "vpg" \in attrs
                         /\ ~cancelled /\ cpc \in {"rollback", "cleanup", "failed"}
    /\ cpc \in {"ensure", "processing", "failed"} => undo = <<>>
    /\ cpc \in {"prepare", "policy"} => ~InUndo("vpg")
    /\ cancelled \/ cpc \in {"volume", "persist", "details"}
         => RowAboveVpg \/ vol = "DELETED"

IInv == TypeOK /\ PcShape /\ DoneShape /\ AssignShape /\ VpgReferenceIsValid /\ RollShape

-----------------------------------------------------------------------------
(* Sequences of undo actions                                               *)

\* Registering no undo and registering one.
LEMMA Register ==
  ASSUME NEW s \in Seq(Undos), NEW x \in Undos
  PROVE  s \o <<>> = s /\ s \o <<x>> = Append(s, x)
<1>1. s \o <<>> = s
  BY ConcatEmptySeq
<1>2. s \o <<x>> = Append(s, x)
  BY AppendIsConcat
<1>3. QED BY <1>1, <1>2

\* What is registered before and after a step.
LEMMA UndoOf ==
  ASSUME NEW s \in StepNames
  PROVE  /\ \/ /\ s \notin Resources \cup {"refresh"}
               /\ UndoBefore(s) = <<>> /\ UndoAfter(s) = <<>>
            \/ s = "policy" /\ UndoBefore(s) = <<s>> /\ UndoAfter(s) = <<>>
            \/ s \in {"qos", "vpg", "volume"} /\ UndoBefore(s) = <<>> /\ UndoAfter(s) = <<s>>
            \/ s = "refresh" /\ UndoBefore(s) = <<>> /\ UndoAfter(s) = <<"row">>
         /\ s \in Resources => s \in {"policy", "qos", "vpg", "volume"}
BY DEF StepNames, UndoBefore, UndoAfter, Resources

\* The last undo action is one of them, and the others stay where they are.
LEMMA Pop ==
  ASSUME undo \in Seq(Undos), undo # <<>>, undo' = Front(undo)
  PROVE  /\ undo' \in Seq(Undos)
         /\ Len(undo) \in Nat \ {0}
         /\ Len(undo') = Len(undo) - 1
         /\ Last(undo) = undo[Len(undo)] /\ Last(undo) \in Undos
         /\ \A i \in 1 .. Len(undo') : undo'[i] = undo[i]
<1>1. Len(undo) \in Nat \ {0} /\ \A i \in 1 .. Len(undo) : undo[i] \in Undos
  BY EmptySeq
<1>2. /\ undo' \in Seq(Undos)
      /\ Len(undo') = Len(undo) - 1
      /\ \A i \in 1 .. Len(undo') : undo'[i] = undo[i]
  <2> DEFINE n == Len(undo) - 1
  <2>1. n \in Nat /\ 1 \in Int /\ \A i \in 1 .. n : undo[i] \in Undos
    BY <1>1
  <2>2. undo' = SubSeq(undo, 1, n)
    BY DEF Front
  <2> HIDE DEF n
  <2>3. /\ SubSeq(undo, 1, n) \in Seq(Undos)
        /\ Len(SubSeq(undo, 1, n)) = IF 1 <= n THEN n - 1 + 1 ELSE 0
        /\ \A i \in 1 .. n - 1 + 1 : SubSeq(undo, 1, n)[i] = undo[1 + i - 1]
    BY <2>1, SubSeqProperties
  <2>4. Len(undo') = n
    BY <2>1, <2>2, <2>3
  <2>5. \A i \in 1 .. n : undo'[i] = undo[i]
    BY <2>1, <2>2, <2>3
  <2>6. QED BY <2>2, <2>3, <2>4, <2>5 DEF n
<1>3. Last(undo) = undo[Len(undo)] /\ Last(undo) \in Undos
  BY <1>1 DEF Last
<1>4. QED BY <1>1, <1>2, <1>3

-----------------------------------------------------------------------------
(* Effects of activities                                                   *)

RowType == /\ vol \in {"CREATING", "READY", "ERROR", "DELETED"}
           /\ attrs \subseteq Attrs /\ res \subseteq Resources

\* A deleted row stays deleted; a VPG that goes away takes the row's reference
\* with it; nothing else creates a reference.
Settles == /\ RowType'
           /\ vol = "DELETED" => vol' = "DELETED"
           /\ VpgReferenceIsValid'
           /\ res' \subseteq res
           /\ attrs' \subseteq attrs
           /\ "vpg" \in attrs /\ "vpg" \in res' => "vpg" \in attrs'

\* The deletion of a VPG that no live row refers to.
LEMMA CleanupSettles ==
  ASSUME RowType, VpgReferenceIsValid, ~(Live /\ "vpg" \in attrs), DeleteVpg
  PROVE  Settles /\ "vpg" \notin res'
<1>1. /\ res' \subseteq res /\ "vpg" \notin res' /\ vol' = vol
      /\ attrs' \subseteq attrs
  BY DEF DeleteVpg
<1>2. QED BY <1>1 DEF RowType, VpgReferenceIsValid, Settles, Live

\* The same holds of every undo action.
LEMMA UndoSettles ==
  ASSUME RowType, VpgReferenceIsValid, NEW u, UndoEffect(u)
  PROVE  /\ Settles
         /\ u # "vpg" => u \notin res'
         /\ u = "row" => vol' = "DELETED"
         /\ u = "vpg" => UNCHANGED <<vol, attrs, res>>
<1>1. CASE u = "vpg" /\ UNCHANGED <<row, res>>
  BY <1>1 DEF RowType, VpgReferenceIsValid, Settles, Live, row
<1>2. CASE u = "row" /\ vol' = "DELETED" /\ UNCHANGED <<attrs, res>>
  BY <1>2 DEF RowType, VpgReferenceIsValid, Settles, Live, Resources
<1>3. CASE u \in {"policy", "qos", "volume"} /\ res' = res \ {u} /\ UNCHANGED row
  BY <1>3 DEF RowType, VpgReferenceIsValid, Settles, Live, row
<1>4. QED BY <1>1, <1>2, <1>3 DEF UndoEffect

\* A write of the row's state does not revive it.
LEMMA SetStateSettles ==
  ASSUME RowType, VpgReferenceIsValid, NEW st \in {"CREATING", "ERROR"},
         SetState(st) \/ UNCHANGED vol, UNCHANGED <<attrs, res>>
  PROVE  Settles
BY DEF RowType, VpgReferenceIsValid, Settles, SetState, Live

\* A step changes the row of a live volume only, and refers to a VPG in the
\* step that follows its creation.
LEMMA EffectFacts ==
  ASSUME RowType, VpgReferenceIsValid, AssignShape, NEW s \in StepNames, cpc = s, Effect(s)
  PROVE  /\ RowType'
         /\ vol = "DELETED" => vol' = "DELETED"
         /\ VpgReferenceIsValid'
         /\ res \subseteq res' /\ res' \subseteq res \cup ({s} \cap Resources)
         /\ s # "assign" /\ "vpg" \in attrs' => "vpg" \in attrs
         /\ attrs \subseteq attrs'
         /\ s = "vpg" => "vpg" \in res'
<1>1. CASE NeedsRow(s) /\ ~Live
  BY <1>1 DEF RowType, VpgReferenceIsValid, Effect, NeedsRow, Live, row
<1>2. CASE ~(NeedsRow(s) /\ ~Live)
  <2>1. /\ res' = IF s \in Resources THEN res \cup {s} ELSE res
        /\ attrs' = CASE s = "assign"  -> attrs \cup {"vpg"}
                      [] s = "persist" -> attrs \cup {"external"}
                      [] OTHER         -> attrs
        /\ vol' = IF s = "details" THEN "READY" ELSE vol
    BY <1>2 DEF Effect
  <2>2. s = "details" => Live
    BY <1>2 DEF NeedsRow
  <2>3. /\ attrs \subseteq attrs' /\ attrs' \subseteq attrs \cup {"vpg", "external"}
        /\ s # "assign" /\ "vpg" \in attrs' => "vpg" \in attrs
    BY <2>1
  <2>4. vol' \in {"CREATING", "READY", "ERROR", "DELETED"}
        /\ (vol = "DELETED" <=> vol' = "DELETED")
    BY <2>1, <2>2 DEF RowType, Live
  <2>5. VpgReferenceIsValid'
    BY <2>1, <2>3, <2>4 DEF VpgReferenceIsValid, AssignShape, Live
  <2>6. QED BY <2>1, <2>3, <2>4, <2>5 DEF RowType, Attrs, Resources
<1>3. QED BY <1>1, <1>2

-----------------------------------------------------------------------------
(* The invariant                                                           *)

\* What the actions of the delete workflow leave alone.
LEMMA SettledRoll ==
  ASSUME IInv, Settles, UNCHANGED <<cpc, undo>>,
         \/ UNCHANGED <<cst, cancelled>>
         \/ cst' = "terminated",
         lapses \subseteq lapses'
  PROVE  RollShape'
<1>1. CASE cst' = "terminated"
  BY <1>1 DEF RollShape
<1>2. CASE UNCHANGED <<cst, cancelled>>
  BY <1>2 DEF IInv, Settles, RollShape, InUndo, RowAboveVpg
<1>3. QED BY <1>1, <1>2

LEMMA InitInv == Init => IInv
<1> SUFFICES ASSUME Init PROVE IInv
  OBVIOUS
<1>1. undo = <<>> /\ Len(undo) = 0 /\ undo \in Seq(Undos)
  BY EmptySeq DEF Init
<1>2. TypeOK
  <2>1. sig \in BOOLEAN /\ cancelled \in BOOLEAN
    BY DEF Init
  <2>2. first \in 0 .. MaxDeletes /\ undo \in Seq(Resources \cup {"row"})
    BY <1>1, CancellationAssumption DEF Init, Undos
  <2>3. /\ djob \in [Calls -> JobStates \cup {"NONE"}]
        /\ dpc \in [Calls -> DeletePcs] /\ snap \in [Calls -> SUBSET Attrs]
    BY DEF Init, JobStates, DeletePcs
  <2>4. QED BY <2>1, <2>2, <2>3 DEF Init, TypeOK, JobStates, StepNames
<1>3. PcShape /\ DoneShape /\ AssignShape /\ VpgReferenceIsValid
  BY DEF Live, Init, PcShape, DoneShape, AssignShape, VpgReferenceIsValid
<1>4. RollShape
  BY <1>1 DEF Init, RollShape, InUndo, RowAboveVpg
<1>5. QED BY <1>2, <1>3, <1>4 DEF IInv

\* Every action of a delete workflow preserves the invariant.
LEMMA DeleteInv ==
  ASSUME IInv, NEW d \in Calls, Delete(d)
  PROVE  IInv'
<1> USE DEF IInv
<1>t. RowType
  BY DEF TypeOK, RowType
<1>j. /\ djob \in [Calls -> JobStates \cup {"NONE"}] /\ dpc \in [Calls -> DeletePcs]
      /\ snap \in [Calls -> SUBSET Attrs]
  BY DEF TypeOK
<1>d. ASSUME Settles, UNCHANGED <<cst, cpc, undo, cancelled, sig, cjob, lapses, first>>,
             NEW j \in JobStates, NEW p \in DeletePcs, NEW S \in SUBSET snap[d],
             djob' = [djob EXCEPT ![d] = j] \/ djob' = djob,
             dpc' = [dpc EXCEPT ![d] = p], snap' = [snap EXCEPT ![d] = S] \/ snap' = snap,
             j = "DONE" \/ p \in {"vpg", "cleanup"} => vol' = "DELETED",
             p = "cleanup" => "vpg" \in snap[d] /\ snap' = snap,
             cpc = "assign" /\ "vpg" \in res => "vpg" \in res'
      PROVE  IInv'
  <2>1. /\ djob' \in [Calls -> JobStates \cup {"NONE"}] /\ dpc' \in [Calls -> DeletePcs]
        /\ snap' \in [Calls -> SUBSET Attrs]
    BY <1>j, <1>d
  <2>2. /\ dpc'[d] = p /\ (djob'[d] = j \/ djob'[d] = djob[d])
        /\ \A e \in Calls :
             e # d => djob'[e] = djob[e] /\ dpc'[e] = dpc[e] /\ snap'[e] = snap[e]
        /\ \A e \in Calls : snap'[e] \subseteq snap[e]
        /\ p = "cleanup" => "vpg" \in snap'[d]
    BY <1>j, <1>d
  <2>3. TypeOK'
    BY <1>d, <2>1 DEF TypeOK, Settles, RowType
  <2>4. DoneShape'
    BY <1>d, <2>2 DEF DoneShape, Settles
  <2>5. PcShape' /\ VpgReferenceIsValid'
    BY <1>d DEF PcShape, Settles
  <2>6. AssignShape'
    BY <1>d, <2>2 DEF AssignShape, Settles, Live
  <2>7. RollShape'
    BY <1>d, SettledRoll
  <2>8. QED BY <2>3, <2>4, <2>5, <2>6, <2>7
<1>f. ASSUME NEW st \in {"CREATING", "ERROR"}, DFailWith(d, st)
      PROVE  IInv'
  <2>1. Settles
    BY <1>t, <1>f, SetStateSettles DEF DFailWith
  <2>2. /\ UNCHANGED <<cst, cpc, undo, cancelled, sig, cjob, lapses, first, res>>
        /\ djob' = [djob EXCEPT ![d] = "ERROR"] /\ dpc' = [dpc EXCEPT ![d] = "over"]
        /\ snap' = [snap EXCEPT ![d] = {}]
    BY <1>f DEF DFailWith, create
  <2>3. "ERROR" \in JobStates /\ "over" \in DeletePcs /\ {} \in SUBSET snap[d]
    BY DEF JobStates, DeletePcs
  <2>4. QED BY <1>d, <2>1, <2>2, <2>3
<1>s. UNCHANGED row /\ UNCHANGED res => Settles
  BY <1>t DEF Settles, RowType, VpgReferenceIsValid, Live, row
<1>g. ASSUME NEW p \in DeletePcs, Goto(d, p), Settles,
             UNCHANGED <<cst, cpc, undo, cancelled, sig, cjob, lapses>>,
             p \in {"vpg", "cleanup"} => vol' = "DELETED",
             p = "cleanup" => "vpg" \in snap[d],
             cpc = "assign" /\ "vpg" \in res => "vpg" \in res'
      PROVE  IInv'
  <2>1. "ERROR" \in JobStates /\ {} \in SUBSET snap[d]
    BY DEF JobStates
  <2>2. dpc' = [dpc EXCEPT ![d] = p] /\ djob' = djob /\ snap' = snap /\ first' = first
    BY <1>g DEF Goto
  <2>3. QED BY <1>d, <1>g, <2>1, <2>2
<1>c. ASSUME UNCHANGED row, UNCHANGED res, UNCHANGED <<cpc, undo>>,
             \/ UNCHANGED <<cst, cancelled>>
             \/ cst = "running" /\ cst' = "terminated" /\ ~cancelled',
             cjob' \in JobStates, sig' \in BOOLEAN, cancelled' \in BOOLEAN,
             lapses' \in {lapses, lapses \cup {"job"}},
             NEW p \in {"signal", "wait", "terminate", "mark", "protect"}, Goto(d, p)
      PROVE  IInv'
  <2>1. dpc' = [dpc EXCEPT ![d] = p] /\ djob' = djob /\ snap' = snap /\ first' = first
    BY <1>c DEF Goto
  <2>2. dpc' \in [Calls -> DeletePcs]
    BY <1>j, <2>1 DEF DeletePcs
  <2>3. dpc'[d] = p /\ \A e \in Calls : e # d => dpc'[e] = dpc[e]
    BY <1>j, <2>1
  <2>4. cst' \in {"queued", "running", "closed", "terminated"}
    BY <1>c DEF TypeOK
  <2>5. TypeOK'
    BY <1>c, <2>1, <2>2, <2>4 DEF TypeOK, row
  <2>6. PcShape' /\ VpgReferenceIsValid'
    BY <1>c DEF PcShape, VpgReferenceIsValid, Live, row
  <2>7. AssignShape' /\ DoneShape'
    BY <1>c, <2>1, <2>3 DEF AssignShape, DoneShape, Live, row
  <2>8. RollShape'
    BY <1>c, <1>s, SettledRoll
  <2>9. QED BY <2>5, <2>6, <2>7, <2>8
<1>e. /\ cst \in {"queued", "running", "closed", "terminated"} /\ cjob \in JobStates
      /\ "ERROR" \in JobStates /\ sig \in BOOLEAN /\ cancelled \in BOOLEAN
  BY DEF TypeOK, JobStates
<1>1. CASE DStart(d)
  <2>1. /\ "PROCESSING" \in JobStates /\ "describe" \in DeletePcs /\ {} \in SUBSET snap[d]
    BY DEF JobStates, DeletePcs
  <2>2. /\ djob' = [djob EXCEPT ![d] = "PROCESSING"] /\ dpc' = [dpc EXCEPT ![d] = "describe"]
        /\ UNCHANGED <<cst, cpc, undo, cancelled, sig, cjob, lapses, first, snap, res>>
        /\ UNCHANGED row
    BY <1>1 DEF DStart, create
  <2>3. QED BY <1>s, <1>d, <2>1, <2>2
<1>2. CASE DStartError(d)
  BY <1>2, <1>f DEF DStartError
<1>m. MarkCreateJob => cjob' \in JobStates /\ lapses' \in {lapses, lapses \cup {"job"}}
  BY <1>e DEF MarkCreateJob
<1>3. CASE DDescribe(d)
  <2>1. /\ UNCHANGED row /\ UNCHANGED <<res, cst, cpc, undo, cancelled, sig>>
        /\ MarkCreateJob \/ UNCHANGED <<cjob, lapses>>
        /\ Goto(d, "signal") \/ Goto(d, "protect")
    BY <1>3 DEF DDescribe
  <2>2. QED BY <1>c, <1>e, <1>m, <2>1
<1>4. CASE DSignal(d)
  <2>1. sig' \in BOOLEAN
    BY <1>4, <1>e DEF DSignal
  <2>2. QED BY <1>4, <1>e, <2>1, <1>c DEF DSignal, create
<1>5. CASE DWait(d)
  BY <1>5, <1>c, <1>e DEF DWait, create
<1>6. CASE DTerminate(d)
  <2>1. /\ UNCHANGED row /\ UNCHANGED <<res, cjob, cpc, undo, lapses>> /\ Goto(d, "mark")
        /\ \/ cst = "running" /\ cst' = "terminated" /\ ~cancelled' /\ ~sig'
           \/ UNCHANGED <<cst, sig, cancelled>>
        /\ sig' \in BOOLEAN /\ cancelled' \in BOOLEAN
    BY <1>6, <1>e DEF DTerminate
  <2>2. QED BY <1>c, <1>e, <2>1
<1>7. CASE DMark(d)
  BY <1>7, <1>c, <1>e, <1>m DEF DMark
<1>p. {"volume", "row", "policy", "vpg", "cleanup"} \subseteq DeletePcs
  BY DEF DeletePcs
<1>8. CASE DProtect(d)
  BY <1>8, <1>s, <1>g, <1>p DEF DProtect, create
<1>9. CASE DDenied(d)
  BY <1>9, <1>f DEF DDenied
<1>10. CASE DOntap(d)
  <2>1. PICK r \in {"volume", "policy"} :
               /\ res' = res \ {r} /\ Goto(d, IF r = "volume" THEN "policy" ELSE "row")
               /\ UNCHANGED row /\ UNCHANGED <<cst, cpc, undo, cancelled, sig, cjob, lapses>>
    BY <1>10 DEF DOntap, create
  <2>2. Settles
    BY <1>t, <2>1 DEF Settles, RowType, VpgReferenceIsValid, Live, row
  <2>3. QED BY <2>1, <2>2, <1>g, <1>p
<1>11. CASE DRow(d)
  <2>1. Settles
    BY <1>t, <1>11 DEF DRow, Settles, RowType, VpgReferenceIsValid, Live
  <2>2. QED BY <1>11, <2>1, <1>g, <1>p DEF DRow, create
<1>n. ASSUME DDone(d), Settles, vol' = "DELETED",
             UNCHANGED <<cst, cpc, undo, cancelled, sig, cjob, lapses>>,
             cpc = "assign" /\ "vpg" \in res => "vpg" \in res'
      PROVE  IInv'
  <2>1. "DONE" \in JobStates /\ "over" \in DeletePcs /\ {} \in SUBSET snap[d]
    BY DEF JobStates, DeletePcs
  <2>2. QED BY <1>n, <2>1, <1>d DEF DDone
<1>12. CASE DVpg(d)
  <2>1. /\ vol' = "DELETED" /\ UNCHANGED row /\ UNCHANGED <<res, sig, lapses>>
        /\ UNCHANGED <<cst, cpc, undo, cancelled, cjob>>
    BY <1>12 DEF DoneShape, DVpg, row, create
  <2>2. CASE "vpg" \in snap[d] /\ Goto(d, "cleanup")
    BY <2>1, <2>2, <1>s, <1>g, <1>p
  <2>3. CASE DDone(d)
    BY <2>1, <2>3, <1>s, <1>n
  <2>4. QED BY <1>12, <2>2, <2>3 DEF DVpg
<1>13. CASE DCleanup(d)
  <2>1. vol = "DELETED" /\ "vpg" \in snap[d]
    BY <1>13 DEF DoneShape, AssignShape, DCleanup
  <2>2. Settles
    BY <1>t, <1>13, <2>1, CleanupSettles DEF DCleanup, Live
  <2>3. vol' = "DELETED" /\ cpc # "assign"
    BY <2>1, <2>2 DEF Settles, AssignShape
  <2>4. QED BY <1>13, <2>2, <2>3, <1>n DEF DCleanup, create
<1>14. CASE DFail(d)
  BY <1>14, <1>f DEF DFail
<1>15. QED BY <1>1, <1>2, <1>3, <1>4, <1>5, <1>6, <1>7, <1>8, <1>9, <1>10, <1>11,
              <1>12, <1>13, <1>14 DEF Delete

\* A step that registers undo actions preserves the invariant.
LEMMA StepInv ==
  ASSUME IInv, CStep \/ CLost
  PROVE  IInv'
<1> USE DEF IInv
<1>t. RowType
  BY DEF TypeOK, RowType
<1>1. PICK s \in StepNames :
        /\ AtStep(s) /\ Effect(s)
        /\ \/ undo' = undo \o UndoBefore(s) \o UndoAfter(s) /\ cpc' = After(s)
              /\ UNCHANGED lapses
           \/ undo' = undo \o UndoBefore(s) /\ cpc' = "markError"
              /\ lapses' = IF UndoAfter(s) = <<>> THEN lapses ELSE lapses \cup {"undo"}
        /\ UNCHANGED <<cjob, cst, sig, cancelled, delete>>
  BY DEF CStep, CLost
<1>2. /\ RowType'
      /\ vol = "DELETED" => vol' = "DELETED"
      /\ VpgReferenceIsValid'
      /\ res \subseteq res' /\ res' \subseteq res \cup ({s} \cap Resources)
      /\ s # "assign" /\ "vpg" \in attrs' => "vpg" \in attrs
      /\ attrs \subseteq attrs'
      /\ s = "vpg" => "vpg" \in res'
  BY <1>t, <1>1, EffectFacts DEF AtStep
<1>3. undo \in Seq(Undos) /\ Len(undo) \in Nat
  BY DEF TypeOK, Undos
<1>4. \/ undo' = undo /\ s \notin Resources \cup {"refresh"}
      \/ undo' = Append(undo, s) /\ s \in Resources
      \/ undo' = Append(undo, "row") /\ s = "refresh"
      \/ undo' = undo /\ "undo" \in lapses'
  <2>1. undo \o <<>> = undo /\ \A x \in Undos : undo \o <<x>> = Append(undo, x)
    BY <1>3, Register DEF Undos
  <2>2. \A x \in Undos : Append(undo, x) \o <<>> = Append(undo, x)
    BY <1>3, Register, AppendProperties
  <2>3. s \in Resources \cup {"refresh"} => s \in Undos \cup {"refresh"}
    BY DEF Undos
  <2>4. CASE /\ s \notin Resources \cup {"refresh"}
             /\ UndoBefore(s) = <<>> /\ UndoAfter(s) = <<>>
    BY <1>1, <2>1, <2>4
  <2>5. CASE s = "policy" /\ UndoBefore(s) = <<s>> /\ UndoAfter(s) = <<>>
    BY <1>1, <2>1, <2>2, <2>3, <2>5 DEF Resources, Undos
  <2>6. CASE s \in {"qos", "vpg", "volume"} /\ UndoBefore(s) = <<>> /\ UndoAfter(s) = <<s>>
    BY <1>1, <2>1, <2>3, <2>6 DEF Resources, Undos
  <2>7. CASE s = "refresh" /\ UndoBefore(s) = <<>> /\ UndoAfter(s) = <<"row">>
    BY <1>1, <2>1, <2>7 DEF Undos
  <2>8. QED BY <2>4, <2>5, <2>6, <2>7, UndoOf
<1>5. /\ cpc = s /\ cst = "running" /\ cst' = cst /\ ~cancelled /\ cancelled' = cancelled
      /\ cpc' = After(s) \/ cpc' = "markError"
      /\ lapses' = lapses \/ lapses' = lapses \cup {"undo"}
  BY <1>1 DEF AtStep, PcShape, StepNames
<1>6. After(s) \in StepNames \cup {"done"}
  BY DEF After, StepNames
<1>7. undo' \in Seq(Undos)
  BY <1>3, <1>4, AppendProperties DEF Undos
<1>8. TypeOK'
  BY <1>1, <1>2, <1>5, <1>6, <1>7 DEF TypeOK, RowType, Undos, delete
<1>9. PcShape' /\ DoneShape'
  BY <1>1, <1>2, <1>5, <1>6 DEF PcShape, DoneShape, StepNames, delete
<1>10. AssignShape'
  <2>1. CASE cpc' = After(s)
    <3>1. After(s) \notin {"ensure", "processing", "cleanup"}
          /\ (After(s) \in {"prepare", "policy", "qos", "vpg", "assign"}
                => s \in {"prepare", "policy", "qos", "vpg"})
      BY DEF After, StepNames
    <3>2. After(s) = "assign" => s = "vpg"
      BY DEF After, StepNames
    <3>3. QED BY <1>1, <1>2, <1>5, <2>1, <3>1, <3>2 DEF AssignShape, delete
  <2>2. CASE cpc' = "markError"
    BY <1>1, <2>2 DEF AssignShape, delete
  <2>3. QED BY <1>5, <2>1, <2>2
<1>11. RollShape'
  <2> SUFFICES ASSUME "undo" \notin lapses', cpc' \notin {"done", "succeeded"}
               PROVE  /\ \A x \in res' : InUndo(x)'
                      /\ cpc' \notin {"ensure", "processing", "failed"}
                      /\ cpc' \in {"prepare", "policy"} => ~InUndo("vpg")'
                      /\ cpc' \in {"volume", "persist", "details"}
                           => RowAboveVpg' \/ vol' = "DELETED"
    BY <1>5 DEF RollShape
  <2>1. /\ \A x \in res : InUndo(x)
        /\ s \in {"prepare", "policy"} => ~InUndo("vpg")
        /\ s \in {"volume", "persist", "details"} => RowAboveVpg \/ vol = "DELETED"
    BY <1>5 DEF RollShape, StepNames
  <2>2. cpc' \notin {"ensure", "processing", "failed"}
        /\ (cpc' \in {"prepare", "policy"} => s = "prepare")
        /\ (cpc' \in {"volume", "persist", "details"} => s \in {"refresh", "volume", "persist"})
    BY <1>5 DEF After, StepNames
  <2>3. CASE undo' = undo /\ s \notin Resources \cup {"refresh"}
    BY <1>2, <2>1, <2>2, <2>3 DEF InUndo, RowAboveVpg, Resources
  <2>4. ASSUME NEW y \in Undos, undo' = Append(undo, y)
        PROVE  /\ Len(undo') = Len(undo) + 1 /\ undo'[Len(undo) + 1] = y
               /\ \A i \in 1 .. Len(undo) : undo'[i] = undo[i]
    BY <1>3, <2>4, AppendProperties
  <2>5. CASE undo' = Append(undo, s) /\ s \in Resources
    <3>1. /\ Len(undo') = Len(undo) + 1 /\ undo'[Len(undo) + 1] = s
          /\ \A i \in 1 .. Len(undo) : undo'[i] = undo[i]
      BY <2>4, <2>5 DEF Undos
    <3>2. \A x \in res' : InUndo(x)'
      BY <1>2, <1>3, <2>1, <3>1 DEF InUndo
    <3>3. s = "volume" /\ RowAboveVpg => RowAboveVpg'
      BY <1>3, <3>1 DEF RowAboveVpg
    <3>4. QED BY <1>2, <2>1, <2>2, <2>5, <3>2, <3>3 DEF Resources
  <2>6. CASE undo' = Append(undo, "row") /\ s = "refresh"
    <3>1. /\ Len(undo') = Len(undo) + 1 /\ undo'[Len(undo) + 1] = "row"
          /\ \A i \in 1 .. Len(undo) : undo'[i] = undo[i]
      BY <2>4, <2>6 DEF Undos
    <3>2. \A x \in res' : InUndo(x)'
      BY <1>2, <1>3, <2>1, <2>6, <3>1 DEF InUndo, Resources
    <3>3. RowAboveVpg'
      BY <1>3, <3>1 DEF RowAboveVpg
    <3>4. QED BY <2>2, <2>6, <3>2, <3>3
  <2>7. "undo" \notin lapses'
    OBVIOUS
  <2>8. QED BY <1>4, <2>3, <2>5, <2>6, <2>7
<1>12. QED BY <1>2, <1>8, <1>9, <1>10, <1>11

\* A rollback step preserves the invariant.
LEMMA RollbackInv ==
  ASSUME IInv, CRollback
  PROVE  IInv'
<1> USE DEF IInv
<1>t. RowType /\ undo \in Seq(Undos)
  BY DEF TypeOK, RowType, Undos
<1>1. /\ cst = "running" /\ cpc = "rollback" /\ undo # <<>> /\ undo' = Front(undo)
      /\ UNCHANGED <<cjob, cst, sig, cancelled, delete>>
      /\ cpc' \in {"rollback", "cleanup"}
  BY DEF CRollback, AtStep, AfterUndo
<1>2. /\ undo' \in Seq(Undos)
      /\ Len(undo) \in Nat \ {0}
      /\ Len(undo') = Len(undo) - 1
      /\ Last(undo) = undo[Len(undo)] /\ Last(undo) \in Undos
      /\ \A i \in 1 .. Len(undo') : undo'[i] = undo[i]
  BY <1>t, <1>1, Pop
<1>3. Settles /\ lapses' \in {lapses, lapses \cup {"undo"}}
  BY <1>t, UndoSettles DEF CRollback, Settles, RowType, VpgReferenceIsValid, Live, row
<1>4. TypeOK'
  BY <1>1, <1>2, <1>3 DEF TypeOK, Settles, RowType, Undos, delete
<1>c. cpc' = "cleanup" => ~(Live' /\ "vpg" \in attrs')
  <2>1. CASE UNCHANGED cpc
    BY <1>1, <2>1
  <2>2. CASE UndoEffect(Last(undo)) /\ cpc' = AfterUndo(Last(undo))
    BY <1>3, <2>2 DEF AfterUndo, VpgUnused, Settles, Live
  <2>3. QED BY <2>1, <2>2 DEF CRollback
<1>5. PcShape' /\ DoneShape' /\ AssignShape' /\ VpgReferenceIsValid'
  BY <1>1, <1>3, <1>c DEF PcShape, DoneShape, AssignShape, Settles, delete
<1>6. RollShape'
  <2> DEFINE u == Last(undo)
  <2> SUFFICES ASSUME "undo" \notin lapses'
               PROVE  /\ \A x \in res' : \/ InUndo(x)'
                                         \/ x = "vpg" /\ cpc' = "cleanup"
                                         \/ x = "vpg" /\ "vpg" \in attrs' /\ ~cancelled
                      /\ cancelled => RowAboveVpg' \/ vol' = "DELETED"
    BY <1>1 DEF RollShape
  <2>1. UndoEffect(u) /\ lapses' = lapses /\ cpc' = AfterUndo(u)
    BY DEF CRollback
  <2>2. /\ u # "vpg" => u \notin res'
        /\ u = "row" => vol' = "DELETED"
        /\ u = "vpg" /\ "vpg" \in res' /\ cpc' # "cleanup" => Live /\ "vpg" \in attrs'
    BY <1>t, <2>1, UndoSettles DEF AfterUndo, VpgUnused
  <2>3. /\ \A x \in res : \/ InUndo(x)
                          \/ x = "vpg" /\ "vpg" \in attrs /\ ~cancelled
        /\ cancelled => RowAboveVpg \/ vol = "DELETED"
    BY <1>1, <2>1 DEF RollShape
  <2>4. \A x : InUndo(x) => InUndo(x)' \/ x = u
    BY <1>2 DEF InUndo
  <2>5. cancelled /\ u = "vpg" => ~Live
    <3>1. Len(undo) \in 1 .. Len(undo) /\ (Len(undo) + 1) .. Len(undo) = {}
      BY <1>2
    <3>2. u = "vpg" => ~RowAboveVpg
      BY <1>2, <3>1 DEF RowAboveVpg
    <3>3. QED BY <2>3, <3>2 DEF Live
  <2>6. RowAboveVpg /\ u # "row" => RowAboveVpg'
    BY <1>2 DEF RowAboveVpg
  <2>7. cancelled => RowAboveVpg' \/ vol' = "DELETED"
    BY <1>3, <2>2, <2>3, <2>6 DEF Settles
  <2>8. \A x \in res' : \/ InUndo(x)'
                        \/ x = "vpg" /\ cpc' = "cleanup"
                        \/ x = "vpg" /\ "vpg" \in attrs' /\ ~cancelled
    <3> SUFFICES ASSUME NEW x \in res', ~InUndo(x)', ~(x = "vpg" /\ cpc' = "cleanup")
                 PROVE  x = "vpg" /\ "vpg" \in attrs' /\ ~cancelled
      OBVIOUS
    <3>1. CASE InUndo(x)
      BY <2>2, <2>4, <2>5, <3>1
    <3>2. CASE ~InUndo(x)
      BY <1>3, <2>3, <3>2 DEF Settles
    <3>3. QED BY <3>1, <3>2
  <2>9. QED BY <2>7, <2>8
<1>7. QED BY <1>4, <1>5, <1>6

\* So does the deletion of a VPG that the undo found to be unused.
LEMMA CleanupInv ==
  ASSUME IInv, CCleanup
  PROVE  IInv'
<1> USE DEF IInv
<1>t. RowType
  BY DEF TypeOK, RowType
<1>1. /\ cst = "running" /\ cpc = "cleanup" /\ cpc' = "rollback"
      /\ UNCHANGED <<cjob, cst, undo, sig, cancelled, delete>>
  BY DEF CCleanup, AtStep
<1>2. ~(Live /\ "vpg" \in attrs)
  BY <1>1 DEF AssignShape
<1>3. \/ Settles /\ "vpg" \notin res' /\ UNCHANGED lapses
      \/ Settles /\ lapses' = lapses \cup {"undo"}
  BY <1>t, <1>2, CleanupSettles
     DEF CCleanup, Settles, RowType, VpgReferenceIsValid, Live, row
<1>4. TypeOK'
  BY <1>1, <1>3 DEF TypeOK, Settles, RowType, delete
<1>5. PcShape' /\ DoneShape' /\ AssignShape' /\ VpgReferenceIsValid'
  BY <1>1, <1>3 DEF PcShape, DoneShape, AssignShape, Settles, delete
<1>6. RollShape'
  BY <1>1, <1>3 DEF RollShape, InUndo, RowAboveVpg, Settles
<1>7. QED BY <1>4, <1>5, <1>6, <1>3 DEF Settles

\* The late end of an activity of a terminated workflow preserves the invariant.
LEMMA LateInv ==
  ASSUME IInv, CLate \/ CLateJob
  PROVE  IInv'
<1> USE DEF IInv
<1>t. RowType /\ undo \in Seq(Undos)
  BY DEF TypeOK, RowType, Undos
<1>1. /\ cst = "terminated" /\ cpc' \in {"stopped", "cleanup"} /\ undo' = <<>>
      /\ UNCHANGED <<cst, sig, cancelled, delete>>
      /\ lapses' \in {lapses, lapses \cup {"job"}} /\ cjob' \in JobStates
  BY DEF CLate, CLateJob, Outcome, JobStates, TypeOK
<1>2. /\ RowType' /\ (vol = "DELETED" => vol' = "DELETED") /\ VpgReferenceIsValid'
      /\ cpc' = "cleanup" => cpc = "rollback" /\ ~(Live' /\ "vpg" \in attrs')
  <2>1. CASE cpc \in StepNames /\ Effect(cpc) /\ cpc' = "stopped"
    BY <1>t, <2>1, EffectFacts
  <2>2. CASE /\ cpc = "rollback" /\ undo # <<>> /\ UndoEffect(Last(undo))
             /\ cpc' = IF AfterUndo(Last(undo)) = "cleanup" THEN "cleanup" ELSE "stopped"
    <3>1. Settles
      BY <1>t, <2>2, UndoSettles
    <3>2. QED BY <2>2, <3>1 DEF Settles, AfterUndo, VpgUnused, Live
  <2>3. CASE cpc = "markError" /\ SetState("ERROR") /\ UNCHANGED <<attrs, res>>
             /\ cpc' = "stopped"
    BY <1>t, <2>3, SetStateSettles DEF Settles
  <2>4. CASE cpc = "cleanup" /\ DeleteVpg /\ cpc' = "stopped"
    BY <1>t, <2>4, CleanupSettles DEF Settles, AssignShape
  <2>5. CASE UNCHANGED row /\ UNCHANGED res /\ cpc' = "stopped"
    BY <1>t, <2>5 DEF RowType, VpgReferenceIsValid, Live, row
  <2>6. QED BY <2>1, <2>2, <2>3, <2>4, <2>5 DEF CLate, CLateJob
<1>3. TypeOK'
  <2>1. undo' \in Seq(Resources \cup {"row"})
    BY <1>1, EmptySeq
  <2>2. QED BY <1>1, <1>2, <2>1 DEF TypeOK, RowType, delete
<1>4. PcShape' /\ DoneShape' /\ AssignShape' /\ RollShape'
  BY <1>1, <1>2 DEF PcShape, DoneShape, AssignShape, RollShape, delete
<1>5. QED BY <1>2, <1>3, <1>4

\* So do the other actions of the create workflow.
LEMMA CreateInv ==
  ASSUME IInv, Create
  PROVE  IInv'
<1> USE DEF IInv
<1>t. RowType /\ undo \in Seq(Undos)
  BY DEF TypeOK, RowType, Undos
<1>s. UNCHANGED row /\ UNCHANGED res => Settles
  BY <1>t DEF Settles, RowType, VpgReferenceIsValid, Live, row
<1>1. CASE CStart \/ CEnsure \/ CProcessing
  <2>1. /\ UNCHANGED row /\ UNCHANGED <<res, undo, sig, cancelled, delete>>
        /\ cst' \in {"running", "closed"} /\ cst # "closed" /\ cst # "terminated"
        /\ \/ cpc' = cpc /\ cst' = "running"
           \/ cpc \in {"ensure", "processing"} /\ cpc' \in {"processing", "prepare"}
              /\ cst' = "running"
           \/ cpc \in {"ensure", "processing"} /\ cpc' = "failed" /\ cst' = "closed"
        /\ cjob' \in {cjob, "PROCESSING"} /\ lapses' \in {lapses, lapses \cup {"job"}}
    BY <1>1 DEF CStart, CEnsure, CProcessing, CGiveUp, AtStep
  <2>2. TypeOK'
    BY <2>1 DEF TypeOK, JobStates, StepNames, row, delete
  <2>3. PcShape' /\ DoneShape' /\ AssignShape' /\ VpgReferenceIsValid'
    BY <2>1 DEF PcShape, DoneShape, AssignShape, VpgReferenceIsValid, Live, row, delete
  <2>4. RollShape'
    <3>1. CASE cpc' = cpc
      BY <2>1, <3>1 DEF RollShape, InUndo, RowAboveVpg, row
    <3>2. CASE cpc \in {"ensure", "processing"} /\ cpc' \in {"processing", "prepare", "failed"}
      <4> SUFFICES ASSUME "undo" \notin lapses
                   PROVE  res = {} /\ undo = <<>>
        BY <2>1, <3>2, EmptySeq DEF RollShape, InUndo, RowAboveVpg, PcShape
      <4>1. undo = <<>> /\ \A x \in res : InUndo(x)
        BY <2>1, <3>2 DEF RollShape
      <4>2. \A x : ~InUndo(x)
        BY <4>1, EmptySeq DEF InUndo
      <4>3. QED BY <4>1, <4>2
    <3>3. QED BY <2>1, <3>1, <3>2
  <2>5. QED BY <2>2, <2>3, <2>4
<1>2. CASE CCancel
  <2>1. PICK s \in StepNames : AtStep(s) /\ Checked(s)
    BY <1>2 DEF CCancel
  <2>2. /\ cpc \in {"prepare", "policy", "volume", "details"}
        /\ cst = "running" /\ cpc' = "rollback" /\ cancelled' /\ sig' = FALSE
        /\ UNCHANGED <<row, res, cjob, cst, undo, delete, lapses>>
    BY <1>2, <2>1 DEF CCancel, AtStep, Checked
  <2>3. TypeOK'
    <3>1. sig' \in BOOLEAN /\ cancelled' \in BOOLEAN
      BY <1>2 DEF CCancel
    <3>2. QED BY <2>2, <3>1 DEF TypeOK, row, delete
  <2>4. PcShape' /\ DoneShape' /\ AssignShape' /\ VpgReferenceIsValid'
    BY <2>2 DEF PcShape, DoneShape, AssignShape, VpgReferenceIsValid, Live, row, delete
  <2>5. ~InUndo("vpg") => RowAboveVpg
    BY DEF InUndo, RowAboveVpg
  <2>6. RollShape'
    <3> SUFFICES ASSUME "undo" \notin lapses
                 PROVE  (\A x \in res : InUndo(x)) /\ (RowAboveVpg \/ vol = "DELETED")
      BY <2>2 DEF RollShape, InUndo, RowAboveVpg, row
    <3>1. QED BY <2>2, <2>5 DEF RollShape
  <2>7. QED BY <2>3, <2>4, <2>6
<1>3. CASE CStep \/ CLost
  BY <1>3, StepInv
<1>4. CASE CFail
  <2>1. PICK s \in StepNames : /\ AtStep(s)
                               /\ undo' = undo \o UndoBefore(s)
    BY <1>4 DEF CFail
  <2>2. /\ cpc = s /\ cst = "running" /\ cpc' = "markError"
        /\ UNCHANGED <<row, res, cjob, cst, sig, cancelled, delete, lapses>>
    BY <1>4, <2>1 DEF CFail, AtStep
  <2>3. undo' = undo \/ undo' = Append(undo, "policy")
    BY <1>t, <2>1, Register DEF UndoBefore, Undos, Resources
  <2>4. /\ undo' \in Seq(Undos) /\ Len(undo) \in Nat /\ Len(undo') \in Nat
        /\ Len(undo') >= Len(undo) /\ \A i \in 1 .. Len(undo) : undo'[i] = undo[i]
    BY <1>t, <2>3, AppendProperties DEF Undos, Resources
  <2>5. TypeOK'
    BY <2>2, <2>4 DEF TypeOK, Undos, row, delete
  <2>6. PcShape' /\ DoneShape' /\ AssignShape' /\ VpgReferenceIsValid'
    BY <2>2 DEF PcShape, DoneShape, AssignShape, VpgReferenceIsValid, Live, row, delete,
               StepNames
  <2>7. RollShape'
    <3>1. ~cancelled'
      BY <2>2 DEF PcShape, StepNames
    <3>2. \A x : InUndo(x) => InUndo(x)'
      BY <2>4 DEF InUndo
    <3>3. QED BY <2>2, <3>1, <3>2 DEF RollShape, StepNames
  <2>8. QED BY <2>5, <2>6, <2>7
<1>5. CASE CPoolDeleting \/ CMarkError
  <2>1. /\ cst = "running" /\ cpc \in {"prepare", "markError"}
        /\ cpc' \in {"markError", "rollback"}
        /\ UNCHANGED <<attrs, res, cjob, cst, undo, sig, cancelled, delete, lapses>>
    BY <1>5 DEF CPoolDeleting, CMarkError, AtStep
  <2>2. Settles
    BY <1>t, <1>5, SetStateSettles
       DEF CPoolDeleting, CMarkError, Settles, RowType, VpgReferenceIsValid, Live
  <2>3. TypeOK'
    BY <2>1, <2>2 DEF TypeOK, Settles, RowType, delete
  <2>4. PcShape' /\ DoneShape' /\ AssignShape' /\ VpgReferenceIsValid'
    BY <2>1, <2>2 DEF PcShape, DoneShape, AssignShape, Settles, delete
  <2>5. RollShape'
    BY <2>1, <2>2 DEF RollShape, InUndo, RowAboveVpg, Settles, PcShape
  <2>6. QED BY <2>2, <2>3, <2>4, <2>5
<1>6. CASE CAbandon
  <2>1. TypeOK' /\ PcShape'
    BY <1>6 DEF CAbandon, AtStep, TypeOK, PcShape, JobStates, row, delete
  <2>2. DoneShape' /\ AssignShape' /\ VpgReferenceIsValid' /\ RollShape'
    BY <1>6 DEF CAbandon, DoneShape, AssignShape, VpgReferenceIsValid, RollShape, Live,
               row, delete
  <2>3. QED BY <2>1, <2>2
<1>7. CASE CRollback
  BY <1>7, RollbackInv
<1>8. CASE CCleanup
  BY <1>8, CleanupInv
<1>9. CASE CEnd
  <2>1. /\ UNCHANGED row /\ UNCHANGED <<res, cancelled, delete>> /\ undo' = <<>> /\ sig' = FALSE
        /\ cst = "running" /\ cst' = "closed"
        /\ \/ cpc = "done" /\ cpc' = "succeeded"
           \/ cpc = "abandon" /\ cpc' = "failed"
           \/ cpc = "rollback" /\ undo = <<>> /\ cpc' = "failed"
        /\ cjob' \in {cjob, "DONE", "ERROR"} /\ lapses' \in {lapses, lapses \cup {"job"}}
    BY <1>9 DEF CEnd, Returned, Outcome
  <2>2. undo' \in Seq(Resources \cup {"row"})
    BY <2>1, EmptySeq
  <2>3. TypeOK'
    BY <2>1, <2>2 DEF TypeOK, JobStates, row, delete
  <2>4. PcShape' /\ DoneShape' /\ AssignShape' /\ VpgReferenceIsValid'
    BY <2>1 DEF PcShape, DoneShape, AssignShape, VpgReferenceIsValid, Live, row, delete
  <2>5. RollShape'
    <3>1. CASE cpc = "done" \/ cpc = "abandon"
      BY <2>1, <3>1 DEF RollShape, PcShape
    <3>2. CASE cpc = "rollback" /\ undo = <<>>
      BY <2>1, <3>2 DEF RollShape, InUndo, RowAboveVpg, row
    <3>3. QED BY <2>1, <3>1, <3>2
  <2>6. QED BY <2>3, <2>4, <2>5
<1>10. QED BY <1>1, <1>2, <1>3, <1>4, <1>5, <1>6, <1>7, <1>8, <1>9 DEF Create

\* A delete call copies the row's references.
LEMMA CallInv ==
  ASSUME IInv, NEW d \in Calls, Call(d)
  PROVE  IInv'
<1> USE DEF IInv
<1>1. /\ UNCHANGED row /\ UNCHANGED <<res, cjob, cst, cpc, undo, cancelled, sig, lapses>>
  BY DEF Call, DRead, DLook, DInsert, create
<1>2. \E p \in DeletePcs \ {"vpg", "cleanup"} : dpc' = [dpc EXCEPT ![d] = p]
  BY DEF Call, DRead, DLook, DInsert, Goto, DeletePcs
<1>3. /\ djob' = djob \/ djob' = [djob EXCEPT ![d] = "NEW"]
      /\ snap' = snap \/ snap' = [snap EXCEPT ![d] = attrs]
      /\ first' \in {first, d}
  BY DEF Call, DRead, DLook, DInsert, Goto
<1>4. TypeOK'
  <2>1. djob' \in [Calls -> JobStates \cup {"NONE"}]
    BY <1>3 DEF TypeOK, JobStates
  <2>2. dpc' \in [Calls -> DeletePcs]
    BY <1>2 DEF TypeOK
  <2>3. snap' \in [Calls -> SUBSET Attrs]
    BY <1>3 DEF TypeOK
  <2>4. first' \in 0 .. MaxDeletes
    BY <1>3, CancellationAssumption DEF TypeOK, Calls
  <2>5. QED BY <1>1, <2>1, <2>2, <2>3, <2>4 DEF TypeOK, row
<1>5. /\ dpc'[d] \notin {"vpg", "cleanup"} /\ djob'[d] \in {djob[d], "NEW"}
      /\ snap'[d] \in {snap[d], attrs}
      /\ \A e \in Calls : e # d => djob'[e] = djob[e] /\ dpc'[e] = dpc[e] /\ snap'[e] = snap[e]
  BY <1>2, <1>3 DEF TypeOK
<1>6. PcShape' /\ VpgReferenceIsValid'
  BY <1>1 DEF PcShape, VpgReferenceIsValid, Live, row
<1>7. DoneShape'
  BY <1>1, <1>5 DEF DoneShape, row
<1>8. AssignShape'
  BY <1>1, <1>5 DEF AssignShape, Live, row
<1>9. RollShape'
  BY <1>1 DEF RollShape, InUndo, RowAboveVpg, row
<1>10. QED BY <1>4, <1>6, <1>7, <1>8, <1>9

LEMMA StutterInv ==
  ASSUME IInv, UNCHANGED vars
  PROVE  IInv'
<1> USE DEF vars, row, create, delete
<1>1. TypeOK'
  BY DEF IInv, TypeOK
<1>2. PcShape' /\ DoneShape' /\ AssignShape' /\ VpgReferenceIsValid'
  BY DEF IInv, PcShape, DoneShape, AssignShape, VpgReferenceIsValid, Live
<1>3. RollShape'
  BY DEF IInv, RollShape, InUndo, RowAboveVpg
<1>4. QED BY <1>1, <1>2, <1>3 DEF IInv

LEMMA Inductive == Spec => []IInv
<1>1. IInv /\ [Next]_vars => IInv'
  BY CreateInv, LateInv, CallInv, DeleteInv, StutterInv DEF Next
<1>2. QED BY <1>1, InitInv, PTL DEF Spec

-----------------------------------------------------------------------------
(* The theorems                                                            *)

\* Every action of both workflows writes values of their types, jobs included.
THEOREM TypeCorrect == Spec => []TypeOK
<1>1. IInv => TypeOK
  BY DEF IInv
<1>2. QED BY <1>1, Inductive, PTL

\* A volume with a delete job that is DONE is deleted for good: no step of the
\* create workflow, no late activity of it and no other delete workflow brings the
\* row back.
THEOREM DoneDeleted == Spec => []DoneMeansDeleted
<1>1. IInv => DoneMeansDeleted
  BY DEF IInv, DoneShape, DoneMeansDeleted
<1>2. QED BY <1>1, Inductive, PTL

\* The workflows' cleanups of VPGs, with other steps between their look and their
\* deletion, never leave a live row with a reference to a VPG that is gone.
THEOREM ValidVpgReference == Spec => []VpgReferenceIsValid
<1>1. IInv => VpgReferenceIsValid
  BY DEF IInv
<1>2. QED BY <1>1, Inductive, PTL

\* The undo actions of RollbackManager, in reverse order, remove all that a
\* create workflow left, wherever a signal or an error stopped it.
THEOREM CompleteRollback == Spec => []RollbackIsComplete
<1>1. IInv => RollbackIsComplete
  <2> SUFFICES ASSUME IInv, cpc = "failed", "undo" \notin lapses
               PROVE  res \subseteq (IF cancelled THEN {} ELSE attrs \cap {"vpg"})
    BY DEF RollbackIsComplete
  <2>1. cst # "terminated"
    BY DEF IInv, PcShape
  <2>2. undo = <<>> /\ \A x \in res : InUndo(x) \/ (x = "vpg" /\ "vpg" \in attrs /\ ~cancelled)
    BY <2>1 DEF IInv, RollShape
  <2>3. \A x : ~InUndo(x)
    BY <2>2, EmptySeq DEF InUndo
  <2>4. QED BY <2>2, <2>3
<1>2. QED BY <1>1, Inductive, PTL
=============================================================================
