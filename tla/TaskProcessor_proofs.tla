------------------------ MODULE TaskProcessor_proofs ------------------------
(***************************************************************************)
(* Proofs about TaskProcessor for any tasks, workers, units and capacity:  *)
(* its types, that Run collects one result per task, what a result without *)
(* error means, and that no unit is started after Run has returned.        *)
(***************************************************************************)
EXTENDS TaskProcessor, SequenceTheorems, TLAPS

\* The results in the order the workers have sent them.
All == allResults \o results

\* The caller and the workers.
MainShape ==
  /\ main = "adding" => /\ \A w \in Workers : worker[w] = None
                        /\ \A t \in Tasks : tf[t] = "none"
  /\ \A w \in Workers : worker[w] = "exited" => tasks = <<>>
  /\ main = "returned" => results = <<>> /\ \A w \in Workers : worker[w] = "exited"

\* A task is in the channel once, before it starts, and then with one worker.
TaskShape ==
  /\ \A i \in 1 .. Len(tasks) : tf[tasks[i]] = "none"
  /\ \A i, j \in 1 .. Len(tasks) : tasks[i] = tasks[j] => i = j
  /\ \A w \in Workers : worker[w] \in Tasks => tf[worker[w]] # "none"
  /\ \A v, w \in Workers : worker[v] \in Tasks /\ worker[v] = worker[w] => v = w

\* A task that was started is with a worker or has its result; a task with a
\* result has one, and its context is done.
ResultShape ==
  /\ \A i \in 1 .. Len(All) : /\ tf[All[i].task] # "none"
                              /\ All[i].task \in expired
                              /\ \A w \in Workers : worker[w] # All[i].task
  /\ \A i, j \in 1 .. Len(All) : All[i].task = All[j].task => i = j
  /\ \A t \in Tasks : tf[t] # "none" => \/ \E w \in Workers : worker[w] = t
                                        \/ \E i \in 1 .. Len(All) : All[i].task = t

\* A unit is called by a task that was started; the goroutine of a unit that
\* succeeded is over; a task has called the units with an outcome and the one
\* it waits for.
UnitShape ==
  \A t \in Tasks :
    /\ Len(outcomes[t]) <= Units
    /\ tf[t] = "unit" => Current(t) <= Units
    /\ \A u \in UnitIDs : uf[<<t, u>>] # "none" => tf[t] # "none"
    /\ \A k \in 1 .. Len(outcomes[t]) : outcomes[t][k] = "ok" => uf[<<t, k>>] = "ended"
    /\ \A u \in UnitIDs : uf[<<t, u>>] # "none" => \/ u <= Len(outcomes[t])
                                                   \/ tf[t] = "unit" /\ u = Current(t)

\* CleanResultMeansOver, for the results that are still in the channel too.
CleanShape ==
  \A i \in 1 .. Len(All) :
    All[i].err = "none" /\ (\A k \in DOMAIN All[i].units : All[i].units[k] = "ok") =>
      /\ tf[All[i].task] = "ended"
      /\ \A u \in UnitIDs :
           uf[<<All[i].task, u>>] = IF u <= Len(All[i].units) THEN "ended" ELSE "none"

IInv == TypeOK /\ MainShape /\ TaskShape /\ ResultShape /\ UnitShape /\ CleanShape

-----------------------------------------------------------------------------
(* Channels                                                                *)

\* Two sequences, one after the other.
LEMMA Joined ==
  ASSUME NEW S, NEW a \in Seq(S), NEW b \in Seq(S)
  PROVE  /\ a \o b \in Seq(S)
         /\ Len(a \o b) = Len(a) + Len(b)
         /\ Len(a) \in Nat /\ Len(b) \in Nat
         /\ \A i \in 1 .. Len(a) + Len(b) : (a \o b)[i] = IF i <= Len(a) THEN a[i]
                                                          ELSE b[i - Len(a)]
         /\ \A i \in 1 .. Len(a) + Len(b) : (a \o b)[i] \in S
<1>1. /\ a \o b \in Seq(S)
      /\ Len(a \o b) = Len(a) + Len(b)
      /\ \A i \in 1 .. Len(a) + Len(b) : (a \o b)[i] = IF i <= Len(a) THEN a[i]
                                                       ELSE b[i - Len(a)]
  BY ConcatProperties
<1>2. Len(a) \in Nat /\ Len(b) \in Nat
  BY LenProperties
<1>3. \A i \in 1 .. Len(a \o b) : (a \o b)[i] \in S
  BY <1>1, ElementOfSeq
<1>4. QED BY <1>1, <1>2, <1>3

LEMMA AllFacts ==
  ASSUME TypeOK
  PROVE  /\ All \in Seq(Results)
         /\ Len(All) = Len(allResults) + Len(results)
         /\ Len(All) \in Nat /\ Len(allResults) \in Nat /\ Len(results) \in Nat
         /\ \A i \in 1 .. Len(All) : All[i] = IF i <= Len(allResults) THEN allResults[i]
                                              ELSE results[i - Len(allResults)]
         /\ \A i \in 1 .. Len(All) : All[i] \in Results
<1>1. allResults \in Seq(Results) /\ results \in Seq(Results)
  BY DEF TypeOK
<1>2. QED BY <1>1, Joined DEF All

\* What the head and the tail of a channel are.
LEMMA Receive ==
  ASSUME NEW S, NEW s \in Seq(S), s # <<>>
  PROVE  /\ Len(s) \in Nat \ {0} /\ Head(s) = s[1] /\ Head(s) \in S
         /\ Tail(s) \in Seq(S) /\ Len(Tail(s)) = Len(s) - 1
         /\ \A i \in 1 .. Len(s) - 1 : Tail(s)[i] = s[i + 1]
<1>1. Len(s) \in Nat \ {0}
  BY EmptySeq
<1>2. Head(s) = s[1]
  BY <1>1
<1>3. /\ Tail(s) \in Seq(S) /\ Len(Tail(s)) = Len(s) - 1
      /\ \A i \in 1 .. Len(s) - 1 : Tail(s)[i] = s[i + 1]
  BY <1>1, HeadTailProperties
<1>4. QED BY <1>1, <1>2, <1>3, ElementOfSeq

LEMMA InitInv == Init => IInv
<1> SUFFICES ASSUME Init PROVE IInv
  OBVIOUS
<1>1. /\ \A S : <<>> \in Seq(S)
      /\ Len(<<>>) = 0
  BY EmptySeq
<1>2. TypeOK
  BY <1>1, ProcessorAssumption DEF Init, TypeOK
<1>3. Len(All) = 0
  BY <1>1, <1>2, AllFacts DEF Init
<1>4. MainShape /\ TaskShape
  BY <1>1, ProcessorAssumption DEF Init, MainShape, TaskShape
<1>5. ResultShape /\ CleanShape
  BY <1>3 DEF Init, ResultShape, CleanShape
<1>6. UnitShape
  BY <1>1, ProcessorAssumption DEF Init, UnitShape, Current, UnitIDs
<1>7. QED BY <1>2, <1>4, <1>5, <1>6 DEF IInv

\* The parts of the invariant that depend on neither the caller nor the channel of
\* tasks.
LEMMA SameShapes ==
  ASSUME IInv, All' = All, UNCHANGED <<tf, worker, expired, uf, outcomes>>
  PROVE  ResultShape' /\ CleanShape' /\ UnitShape'
<1>1. ResultShape'
  BY DEF IInv, ResultShape
<1>2. CleanShape'
  BY DEF IInv, CleanShape
<1>3. UnitShape'
  BY DEF IInv, UnitShape, Current
<1>4. QED BY <1>1, <1>2, <1>3

-----------------------------------------------------------------------------
(* Add and Run, and the workers                                            *)

LEMMA AddInv ==
  ASSUME IInv, NEW t \in Tasks, Add(t)
  PROVE  IInv'
<1> USE DEF IInv
<1>t. tasks \in Seq(Tasks) /\ Len(tasks) \in Nat
  BY DEF TypeOK
<1>1. /\ tasks' \in Seq(Tasks) /\ Len(tasks') = Len(tasks) + 1
      /\ \A i \in 1 .. Len(tasks) : tasks'[i] = tasks[i]
      /\ tasks'[Len(tasks) + 1] = t
  BY <1>t, AppendProperties DEF Add
<1>2. \A i \in 1 .. Len(tasks) : tasks[i] # t
  BY <1>t DEF Add, ToSet
<1>3. TypeOK'
  BY <1>t, <1>1, ProcessorAssumption DEF Add, TypeOK, unitVars
<1>4. MainShape'
  BY ProcessorAssumption DEF Add, MainShape
<1>5. TaskShape'
  BY <1>t, <1>1, <1>2 DEF Add, TaskShape, MainShape
<1>6. ResultShape' /\ CleanShape' /\ UnitShape'
  <2>1. All' = All /\ UNCHANGED <<tf, worker, expired, uf, outcomes>>
    BY DEF Add, All, unitVars
  <2>2. QED BY <2>1, SameShapes
<1>7. QED BY <1>3, <1>4, <1>5, <1>6

LEMMA RunInv ==
  ASSUME IInv, Run \/ Return
  PROVE  IInv'
<1> USE DEF IInv
<1>1. All' = All /\ UNCHANGED <<tf, worker, expired, uf, outcomes>>
  BY DEF Run, Return, All, unitVars
<1>2. TypeOK'
  BY DEF Run, Return, TypeOK, unitVars
<1>3. MainShape'
  BY DEF Run, Return, MainShape
<1>4. TaskShape'
  BY DEF Run, Return, TaskShape
<1>5. QED BY <1>1, <1>2, <1>3, <1>4, SameShapes

LEMMA CollectInv ==
  ASSUME IInv, Collect
  PROVE  IInv'
<1> USE DEF IInv
<1>1. results \in Seq(Results) /\ allResults \in Seq(Results) /\ results # <<>>
  BY DEF TypeOK, Collect
<1>2. /\ Len(results) \in Nat \ {0} /\ Head(results) = results[1] /\ Head(results) \in Results
      /\ results' \in Seq(Results) /\ Len(results') = Len(results) - 1
      /\ \A i \in 1 .. Len(results) - 1 : results'[i] = results[i + 1]
  BY <1>1, Receive DEF Collect
<1>3. /\ allResults' \in Seq(Results) /\ Len(allResults') = Len(allResults) + 1
      /\ \A i \in 1 .. Len(allResults) : allResults'[i] = allResults[i]
      /\ allResults'[Len(allResults) + 1] = results[1]
  BY <1>1, <1>2, AppendProperties DEF Collect
<1>4. TypeOK'
  BY <1>2, <1>3, ProcessorAssumption DEF Collect, TypeOK, unitVars
<1>5. All' = All
  <2> DEFINE n == Len(allResults)
             b == allResults' \o results'
  <2>1. /\ All \in Seq(Results) /\ Len(All) = n + Len(results) /\ n \in Nat
        /\ \A i \in 1 .. Len(All) : All[i] = IF i <= n THEN allResults[i]
                                             ELSE results[i - n]
    BY AllFacts
  <2>2. /\ b \in Seq(Results) /\ Len(b) = Len(allResults') + Len(results')
        /\ \A i \in 1 .. Len(allResults') + Len(results') :
             b[i] = IF i <= Len(allResults') THEN allResults'[i]
                    ELSE results'[i - Len(allResults')]
    BY <1>2, <1>3, Joined
  <2> HIDE DEF n, b
  <2>3. Len(allResults') = n + 1
    BY <1>3 DEF n
  <2>4. Len(b) = Len(All)
    BY <1>2, <2>1, <2>2, <2>3
  <2>5. ASSUME NEW i \in 1 .. Len(b)
        PROVE  b[i] = All[i]
    <3>1. b[i] = IF i <= n + 1 THEN allResults'[i] ELSE results'[i - (n + 1)]
      BY <2>2, <2>3
    <3>2. All[i] = IF i <= n THEN allResults[i] ELSE results[i - n]
      BY <2>1, <2>4
    <3>3. CASE i <= n
      BY <1>3, <2>1, <3>1, <3>2, <3>3 DEF n
    <3>4. CASE i = n + 1
      BY <1>3, <2>1, <3>1, <3>2, <3>4 DEF n
    <3>5. CASE i > n + 1
      <4>1. i - (n + 1) \in 1 .. Len(results) - 1
        BY <1>2, <2>1, <2>4, <3>5
      <4>2. results'[i - (n + 1)] = results[i - (n + 1) + 1]
        BY <1>2, <4>1
      <4>3. i - (n + 1) + 1 = i - n
        BY <2>1
      <4>4. QED BY <2>1, <3>1, <3>2, <3>5, <4>2, <4>3
    <3>6. QED BY <2>1, <3>3, <3>4, <3>5
  <2>6. b = All
    BY <2>1, <2>2, <2>4, <2>5, SeqEqual
  <2>7. QED BY <2>6 DEF b, All
<1>6. UNCHANGED <<tf, worker, expired, uf, outcomes>>
  BY DEF Collect, unitVars
<1>7. MainShape'
  BY DEF Collect, MainShape
<1>8. TaskShape'
  BY DEF Collect, TaskShape
<1>9. QED BY <1>4, <1>5, <1>6, <1>7, <1>8, SameShapes

LEMMA TakeInv ==
  ASSUME IInv, NEW w \in Workers, Take(w) \/ Exit(w)
  PROVE  IInv'
<1> USE DEF IInv
<1>1. CASE Exit(w)
  <2>1. TypeOK'
    BY <1>1 DEF Exit, TypeOK, unitVars
  <2>2. MainShape'
    BY <1>1 DEF Exit, MainShape, TypeOK
  <2>3. TaskShape'
    BY <1>1, ProcessorAssumption DEF Exit, TaskShape, TypeOK
  <2>4. \A v \in Workers, t \in Tasks : worker'[v] = t <=> worker[v] = t
    BY <1>1, ProcessorAssumption DEF Exit, TypeOK
  <2>5. /\ All' = All /\ UNCHANGED <<tf, expired, uf, outcomes>>
        /\ \A i \in 1 .. Len(All) : All[i].task \in Tasks
    BY <1>1, AllFacts DEF Exit, All, unitVars, Results
  <2>6. ResultShape'
    BY <2>4, <2>5 DEF ResultShape
  <2>7. CleanShape'
    BY <2>5 DEF CleanShape
  <2>8. UnitShape'
    BY <2>5 DEF UnitShape, Current
  <2>9. QED BY <2>1, <2>2, <2>3, <2>6, <2>7, <2>8
<1>2. CASE Take(w)
  <2> DEFINE t == Head(tasks)
  <2>1. /\ Len(tasks) \in Nat \ {0} /\ t = tasks[1] /\ t \in Tasks
        /\ tasks' \in Seq(Tasks) /\ Len(tasks') = Len(tasks) - 1
        /\ \A i \in 1 .. Len(tasks) - 1 : tasks'[i] = tasks[i + 1]
    BY <1>2, Receive DEF Take, TypeOK
  <2>2. /\ worker' = [worker EXCEPT ![w] = t] /\ tf' = [tf EXCEPT ![t] = "new"]
        /\ main = "running" /\ main' = main /\ worker[w] = None /\ tasks # <<>>
        /\ All' = All /\ UNCHANGED <<expired, uf, outcomes, results, allResults, unitExp>>
    BY <1>2 DEF Take, All, unitVars
  <2>3. tf[t] = "none" /\ (\A i \in 1 .. Len(tasks') : tasks'[i] # t)
    BY <2>1 DEF TaskShape
  <2>4. /\ \A v \in Workers : worker[v] # t /\ worker[v] # "exited"
        /\ \A i \in 1 .. Len(All) : All[i].task # t /\ All[i].task \in Tasks
    BY <2>1, <2>2, <2>3, AllFacts DEF TaskShape, ResultShape, MainShape, Results
  <2> HIDE DEF t
  <2>5. TypeOK'
    BY <2>1, <2>2, ProcessorAssumption DEF TypeOK
  <2>6. MainShape'
    BY <2>1, <2>2, <2>4, ProcessorAssumption DEF MainShape, TypeOK
  <2>7. TaskShape'
    <3>1. \A i \in 1 .. Len(tasks') : tf'[tasks'[i]] = "none"
      <4>1. \A i \in 1 .. Len(tasks') : /\ tasks'[i] = tasks[i + 1] /\ tasks'[i] # t
                                        /\ tf[tasks[i + 1]] = "none" /\ tasks[i + 1] \in Tasks
        BY <2>1, <2>3 DEF TaskShape, TypeOK
      <4>2. QED BY <2>2, <4>1 DEF TypeOK
    <3>2. \A i, j \in 1 .. Len(tasks') : tasks'[i] = tasks'[j] => i = j
      BY <2>1 DEF TaskShape
    <3>3. \A v \in Workers : worker'[v] \in Tasks => tf'[worker'[v]] # "none"
      BY <2>1, <2>2 DEF TaskShape, TypeOK
    <3>4. \A u, v \in Workers : worker'[u] \in Tasks /\ worker'[u] = worker'[v] => u = v
      BY <2>1, <2>2, <2>4 DEF TaskShape, TypeOK
    <3>5. QED BY <3>1, <3>2, <3>3, <3>4 DEF TaskShape
  <2>8. ResultShape'
    <3>1. \A i \in 1 .. Len(All) : /\ tf'[All[i].task] # "none"
                                   /\ \A v \in Workers : worker'[v] # All[i].task
      BY <2>1, <2>2, <2>4 DEF ResultShape, TypeOK
    <3>2. \A x \in Tasks : tf'[x] # "none" => \/ \E v \in Workers : worker'[v] = x
                                              \/ \E i \in 1 .. Len(All) : All[i].task = x
      <4> SUFFICES ASSUME NEW x \in Tasks, tf'[x] # "none"
                   PROVE  \/ \E v \in Workers : worker'[v] = x
                          \/ \E i \in 1 .. Len(All) : All[i].task = x
        OBVIOUS
      <4>1. CASE x = t
        BY <2>2, <4>1 DEF TypeOK
      <4>2. CASE x # t
        <5>1. tf[x] # "none"
          BY <2>2, <4>2 DEF TypeOK
        <5>2. \A v \in Workers : worker[v] = x => worker'[v] = x
          BY <2>2, ProcessorAssumption DEF TypeOK
        <5>3. QED BY <5>1, <5>2 DEF ResultShape
      <4>3. QED BY <4>1, <4>2
    <3>3. QED BY <2>2, <3>1, <3>2 DEF ResultShape
  <2>9. UnitShape'
    <3>1. \A u \in UnitIDs : uf[<<t, u>>] = "none"
      BY <2>1, <2>3 DEF UnitShape
    <3>2. \A x \in Tasks : tf'[x] = IF x = t THEN "new" ELSE tf[x]
      BY <2>2 DEF TypeOK
    <3>3. QED BY <2>1, <2>2, <3>1, <3>2 DEF UnitShape, Current
  <2>10. CleanShape'
    BY <2>1, <2>2, <2>4 DEF CleanShape, TypeOK
  <2>11. QED BY <2>5, <2>6, <2>7, <2>8, <2>9, <2>10
<1>3. QED BY <1>1, <1>2

\* A worker that sends a result with what the goroutine of its task has left.
LEMMA DeliverInv ==
  ASSUME IInv, NEW w \in Workers, worker[w] \in Tasks,
         NEW e \in {"none", "timeout", "context"}, NEW us \in Seq(Outcomes),
         Deliver(w, e, us),
         \/ tf' = tf
         \/ tf[worker[w]] # "unit" /\ tf' = [tf EXCEPT ![worker[w]] = "ended"],
         UNCHANGED <<main, tasks, allResults, unitVars>>,
         e = "none" /\ (\A k \in DOMAIN us : us[k] = "ok") =>
           /\ tf'[worker[w]] = "ended"
           /\ \A u \in UnitIDs :
                uf[<<worker[w], u>>] = IF u <= Len(us) THEN "ended" ELSE "none"
  PROVE  IInv'
<1> USE DEF IInv
<1> DEFINE t == worker[w]
           r == [task |-> t, err |-> e, units |-> us]
           n == Len(All)
<1>1. r \in Results /\ r.task = t /\ r.err = e /\ r.units = us
  BY DEF Results
<1>2. /\ results' = Append(results, r) /\ Len(results) < BufferSize
      /\ expired' = expired \cup {t} /\ worker' = [worker EXCEPT ![w] = None]
      /\ UNCHANGED <<main, tasks, allResults, uf, unitExp, outcomes>>
  BY DEF Deliver, unitVars
<1>3. /\ results' \in Seq(Results) /\ Len(results') = Len(results) + 1
      /\ \A i \in 1 .. Len(results) : results'[i] = results[i]
      /\ results'[Len(results) + 1] = r
  BY <1>1, <1>2, AppendProperties DEF TypeOK
<1>4. /\ Len(All') = n + 1 /\ n \in Nat
      /\ All'[n + 1] = r
      /\ \A i \in 1 .. n : All'[i] = All[i]
      /\ \A i \in 1 .. n : All[i] \in Results
  <2> DEFINE b == allResults \o results'
  <2>1. /\ Len(b) = Len(allResults) + Len(results')
        /\ \A i \in 1 .. Len(allResults) + Len(results') :
             b[i] = IF i <= Len(allResults) THEN allResults[i]
                    ELSE results'[i - Len(allResults)]
    <3>1. allResults \in Seq(Results) /\ results' \in Seq(Results)
      BY <1>3 DEF TypeOK
    <3>2. QED BY <3>1, Joined
  <2>2. /\ n = Len(allResults) + Len(results)
        /\ n \in Nat /\ Len(allResults) \in Nat /\ Len(results) \in Nat
        /\ \A i \in 1 .. n : All[i] = IF i <= Len(allResults) THEN allResults[i]
                                      ELSE results[i - Len(allResults)]
        /\ \A i \in 1 .. n : All[i] \in Results
    BY AllFacts
  <2>3. All' = b
    BY <1>2 DEF All
  <2> HIDE DEF b, n, r
  <2>4. Len(b) = n + 1
    BY <1>3, <2>1, <2>2
  <2>5. b[n + 1] = r
    BY <1>3, <2>1, <2>2
  <2>6. ASSUME NEW i \in 1 .. n
        PROVE  b[i] = All[i]
    <3>1. CASE i <= Len(allResults)
      <4>1. i \in 1 .. Len(allResults) + Len(results')
        BY <1>3, <2>2, <3>1
      <4>2. b[i] = allResults[i]
        BY <2>1, <3>1, <4>1
      <4>3. All[i] = allResults[i]
        BY <2>2, <3>1
      <4>4. QED BY <4>2, <4>3
    <3>2. CASE i > Len(allResults)
      <4>1. i - Len(allResults) \in 1 .. Len(results)
        BY <2>2, <3>2
      <4>2. results'[i - Len(allResults)] = results[i - Len(allResults)]
        BY <1>3, <4>1
      <4>3. b[i] = results'[i - Len(allResults)]
        <5>1. i \in 1 .. Len(allResults) + Len(results') /\ ~(i <= Len(allResults))
          BY <1>3, <2>2, <3>2
        <5>2. QED BY <2>1, <5>1
      <4>4. All[i] = results[i - Len(allResults)]
        BY <2>2, <3>2
      <4>5. QED BY <4>2, <4>3, <4>4
    <3>3. QED BY <2>2, <3>1, <3>2
  <2>7. QED BY <2>2, <2>3, <2>4, <2>5, <2>6
<1> HIDE DEF n, r, t
<1>5. t \in Tasks /\ tf[t] # "none"
  BY DEF TaskShape, t
<1>6. /\ tf' \in [Tasks -> {"none", "new", "work", "unit", "send", "sendErr", "ended"}]
      /\ \A x \in Tasks : \/ tf'[x] = tf[x]
                          \/ x = t /\ tf[x] # "unit" /\ tf'[x] = "ended"
      /\ \A x \in Tasks : tf'[x] = "none" <=> tf[x] = "none"
  BY <1>5 DEF TypeOK, t
<1>7. \A i \in 1 .. n : All[i].task \in Tasks /\ All[i].task # t
  BY <1>4 DEF ResultShape, Results, t, n
<1>8. \A v \in Workers : /\ v # w => worker'[v] = worker[v] /\ worker[v] # t
                         /\ worker'[w] = None
  BY <1>2, <1>5 DEF TypeOK, TaskShape, t
<1>9. TypeOK'
  <2>1. worker' \in [Workers -> Tasks \cup {None} \cup {"exited"}]
    BY <1>2 DEF TypeOK
  <2>2. Len(results') <= BufferSize
    BY <1>2, <1>3, ProcessorAssumption DEF TypeOK
  <2>3. QED BY <1>2, <1>3, <1>5, <1>6, <2>1, <2>2 DEF TypeOK
<1>10. MainShape'
  <2>1. main # "adding" /\ main # "returned"
    BY <1>5, ProcessorAssumption DEF MainShape, t
  <2>2. QED BY <1>2, <1>8, <2>1, ProcessorAssumption DEF MainShape
<1>11. TaskShape'
  <2>1. \A i \in 1 .. Len(tasks') : tf'[tasks'[i]] = "none"
    BY <1>2, <1>6 DEF TaskShape, TypeOK
  <2>2. \A v \in Workers : worker'[v] \in Tasks => worker'[v] = worker[v] /\ v # w
    BY <1>8, ProcessorAssumption
  <2>3. QED BY <1>2, <1>6, <2>1, <2>2 DEF TaskShape
<1>12. ResultShape'
  <2>1. \A i \in 1 .. n + 1 : /\ tf'[All'[i].task] # "none"
                              /\ All'[i].task \in expired'
                              /\ \A v \in Workers : worker'[v] # All'[i].task
    <3> SUFFICES ASSUME NEW i \in 1 .. n + 1
                 PROVE  /\ tf'[All'[i].task] # "none"
                        /\ All'[i].task \in expired'
                        /\ \A v \in Workers : worker'[v] # All'[i].task
      OBVIOUS
    <3>1. CASE i \in 1 .. n
      BY <1>2, <1>4, <1>6, <1>7, <1>8, <3>1, ProcessorAssumption DEF ResultShape, n
    <3>2. CASE i = n + 1
      BY <1>1, <1>2, <1>4, <1>5, <1>6, <1>8, <3>2, ProcessorAssumption
    <3>3. QED BY <1>4, <3>1, <3>2
  <2>2. \A i, j \in 1 .. n + 1 : All'[i].task = All'[j].task => i = j
    <3> SUFFICES ASSUME NEW i \in 1 .. n + 1, NEW j \in 1 .. n + 1,
                        All'[i].task = All'[j].task
                 PROVE  i = j
      OBVIOUS
    <3>1. i \in 1 .. n \/ i = n + 1
      BY <1>4
    <3>2. j \in 1 .. n \/ j = n + 1
      BY <1>4
    <3>3. QED BY <1>1, <1>4, <1>7, <3>1, <3>2 DEF ResultShape, n
  <2>3. \A x \in Tasks : tf'[x] # "none" => \/ \E v \in Workers : worker'[v] = x
                                            \/ \E i \in 1 .. n + 1 : All'[i].task = x
    <3> SUFFICES ASSUME NEW x \in Tasks, tf'[x] # "none",
                        \A i \in 1 .. n + 1 : All'[i].task # x
                 PROVE  \E v \in Workers : worker'[v] = x
      OBVIOUS
    <3>1. x # t /\ \A i \in 1 .. n : All[i].task # x
      BY <1>1, <1>4
    <3>2. PICK v \in Workers : worker[v] = x
      BY <1>6, <3>1 DEF ResultShape, n
    <3>3. QED BY <1>8, <3>1, <3>2 DEF t
  <2>4. QED BY <1>4, <2>1, <2>2, <2>3 DEF ResultShape
<1>13. UnitShape'
  BY <1>2, <1>6 DEF UnitShape, Current
<1>14. CleanShape'
  <2> SUFFICES ASSUME NEW i \in 1 .. n + 1, All'[i].err = "none",
                      \A k \in DOMAIN All'[i].units : All'[i].units[k] = "ok"
               PROVE  /\ tf'[All'[i].task] = "ended"
                      /\ \A u \in UnitIDs :
                           uf'[<<All'[i].task, u>>] = IF u <= Len(All'[i].units)
                                                      THEN "ended" ELSE "none"
    BY <1>4 DEF CleanShape
  <2>1. CASE i \in 1 .. n
    BY <1>2, <1>4, <1>6, <1>7, <2>1 DEF CleanShape, n
  <2>2. CASE i = n + 1
    BY <1>1, <1>2, <1>4, <2>2 DEF t
  <2>3. QED BY <1>4, <2>1, <2>2
<1>15. QED BY <1>9, <1>10, <1>11, <1>12, <1>13, <1>14

LEMMA TaskEndInv ==
  ASSUME IInv, NEW w \in Workers, TaskDone(w) \/ TaskTimeout(w)
  PROVE  IInv'
<1>1. outcomes \in [Tasks -> Seq(Outcomes)] /\ <<>> \in Seq(Outcomes)
      /\ tf \in [Tasks -> {"none", "new", "work", "unit", "send", "sendErr", "ended"}]
  BY EmptySeq DEF IInv, TypeOK
<1>2. CASE TaskTimeout(w)
  BY <1>1, <1>2, DeliverInv DEF TaskTimeout
<1>3. CASE TaskDone(w)
  <2>1. worker[w] \in Tasks /\ tf' = [tf EXCEPT ![worker[w]] = "ended"]
        /\ UNCHANGED <<main, tasks, allResults, unitVars>>
    BY <1>3 DEF TaskDone
  <2>2. tf'[worker[w]] = "ended"
    BY <1>1, <2>1
  <2>3. CASE tf[worker[w]] = "sendErr" /\ Deliver(w, "context", <<>>)
    BY <1>1, <2>1, <2>3, DeliverInv
  <2>4. CASE tf[worker[w]] = "send" /\ Deliver(w, "none", outcomes[worker[w]])
    <3> DEFINE t == worker[w]
    <3>1. ASSUME \A k \in DOMAIN outcomes[t] : outcomes[t][k] = "ok"
          PROVE  \A u \in UnitIDs :
                   uf[<<t, u>>] = IF u <= Len(outcomes[t]) THEN "ended" ELSE "none"
      <4>1. /\ DOMAIN outcomes[t] = 1 .. Len(outcomes[t]) /\ Len(outcomes[t]) \in Nat
            /\ Units \in Nat
        BY <1>1, <2>1, ProcessorAssumption
      <4>2. \A u \in UnitIDs : u <= Len(outcomes[t]) => uf[<<t, u>>] = "ended"
        BY <2>1, <3>1, <4>1 DEF IInv, UnitShape, UnitIDs
      <4>3. \A u \in UnitIDs : ~(u <= Len(outcomes[t])) => uf[<<t, u>>] = "none"
        BY <2>1, <2>4 DEF IInv, UnitShape
      <4>4. QED BY <4>2, <4>3
    <3>2. outcomes[t] \in Seq(Outcomes)
      BY <1>1, <2>1
    <3>3. QED BY <2>1, <2>2, <2>4, <3>1, <3>2, DeliverInv
  <2>5. QED BY <1>3, <2>3, <2>4 DEF TaskDone
<1>4. QED BY <1>2, <1>3

-----------------------------------------------------------------------------
(* Goroutines and timers                                                   *)

\* What goroutines of tasks and units and timers leave alone.
LEMMA GoroutineInv ==
  ASSUME IInv, UNCHANGED procVars, TypeOK', UnitShape',
         expired \subseteq expired',
         \A t \in Tasks : tf'[t] = "none" <=> tf[t] = "none",
         \A t \in Tasks : tf[t] = "ended" => tf'[t] = "ended",
         \A t \in Tasks, u \in UnitIDs : /\ uf[<<t, u>>] \in {"ended", "none"}
                                         /\ tf[t] = "ended"
                                         => uf'[<<t, u>>] = uf[<<t, u>>]
  PROVE  IInv'
<1> USE DEF IInv
<1>1. /\ All' = All /\ UNCHANGED <<main, tasks, worker, results, allResults>>
      /\ \A i \in 1 .. Len(All) : All[i].task \in Tasks
      /\ \A i \in 1 .. Len(tasks) : tasks[i] \in Tasks
  <2>1. \A i \in 1 .. Len(All) : All[i] \in Results
    BY AllFacts
  <2>2. \A i \in 1 .. Len(tasks) : tasks[i] \in Tasks
    BY DEF TypeOK
  <2>3. All' = All /\ UNCHANGED <<main, tasks, worker, results, allResults>>
    BY DEF procVars, All
  <2>4. QED BY <2>1, <2>2, <2>3 DEF Results
<1>2. MainShape'
  BY <1>1 DEF MainShape
<1>3. TaskShape'
  BY <1>1 DEF TaskShape
<1>4. ResultShape'
  BY <1>1 DEF ResultShape
<1>5. CleanShape'
  BY <1>1 DEF CleanShape
<1>6. QED BY <1>2, <1>3, <1>4, <1>5

LEMMA TimerInv ==
  ASSUME IInv, Timers
  PROVE  IInv'
<1> USE DEF IInv
<1>1. UNCHANGED <<procVars, tf, uf, outcomes>> /\ expired \subseteq expired'
  BY DEF Timers, Expire, UExpire, unitVars
<1>2. TypeOK'
  <2>1. CASE \E w \in Workers : Expire(w)
    BY <2>1 DEF Expire, TypeOK, procVars, unitVars
  <2>2. CASE \E t \in Tasks : UExpire(t)
    <3>1. PICK t \in Tasks : UExpire(t)
      BY <2>2
    <3>2. Current(t) \in UnitIDs
      BY <3>1, ProcessorAssumption DEF UExpire, UnitShape, Current, UnitIDs, TypeOK
    <3>3. QED BY <3>1, <3>2 DEF UExpire, TypeOK, procVars
  <2>3. QED BY <2>1, <2>2 DEF Timers
<1>3. UnitShape'
  BY <1>1 DEF UnitShape, Current
<1>4. QED BY <1>1, <1>2, <1>3, GoroutineInv

LEMMA TaskFuncInv ==
  ASSUME IInv, NEW t \in Tasks, TStart(t) \/ TQuit(t)
  PROVE  IInv'
<1> USE DEF IInv
<1>1. UNCHANGED <<procVars, expired, unitExp, uf, outcomes>>
  BY DEF TStart, TQuit, unitVars
<1>2. /\ tf' \in [Tasks -> {"none", "new", "work", "unit", "send", "sendErr", "ended"}]
      /\ tf[t] \in {"new", "send"} /\ tf'[t] \in {"work", "sendErr", "ended"}
      /\ \A x \in Tasks \ {t} : tf'[x] = tf[x]
  BY DEF TStart, TQuit, TypeOK
<1>3. TypeOK'
  BY <1>1, <1>2 DEF TypeOK, procVars
<1>4. UnitShape'
  BY <1>1, <1>2 DEF UnitShape, Current
<1>5. QED BY <1>1, <1>2, <1>3, <1>4, GoroutineInv

LEMMA WorkInv ==
  ASSUME IInv, NEW t \in Tasks, TWork(t)
  PROVE  IInv'
<1> USE DEF IInv
<1>1. UNCHANGED <<procVars, expired, unitExp, outcomes>> /\ tf[t] = "work"
  BY DEF TWork
<1>2. outcomes[t] \in Seq(Outcomes) /\ Len(outcomes[t]) \in Nat /\ Units \in Nat
  BY ProcessorAssumption DEF TypeOK
<1>3. CASE /\ Current(t) <= Units /\ tf' = [tf EXCEPT ![t] = "unit"]
           /\ uf' = [uf EXCEPT ![<<t, Current(t)>>] = "new"]
  <2>1. tf' = [tf EXCEPT ![t] = "unit"] /\ uf' = [uf EXCEPT ![<<t, Current(t)>>] = "new"]
    BY <1>3
  <2>2. Current(t) \in UnitIDs
    BY <1>2, <1>3 DEF Current, UnitIDs
  <2>3. TypeOK'
    BY <1>1, <2>1, <2>2 DEF TypeOK, procVars
  <2>4. \A x \in Tasks, u \in UnitIDs : <<x, u>> # <<t, Current(t)>> => uf'[<<x, u>>] = uf[<<x, u>>]
    BY <2>1 DEF TypeOK
  <2>5. \A x \in Tasks : tf'[x] = IF x = t THEN "unit" ELSE tf[x]
    BY <2>1 DEF TypeOK
  <2>6. UnitShape'
    <3> SUFFICES ASSUME NEW x \in Tasks
                 PROVE  /\ Len(outcomes[x]) <= Units
                        /\ tf'[x] = "unit" => Current(x) <= Units
                        /\ \A u \in UnitIDs : uf'[<<x, u>>] # "none" => tf'[x] # "none"
                        /\ \A k \in 1 .. Len(outcomes[x]) :
                             outcomes[x][k] = "ok" => uf'[<<x, k>>] = "ended"
                        /\ \A u \in UnitIDs : uf'[<<x, u>>] # "none" =>
                             \/ u <= Len(outcomes[x])
                             \/ tf'[x] = "unit" /\ u = Current(x)
      BY <1>1 DEF UnitShape, Current
    <3>1. \A k \in 1 .. Len(outcomes[x]) : k \in UnitIDs /\ <<x, k>> # <<t, Current(t)>>
      BY <1>2 DEF UnitShape, UnitIDs, Current, TypeOK
    <3>2. QED BY <1>1, <1>3, <2>4, <2>5, <3>1 DEF UnitShape
  <2>7. QED BY <1>1, <2>3, <2>4, <2>5, <2>6, GoroutineInv
<1>4. CASE tf' = [tf EXCEPT ![t] = "send"] /\ UNCHANGED uf
  <2>1. TypeOK'
    BY <1>1, <1>4 DEF TypeOK, procVars
  <2>2. \A x \in Tasks : tf'[x] = IF x = t THEN "send" ELSE tf[x]
    BY <1>4 DEF TypeOK
  <2>3. UnitShape'
    BY <1>1, <1>4, <2>2 DEF UnitShape, Current
  <2>4. QED BY <1>1, <1>4, <2>1, <2>2, <2>3, GoroutineInv
<1>5. QED BY <1>3, <1>4 DEF TWork

LEMMA UnitFuncInv ==
  ASSUME IInv, NEW t \in Tasks, NEW u \in UnitIDs, UStart(t, u) \/ UReturn(t, u)
  PROVE  IInv'
<1> USE DEF IInv
<1>1. UNCHANGED <<procVars, expired, unitExp, tf, outcomes>>
  BY DEF UStart, UReturn
<1>2. /\ uf' \in [Tasks \X UnitIDs -> {"none", "new", "run", "ended"} \cup Outcomes]
      /\ uf[<<t, u>>] \in {"new", "run"} /\ uf'[<<t, u>>] # "none"
      /\ \A x \in Tasks, v \in UnitIDs : <<x, v>> # <<t, u>> => uf'[<<x, v>>] = uf[<<x, v>>]
  BY DEF UStart, UReturn, TypeOK, Outcomes
<1>3. TypeOK'
  BY <1>1, <1>2 DEF TypeOK, procVars
<1>4. \A x \in Tasks : \A k \in 1 .. Len(outcomes[x]) : k \in UnitIDs
  BY ProcessorAssumption DEF UnitShape, UnitIDs, TypeOK
<1>5. \A x \in Tasks, v \in UnitIDs :
        uf[<<x, v>>] \in {"ended", "none"} => uf'[<<x, v>>] = uf[<<x, v>>]
  BY <1>2
<1>6. \A x \in Tasks, v \in UnitIDs : uf'[<<x, v>>] # "none" => uf[<<x, v>>] # "none"
  BY <1>2
<1>7. UnitShape'
  BY <1>1, <1>4, <1>5, <1>6 DEF UnitShape, Current
<1>8. QED BY <1>1, <1>3, <1>5, <1>7, GoroutineInv

\* RunUnit appends one outcome, "ok" only with the end of the unit's goroutine.
LEMMA RunUnitInv ==
  ASSUME IInv, NEW t \in Tasks, UReceive(t) \/ UTimeout(t)
  PROVE  IInv'
<1> USE DEF IInv
<1> DEFINE c == Current(t)
<1>1. /\ UNCHANGED <<procVars, expired, unitExp>> /\ tf[t] = "unit"
      /\ tf' = [tf EXCEPT ![t] = "work"]
  BY DEF UReceive, UTimeout
<1>2. outcomes[t] \in Seq(Outcomes) /\ Len(outcomes[t]) \in Nat /\ Units \in Nat
  BY ProcessorAssumption DEF TypeOK
<1>3. c \in UnitIDs /\ c = Len(outcomes[t]) + 1
  BY <1>1, <1>2 DEF UnitShape, UnitIDs, Current
<1>4. PICK o \in Outcomes : /\ outcomes' = [outcomes EXCEPT ![t] = Append(@, o)]
                            /\ \/ uf' = [uf EXCEPT ![<<t, c>>] = "ended"]
                               \/ uf' = uf /\ o # "ok"
  BY DEF UReceive, UTimeout, Outcomes
<1> HIDE DEF c
<1>5. /\ outcomes'[t] \in Seq(Outcomes) /\ Len(outcomes'[t]) = c
      /\ outcomes'[t][c] = o
      /\ \A k \in 1 .. Len(outcomes[t]) : outcomes'[t][k] = outcomes[t][k]
      /\ \A x \in Tasks \ {t} : outcomes'[x] = outcomes[x]
  <2>1. outcomes'[t] = Append(outcomes[t], o) /\ \A x \in Tasks \ {t} : outcomes'[x] = outcomes[x]
    BY <1>4 DEF TypeOK
  <2>2. QED BY <1>2, <1>3, <2>1, AppendProperties
<1>6. \A x \in Tasks : tf'[x] = IF x = t THEN "work" ELSE tf[x]
  BY <1>1 DEF TypeOK
<1>7. /\ uf' \in [Tasks \X UnitIDs -> {"none", "new", "run", "ended"} \cup Outcomes]
      /\ \A x \in Tasks, v \in UnitIDs : \/ uf'[<<x, v>>] = uf[<<x, v>>]
                                         \/ x = t /\ uf'[<<x, v>>] = "ended"
      /\ o = "ok" => uf'[<<t, c>>] = "ended"
  BY <1>3, <1>4 DEF TypeOK
<1>8. TypeOK'
  <2>1. outcomes' \in [Tasks -> Seq(Outcomes)]
    BY <1>4, <1>5 DEF TypeOK
  <2>2. tf' \in [Tasks -> {"none", "new", "work", "unit", "send", "sendErr", "ended"}]
    BY <1>1 DEF TypeOK
  <2>3. QED BY <1>1, <1>7, <2>1, <2>2 DEF TypeOK, procVars
<1>9. UnitShape'
  <2> SUFFICES ASSUME NEW x \in Tasks
               PROVE  /\ Len(outcomes'[x]) <= Units
                      /\ tf'[x] = "unit" => Len(outcomes'[x]) + 1 <= Units
                      /\ \A u \in UnitIDs : uf'[<<x, u>>] # "none" => tf'[x] # "none"
                      /\ \A k \in 1 .. Len(outcomes'[x]) :
                           outcomes'[x][k] = "ok" => uf'[<<x, k>>] = "ended"
                      /\ \A u \in UnitIDs : uf'[<<x, u>>] # "none" =>
                           \/ u <= Len(outcomes'[x])
                           \/ tf'[x] = "unit" /\ u = Len(outcomes'[x]) + 1
    BY DEF UnitShape, Current
  <2>1. CASE x # t
    <3>1. \A k \in 1 .. Len(outcomes[x]) : k \in UnitIDs
      BY <1>2 DEF UnitShape, UnitIDs, TypeOK
    <3>2. outcomes'[x] = outcomes[x] /\ tf'[x] = tf[x]
          /\ \A v \in UnitIDs : uf'[<<x, v>>] = uf[<<x, v>>]
      BY <1>5, <1>6, <1>7, <2>1
    <3>3. QED BY <3>1, <3>2 DEF UnitShape, Current
  <2>2. CASE x = t
    <3>1. Len(outcomes'[t]) <= Units /\ tf'[t] = "work"
      BY <1>2, <1>3, <1>5, <1>6 DEF UnitIDs
    <3>2. ASSUME NEW k \in 1 .. c, outcomes'[t][k] = "ok"
          PROVE  uf'[<<t, k>>] = "ended"
      <4>1. CASE k = c
        BY <1>5, <1>7, <3>2, <4>1
      <4>2. CASE k # c
        <5>1. k \in 1 .. Len(outcomes[t]) /\ k \in UnitIDs
          BY <1>2, <1>3, <4>2 DEF UnitIDs
        <5>2. uf[<<t, k>>] = "ended"
          BY <1>5, <3>2, <5>1 DEF UnitShape
        <5>3. QED BY <1>7, <5>1, <5>2
      <4>3. QED BY <4>1, <4>2
    <3>3. ASSUME NEW v \in UnitIDs, uf'[<<t, v>>] # "none"
          PROVE  v <= c
      <4>1. CASE uf[<<t, v>>] # "none"
        BY <1>2, <1>3, <4>1 DEF UnitShape, Current, UnitIDs
      <4>2. CASE uf[<<t, v>>] = "none"
        BY <1>2, <1>3, <1>4, <3>3, <4>2 DEF TypeOK, UnitIDs
      <4>3. QED BY <4>1, <4>2
    <3>4. QED BY <1>1, <1>5, <1>6, <2>2, <3>1, <3>2, <3>3
  <2>3. QED BY <2>1, <2>2
<1>10. QED BY <1>1, <1>6, <1>7, <1>8, <1>9, GoroutineInv

LEMMA StutterInv ==
  ASSUME IInv, UNCHANGED vars
  PROVE  IInv'
<1> USE DEF IInv, vars, procVars, unitVars
<1>1. TypeOK'
  BY DEF TypeOK
<1>2. UnitShape'
  BY DEF UnitShape, Current
<1>3. QED BY <1>1, <1>2, GoroutineInv

LEMMA Inductive == Spec => []IInv
<1>1. IInv /\ [Next]_vars => IInv'
  <2> SUFFICES ASSUME IInv, [Next]_vars PROVE IInv'
    OBVIOUS
  <2>1. CASE (\E t \in Tasks : Add(t)) \/ Run
    BY <2>1, AddInv, RunInv
  <2>2. CASE Processor
    BY <2>2, CollectInv, RunInv, TakeInv, TaskEndInv DEF Processor
  <2>3. CASE TaskFunc
    BY <2>3, TaskFuncInv, WorkInv, RunUnitInv DEF TaskFunc
  <2>4. CASE Timers \/ UnitFunc
    BY <2>4, TimerInv, UnitFuncInv DEF UnitFunc
  <2>5. CASE UNCHANGED vars
    BY <2>5, StutterInv
  <2>6. QED BY <2>1, <2>2, <2>3, <2>4, <2>5 DEF Next
<1>2. QED BY <1>1, InitInv, PTL DEF Spec

-----------------------------------------------------------------------------
(* The theorems                                                            *)

\* The channels stay within their capacity, every result names a task, and
\* every unit's outcome is one.
THEOREM TypeCorrect == Spec => []TypeOK
<1>1. IInv => TypeOK
  BY DEF IInv
<1>2. QED BY <1>1, Inductive, PTL

\* Run returns with one result for every task that was added, none of which is
\* left in the channel.
THEOREM OneResult == Spec => []OneResultPerTask
<1>1. IInv => OneResultPerTask
  <2> SUFFICES ASSUME IInv, main = "returned"
               PROVE  /\ tasks = <<>>
                      /\ \A t \in Tasks : tf[t] # "none" <=>
                           \E i \in DOMAIN allResults : allResults[i].task = t
                      /\ \A i, j \in DOMAIN allResults :
                           allResults[i].task = allResults[j].task => i = j
    BY DEF OneResultPerTask
  <2> USE DEF IInv
  <2>1. results = <<>> /\ \A w \in Workers : worker[w] = "exited"
    BY DEF MainShape
  <2>2. tasks = <<>>
    BY <2>1, ProcessorAssumption DEF MainShape
  <2>3. All = allResults
    BY <2>1, ConcatEmptySeq DEF All, TypeOK
  <2>4. /\ DOMAIN allResults = 1 .. Len(allResults)
        /\ \A i \in DOMAIN allResults : allResults[i].task \in Tasks
    <3>1. DOMAIN allResults = 1 .. Len(allResults)
      BY DEF TypeOK
    <3>2. \A i \in 1 .. Len(allResults) : allResults[i] \in Results
      BY <2>3, AllFacts
    <3>3. QED BY <3>1, <3>2 DEF Results
  <2>5. QED BY <2>1, <2>2, <2>3, <2>4, ProcessorAssumption DEF ResultShape
<1>2. QED BY <1>1, Inductive, PTL

\* A result without error whose units succeeded belongs to a task that has called
\* those units only and whose goroutines are over.
THEOREM CleanResult == Spec => []CleanResultMeansOver
<1>1. IInv => CleanResultMeansOver
  <2> SUFFICES ASSUME IInv PROVE CleanResultMeansOver
    OBVIOUS
  <2>1. /\ DOMAIN allResults = 1 .. Len(allResults)
        /\ \A i \in DOMAIN allResults : i \in 1 .. Len(All) /\ All[i] = allResults[i]
    BY AllFacts DEF IInv, TypeOK
  <2>2. QED BY <2>1 DEF IInv, CleanShape, CleanResultMeansOver
<1>2. QED BY <1>1, Inductive, PTL

\* When Run has returned, every task that was started has its context done, so
\* that no goroutine that is left starts the function of a unit.
THEOREM NothingStarts == Spec => NothingStartsAfterRun
<1> DEFINE A == main = "returned" => \A x \in Tasks \X UnitIDs : uf'[x] = "run" => uf[x] = "run"
<1>1. IInv /\ [Next]_vars => [A]_vars
  <2> SUFFICES ASSUME IInv, Next, main = "returned",
                      NEW t \in Tasks, NEW u \in UnitIDs, uf'[<<t, u>>] = "run"
               PROVE  uf[<<t, u>>] = "run"
    OBVIOUS
  <2>1. tf[t] # "none" => t \in expired
    BY ProcessorAssumption DEF IInv, MainShape, ResultShape
  <2>2. uf \in [Tasks \X UnitIDs -> {"none", "new", "run", "ended"} \cup Outcomes]
    BY DEF IInv, TypeOK
  <2>3. CASE UNCHANGED uf
    BY <2>3
  <2>4. CASE \E x \in Tasks : TWork(x)
    BY <2>2, <2>4 DEF TWork
  <2>5. CASE \E x \in Tasks : UReceive(x)
    BY <2>2, <2>5 DEF UReceive
  <2>6. CASE \E x \in Tasks, v \in UnitIDs : UReturn(x, v)
    BY <2>2, <2>6 DEF UReturn
  <2>7. CASE \E x \in Tasks, v \in UnitIDs : UStart(x, v)
    <3>1. PICK x \in Tasks, v \in UnitIDs : UStart(x, v)
      BY <2>7
    <3>2. CASE x = t
      <4>1. uf[<<t, v>>] = "new" /\ tf[t] # "none"
        BY <3>1, <3>2 DEF UStart, IInv, UnitShape
      <4>2. uf' = [uf EXCEPT ![<<t, v>>] = "expired"]
        BY <2>1, <3>1, <3>2, <4>1 DEF UStart, UnitDone
      <4>3. QED BY <2>2, <4>2
    <3>3. CASE x # t
      BY <2>2, <3>1, <3>3 DEF UStart
    <3>4. QED BY <3>2, <3>3
  <2>8. QED BY <2>3, <2>4, <2>5, <2>6, <2>7
            DEF Next, Add, Run, Processor, Collect, Return, Take, Exit, TaskDone, TaskTimeout,
                TaskFunc, TStart, TQuit, UTimeout, Timers, Expire, UExpire, UnitFunc, unitVars
<1>2. QED BY <1>1, Inductive, PTL DEF Spec, NothingStartsAfterRun
=============================================================================
