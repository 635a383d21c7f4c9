------------------------- MODULE ReconcileRunProofs -------------------------
(***************************************************************************)
(* Theorems about ReconcileRun, for any finite set of pods, any            *)
(* maxPodsPerRun and maxConcurrentPods and any budget.                     *)
(*                                                                         *)
(* All of them rest on Exclusive: a pod is owned by the queue, by one      *)
(* worker, or is done with.  SlotInv adds the books of the slots channel,  *)
(* BudgetInv those of the budget manager, Accounted what the queue and the *)
(* workers have yet to do.  The last section is about the variant of       *)
(* Termination (MovesForward).                                             *)
(***************************************************************************)
EXTENDS ReconcileRun, FiniteSetTheorems, TLAPS

\* The labels before the pod of the worker is counted, and those at which its
\* res.Delta is known.
Uncounted == {"check", "slot", "metrics", "compute", "stabilize", "reserve",
              "apply", "sent", "conflict", "resent", "commit"}

Computed == {"stabilize", "reserve", "apply", "sent", "conflict", "resent",
             "commit"}

Idle == \A w \in Workers : pc[w] = "recv"

\* A worker inside processOne owns its pod: it is off the queue, no other
\* worker has it, and until its outcome is known it is not counted.
Exclusive ==
  /\ \A w \in Workers : pc[w] # "recv" => cur[w] \in candidates \ todo
  /\ \A v, w \in Workers :
       v # w /\ pc[v] # "recv" /\ pc[w] # "recv" => cur[v] # cur[w]
  /\ \A w \in Workers : pc[w] \in Uncounted => outcome[cur[w]] = "none"
  /\ \A w \in Workers : pc[w] \in Computed => delta[cur[w]] \in Deltas
  /\ \A p \in todo : outcome[p] = "none"
  /\ main = "list" => \A p \in Pods : outcome[p] = "none"
  /\ main \in {"list", "metrics", "summary", "done"} => Idle

\* The clamped number of goroutines is positive and no larger than maxPods and
\* maxConcurrentPods.
LEMMA WorkersFinite ==
  /\ WorkerCount \in Nat \ {0} /\ WorkerCount <= MaxPods
  /\ WorkerCount <= MaxConcurrentPods
  /\ IsFiniteSet(Workers) /\ Cardinality(Workers) = WorkerCount
<1>1. /\ WorkerCount \in Nat \ {0} /\ WorkerCount <= MaxPods
      /\ WorkerCount <= MaxConcurrentPods
  BY RunAssumption DEF WorkerCount
<1>2. IsFiniteSet(Workers) /\ Cardinality(Workers) = WorkerCount
  BY <1>1, FS_Interval DEF Workers
<1> QED BY <1>1, <1>2

\* Before the pod list is read every worker waits and no pod is counted.
LEMMA InitInv == Init => TypeOK /\ Exclusive
<1> SUFFICES ASSUME Init PROVE TypeOK /\ Exclusive
  OBVIOUS
<1>1. Zero \in [Resources -> Int]
  BY DEF Zero
<1>2. TypeOK
  BY <1>1, RunAssumption DEF Init, TypeOK, Labels, Outcomes
<1>3. Exclusive
  BY DEF Init, Exclusive, Idle, Uncounted, Computed
<1> QED BY <1>2, <1>3

\* The steps of the goroutine of Reconcile keep ownership of pods exclusive:
\* handing a pod over workCh takes it off the queue.
LEMMA MainPreserves ==
  TypeOK /\ Exclusive /\ MainStep => TypeOK' /\ Exclusive'
<1> SUFFICES ASSUME TypeOK, Exclusive, MainStep PROVE TypeOK' /\ Exclusive'
  OBVIOUS
<1> USE DEF TypeOK, Exclusive, Idle, mainVars, poolVars, budgetVars, ctxVars,
    apiVars, Labels, Outcomes, Uncounted, Computed
<1>1. CASE ListPodsFailed BY <1>1 DEF ListPodsFailed
<1>2. ASSUME NEW C \in SUBSET Pods, ListPods(C) PROVE TypeOK' /\ Exclusive'
  BY <1>2 DEF ListPods
<1>3. ASSUME NEW a \in {"error", "listed"}, ListPodMetrics(a)
      PROVE TypeOK' /\ Exclusive'
  BY <1>3 DEF ListPodMetrics
<1>4. ASSUME NEW w \in Workers, NEW p \in Pods, Enqueue(w, p)
      PROVE TypeOK' /\ Exclusive'
  <2>1. TypeOK' BY <1>4 DEF Enqueue
  <2>2. Exclusive' BY <1>4 DEF Enqueue
  <2> QED BY <2>1, <2>2
<1>5. CASE CloseQueue BY <1>5 DEF CloseQueue
<1>6. CASE WaitWorkers BY <1>6 DEF WaitWorkers
<1>7. CASE Summary BY <1>7 DEF Summary, MetricsCondition
<1> HIDE DEF TypeOK, Exclusive, Idle, mainVars, poolVars, budgetVars, ctxVars,
    apiVars, Labels, Outcomes, Uncounted, Computed
<1> QED BY <1>1, <1>2, <1>3, <1>4, <1>5, <1>6, <1>7 DEF MainStep

\* A worker inside processOne has a pod, and its res.Delta is well typed.
LEMMA DeltaType ==
  ASSUME TypeOK, Exclusive, NEW w \in Workers, pc[w] # "recv"
  PROVE  cur[w] \in Pods /\ delta[cur[w]] \in [Resources -> Int]
BY RunAssumption DEF TypeOK, Exclusive, Zero

\* So do the steps of processOne, which only count the pod they own.
LEMMA WorkerPreserves ==
  ASSUME TypeOK, Exclusive, NEW w \in Workers, WorkerStep(w)
  PROVE  TypeOK' /\ Exclusive'
<1> USE DEF TypeOK, Exclusive, Idle, mainVars, poolVars, budgetVars, ctxVars,
    apiVars, Labels, Outcomes, Uncounted, Computed, Goto, Count
<1>1. CASE CheckContext(w) BY <1>1 DEF CheckContext
<1>2. CASE TakeSlot(w) BY <1>2 DEF TakeSlot
<1>3. CASE NoSlot(w) BY <1>3 DEF NoSlot
<1>4. CASE MetricsError(w) BY <1>4 DEF MetricsError
<1>5. CASE MetricsNotFound(w) BY <1>5 DEF MetricsNotFound
<1>6. CASE MetricsFound(w) BY <1>6 DEF MetricsFound
<1>7. ASSUME NEW c \in {"qos", "computeError", "noChange"},
             ComputeSkips(w, c)
      PROVE  TypeOK' /\ Exclusive'
  BY <1>7 DEF ComputeSkips
<1>8. ASSUME NEW d \in Deltas, ComputeChanges(w, d) PROVE TypeOK' /\ Exclusive'
  BY <1>8 DEF ComputeChanges
<1>9. CASE Pending(w) BY <1>9 DEF Pending
<1>10. CASE Stable(w) BY <1>10 DEF Stable
<1>11. CASE Reserve(w) BY <1>11, DeltaType DEF Reserve, Plus, Minus
<1>12. CASE BudgetSkip(w) BY <1>12 DEF BudgetSkip
<1>13. CASE ApplyNotSent(w) BY <1>13 DEF ApplyNotSent
<1>14. CASE ApplySend(w) BY <1>14 DEF ApplySend
<1>15. CASE ApplyOK(w) BY <1>15 DEF ApplyOK
<1>16. CASE ApplyConflict(w) BY <1>16 DEF ApplyConflict
<1>17. ASSUME NEW effect \in BOOLEAN, ApplyError(w, effect)
       PROVE  TypeOK' /\ Exclusive'
  BY <1>17 DEF ApplyError
<1>18. CASE ApplyFatal(w) BY <1>18 DEF ApplyFatal
<1>19. CASE Refetch(w) BY <1>19 DEF Refetch
<1>20. ASSUME NEW effect \in BOOLEAN, ConflictSkip(w, effect)
       PROVE  TypeOK' /\ Exclusive'
  BY <1>20 DEF ConflictSkip
<1>21. CASE Commit(w) BY <1>21, DeltaType DEF Commit, Plus, Minus
<1>22. ASSUME NEW ok \in BOOLEAN, Annotate(w, ok) PROVE TypeOK' /\ Exclusive'
  BY <1>22 DEF Annotate
<1>23. CASE ReleaseBudget(w) BY <1>23, DeltaType DEF ReleaseBudget, Plus, Minus
<1>24. CASE FreeSlot(w) BY <1>24 DEF FreeSlot
<1> HIDE DEF TypeOK, Exclusive, Idle, mainVars, poolVars, budgetVars, ctxVars,
    apiVars, Labels, Outcomes, Uncounted, Computed, Goto, Count
<1> QED BY <1>1, <1>2, <1>3, <1>4, <1>5, <1>6, <1>7, <1>8, <1>9, <1>10,
    <1>11, <1>12, <1>13, <1>14, <1>15, <1>16, <1>17, <1>18, <1>19, <1>20,
    <1>21, <1>22, <1>23, <1>24 DEF WorkerStep

\* Shutdown and stuttering change neither.
LEMMA OtherPreserves ==
  TypeOK /\ Exclusive /\ (Shutdown \/ UNCHANGED vars)
    => TypeOK' /\ Exclusive'
<1> USE DEF TypeOK, Exclusive, Idle, mainVars, poolVars, budgetVars, ctxVars,
           apiVars
<1>1. TypeOK /\ Exclusive /\ Shutdown => TypeOK' /\ Exclusive'
  BY DEF Shutdown
<1>2. TypeOK /\ Exclusive /\ UNCHANGED vars => TypeOK' /\ Exclusive'
  BY DEF vars
<1> QED BY <1>1, <1>2

\* Together: the type invariant and exclusive ownership are inductive.
LEMMA StepPreserves ==
  TypeOK /\ Exclusive /\ [Next]_vars => TypeOK' /\ Exclusive'
BY MainPreserves, WorkerPreserves, OtherPreserves DEF Next, Terminated

\* Every variable of a run keeps its type: in particular slots never becomes
\* negative, and no worker is counted for a pod it does not have.
THEOREM TypeCorrect == Spec => []TypeOK
<1>1. Init => TypeOK /\ Exclusive
  BY InitInv
<1>2. TypeOK /\ Exclusive /\ [Next]_vars => TypeOK' /\ Exclusive'
  BY StepPreserves
<1> QED BY <1>1, <1>2, PTL DEF Spec

-----------------------------------------------------------------------------
(* The slots channel.                                                      *)

SlotInv == SlotsConserved /\ SkipImpliesProgress

\* The sets that SlotsConserved counts are finite.
LEMMA Finite ==
  /\ IsFiniteSet(SlotHolders) /\ Cardinality(SlotHolders) \in Nat
  /\ IsFiniteSet(Resized) /\ Cardinality(Resized) \in Nat
<1>1. IsFiniteSet(SlotHolders)
  BY WorkersFinite, FS_Subset DEF SlotHolders
<1>2. IsFiniteSet(Resized)
  BY RunAssumption, FS_Subset DEF Resized, Counted
<1> QED BY <1>1, <1>2, FS_CardinalityType

\* No change of SlotHolders, Resized or slots.
\* A step that moves no token, resizes no pod and turns none away.
LEMMA KeepsSlots ==
  ASSUME SlotInv, slots' = slots, SlotHolders' = SlotHolders,
         Resized' = Resized,
             \A p \in Pods : outcome'[p] = "maxPods" => outcome[p] = "maxPods"
  PROVE  SlotInv'
BY DEF SlotInv, SlotsConserved, SkipImpliesProgress

\* The four steps of processOne that matter for slots: taking a token, finding
\* none, spending it on a resized pod, and the deferred function.
LEMMA SlotStep ==
  ASSUME TypeOK, Exclusive, SlotInv, NEW w \in Workers, WorkerStep(w)
  PROVE  SlotInv'
<1> USE DEF TypeOK, Exclusive
<1>1. CASE CheckContext(w)
  BY <1>1, KeepsSlots DEF CheckContext, SlotHolders, SlotLabels, Resized,
      Counted, Goto, Count, poolVars, Uncounted
<1>2. CASE TakeSlot(w)
  <2>1. w \notin SlotHolders /\ SlotHolders' = SlotHolders \cup {w}
    BY <1>2 DEF TakeSlot, SlotHolders, SlotLabels, Goto
  <2>2. Cardinality(SlotHolders') = Cardinality(SlotHolders) + 1
    BY <2>1, Finite, FS_AddElement
  <2>3. Resized' = Resized /\ UNCHANGED outcome /\ slots' = slots - 1
    BY <1>2 DEF TakeSlot, Resized, Counted
  <2> QED BY <2>2, <2>3, Finite DEF SlotInv, SlotsConserved,
      SkipImpliesProgress
<1>3. CASE NoSlot(w)
  <2>1. w \notin SlotHolders /\ UNCHANGED <<SlotHolders, Resized, slots>>
    BY <1>3 DEF NoSlot, SlotHolders, SlotLabels, Resized, Counted, Goto, Count,
             Uncounted
  <2>2. Cardinality(SlotHolders) <= WorkerCount - 1
    <3>1. SlotHolders \subseteq Workers \ {w}
      BY <2>1 DEF SlotHolders
    <3>2. IsFiniteSet(Workers \ {w})
            /\ Cardinality(Workers \ {w}) = WorkerCount - 1
      BY WorkersFinite, FS_RemoveElement
    <3> QED BY <3>1, <3>2, FS_Subset
  <2>3. slots = 0
    BY <1>3 DEF NoSlot
  <2> QED BY <2>1, <2>2, <2>3, Finite, WorkersFinite, RunAssumption
          DEF SlotInv, SlotsConserved, SkipImpliesProgress
<1>4. CASE MetricsError(w)
  BY <1>4, KeepsSlots DEF MetricsError, SlotHolders, SlotLabels, Resized,
      Counted, Goto, Count, poolVars, Uncounted
<1>5. CASE MetricsNotFound(w)
  BY <1>5, KeepsSlots DEF MetricsNotFound, SlotHolders, SlotLabels, Resized,
      Counted, Goto, Count, poolVars, Uncounted
<1>6. CASE MetricsFound(w)
  BY <1>6, KeepsSlots DEF MetricsFound, SlotHolders, SlotLabels, Resized,
      Counted, Goto, Count, poolVars, Uncounted
<1>7. ASSUME NEW c \in {"qos", "computeError", "noChange"},
             ComputeSkips(w, c)
      PROVE  SlotInv'
  BY <1>7, KeepsSlots DEF ComputeSkips, SlotHolders, SlotLabels, Resized,
      Counted, Goto, Count, poolVars, Uncounted
<1>8. ASSUME NEW d \in Deltas, ComputeChanges(w, d) PROVE SlotInv'
  BY <1>8, KeepsSlots DEF ComputeChanges, SlotHolders, SlotLabels, Resized,
      Counted, Goto, Count, poolVars, Uncounted
<1>9. CASE Pending(w)
  BY <1>9, KeepsSlots DEF Pending, SlotHolders, SlotLabels, Resized, Counted,
      Goto, Count, poolVars, Uncounted
<1>10. CASE Stable(w)
  BY <1>10, KeepsSlots DEF Stable, SlotHolders, SlotLabels, Resized, Counted,
      Goto, Count, poolVars, Uncounted
<1>11. CASE Reserve(w)
  BY <1>11, KeepsSlots DEF Reserve, SlotHolders, SlotLabels, Resized,
      Counted, Goto, Count, poolVars, Uncounted
<1>12. CASE BudgetSkip(w)
  BY <1>12, KeepsSlots DEF BudgetSkip, SlotHolders, SlotLabels, Resized,
      Counted, Goto, Count, poolVars, Uncounted
<1>13. CASE ApplyNotSent(w)
  BY <1>13, KeepsSlots DEF ApplyNotSent, SlotHolders, SlotLabels, Resized,
      Counted, Goto, Count, poolVars, Uncounted
<1>14. CASE ApplySend(w)
  BY <1>14, KeepsSlots DEF ApplySend, SlotHolders, SlotLabels, Resized,
      Counted, Goto, Count, poolVars, Uncounted
<1>15. CASE ApplyOK(w)
  BY <1>15, KeepsSlots DEF ApplyOK, SlotHolders, SlotLabels, Resized,
      Counted, Goto, Count, poolVars, Uncounted
<1>16. CASE ApplyConflict(w)
  BY <1>16, KeepsSlots DEF ApplyConflict, SlotHolders, SlotLabels, Resized,
      Counted, Goto, Count, poolVars, Uncounted
<1>17. ASSUME NEW effect \in BOOLEAN, ApplyError(w, effect) PROVE SlotInv'
  BY <1>17, KeepsSlots DEF ApplyError, SlotHolders, SlotLabels, Resized,
      Counted, Goto, Count, poolVars, Uncounted
<1>18. CASE ApplyFatal(w)
  BY <1>18, KeepsSlots DEF ApplyFatal, SlotHolders, SlotLabels, Resized,
      Counted, Goto, Count, poolVars, Uncounted
<1>19. CASE Refetch(w)
  BY <1>19, KeepsSlots DEF Refetch, SlotHolders, SlotLabels, Resized,
      Counted, Goto, Count, poolVars, Uncounted
<1>20. ASSUME NEW effect \in BOOLEAN, ConflictSkip(w, effect) PROVE SlotInv'
  BY <1>20, KeepsSlots DEF ConflictSkip, SlotHolders, SlotLabels, Resized,
      Counted, Goto, Count, poolVars, Uncounted
<1>21. CASE Commit(w)
  <2>1. w \in SlotHolders /\ SlotHolders' = SlotHolders \ {w}
    BY <1>21 DEF Commit, SlotHolders, SlotLabels, Goto
  <2>2. Cardinality(SlotHolders') = Cardinality(SlotHolders) - 1
    BY <2>1, Finite, FS_RemoveElement
  <2>3. cur[w] \notin Resized /\ Resized' = Resized \cup {cur[w]}
    BY <1>21, DeltaType DEF Commit, Resized, Counted, Count, Uncounted
  <2>4. Cardinality(Resized') = Cardinality(Resized) + 1
    BY <2>3, Finite, FS_AddElement
  <2>5. /\ slots' = slots
        /\ \A p \in Pods : outcome'[p] = "maxPods" => outcome[p] = "maxPods"
    BY <1>21 DEF Commit, Count
  <2> QED BY <2>2, <2>4, <2>5, Finite, RunAssumption
          DEF SlotInv, SlotsConserved, SkipImpliesProgress
<1>22. ASSUME NEW ok \in BOOLEAN, Annotate(w, ok) PROVE SlotInv'
  BY <1>22, KeepsSlots DEF Annotate, SlotHolders, SlotLabels, Resized,
      Counted, Goto, Count, poolVars, Uncounted
<1>23. CASE ReleaseBudget(w)
  BY <1>23, KeepsSlots DEF ReleaseBudget, SlotHolders, SlotLabels, Resized,
      Counted, Goto, Count, poolVars, Uncounted
<1>24. CASE FreeSlot(w)
  <2>1. w \in SlotHolders /\ SlotHolders' = SlotHolders \ {w}
    BY <1>24 DEF FreeSlot, SlotHolders, SlotLabels, Goto
  <2>2. Cardinality(SlotHolders') = Cardinality(SlotHolders) - 1
    BY <2>1, Finite, FS_RemoveElement
  <2>3. Resized' = Resized /\ UNCHANGED outcome /\ slots' = slots + 1
    BY <1>24 DEF FreeSlot, Resized, Counted
  <2> QED BY <2>2, <2>3, Finite DEF SlotInv, SlotsConserved,
      SkipImpliesProgress
<1> HIDE DEF TypeOK, Exclusive
<1> QED BY <1>1, <1>2, <1>3, <1>4, <1>5, <1>6, <1>7, <1>8, <1>9, <1>10,
    <1>11, <1>12, <1>13, <1>14, <1>15, <1>16, <1>17, <1>18, <1>19, <1>20,
    <1>21, <1>22, <1>23, <1>24 DEF WorkerStep

\* The slots channel is filled with maxPods tokens.
LEMMA SlotInit == Init => SlotInv
<1> SUFFICES ASSUME Init PROVE SlotInv
  OBVIOUS
<1>1. SlotHolders = {} /\ Resized = {}
  BY DEF Init, SlotHolders, SlotLabels, Resized, Counted
<1>2. slots = MaxPods /\ ~ \E p \in Pods : outcome[p] = "maxPods"
  BY DEF Init
<1> QED BY <1>1, <1>2, FS_EmptySet, RunAssumption
        DEF SlotInv, SlotsConserved, SkipImpliesProgress

\* No step of a run loses or duplicates a token.
LEMMA SlotNext ==
  TypeOK /\ Exclusive /\ SlotInv /\ [Next]_vars => SlotInv'
<1> SUFFICES ASSUME TypeOK, Exclusive, SlotInv, [Next]_vars PROVE SlotInv'
  OBVIOUS
<1>1. CASE MainStep
  <2>1. UNCHANGED <<slots, outcome>> /\ SlotHolders' = SlotHolders
    <3> USE DEF TypeOK, SlotHolders, SlotLabels, poolVars
    <3>1. CASE ListPodsFailed BY <3>1 DEF ListPodsFailed
    <3>2. ASSUME NEW C \in SUBSET Pods, ListPods(C)
          PROVE  UNCHANGED <<slots, outcome>> /\ SlotHolders' = SlotHolders
      BY <3>2 DEF ListPods
    <3>3. ASSUME NEW a \in {"error", "listed"}, ListPodMetrics(a)
          PROVE  UNCHANGED <<slots, outcome>> /\ SlotHolders' = SlotHolders
      BY <3>3 DEF ListPodMetrics
    <3>4. ASSUME NEW w \in Workers, NEW p \in Pods, Enqueue(w, p)
          PROVE  UNCHANGED <<slots, outcome>> /\ SlotHolders' = SlotHolders
      BY <3>4 DEF Enqueue
    <3>5. CASE CloseQueue BY <3>5 DEF CloseQueue
    <3>6. CASE WaitWorkers BY <3>6 DEF WaitWorkers
    <3>7. CASE Summary BY <3>7 DEF Summary
    <3> QED BY <1>1, <3>1, <3>2, <3>3, <3>4, <3>5, <3>6, <3>7 DEF MainStep
  <2> QED BY <2>1, KeepsSlots DEF Resized, Counted
<1>2. ASSUME NEW w \in Workers, WorkerStep(w) PROVE SlotInv'
  BY <1>2, SlotStep
<1>3. CASE Shutdown \/ UNCHANGED vars
  BY <1>3, KeepsSlots
     DEF Shutdown, vars, poolVars, SlotHolders, Resized, Counted
<1> QED BY <1>1, <1>2, <1>3 DEF Next, Terminated

\* maxPodsPerRun holds for every number of pods, workers and slots: tokens are
\* conserved on every return path of processOne, and a pod is turned away only
\* after real progress.
THEOREM SlotsCorrect == Spec => [](SlotsConserved /\ SkipImpliesProgress)
<1>1. Init => TypeOK /\ Exclusive /\ SlotInv
  BY InitInv, SlotInit
<1>2. TypeOK /\ Exclusive /\ SlotInv /\ [Next]_vars
        => TypeOK' /\ Exclusive' /\ SlotInv'
  BY StepPreserves, SlotNext
<1>3. SlotInv => SlotsConserved /\ SkipImpliesProgress
  BY DEF SlotInv
<1> QED BY <1>1, <1>2, <1>3, PTL DEF Spec

-----------------------------------------------------------------------------
(* The budget manager.  The reservations of the workers are added up by a  *)
(* function of prefix sums, which needs no induction to be maintained.     *)

\* f[i] is the sum of h[1], ..., h[i].
IsPrefixSum(f, h, n) ==
  /\ f \in [0..n -> Nat]
  /\ f[0] = 0
  /\ \A i \in 1..n : f[i] = f[i-1] + h[i]
  /\ \A i, j \in 0..n : i <= j => f[i] <= f[j]

\* total is the sum of h[1], ..., h[n].
IsSum(total, h, n) == \E f : IsPrefixSum(f, h, n) /\ f[n] = total

\* Nothing held sums to 0.
LEMMA SumOfZeros ==
  ASSUME NEW n \in Nat, NEW h \in [1..n -> Nat], \A i \in 1..n : h[i] = 0
  PROVE  IsSum(0, h, n)
<1>1. IsPrefixSum([i \in 0..n |-> 0], h, n)
  BY DEF IsPrefixSum
<1>2. [i \in 0..n |-> 0][n] = 0
  OBVIOUS
<1> QED BY <1>1, <1>2 DEF IsSum

\* A sum of naturals is a natural.
LEMMA SumType ==
  ASSUME NEW n \in Nat, NEW h \in [1..n -> Nat], NEW total, IsSum(total, h, n)
  PROVE  total \in Nat
BY DEF IsSum, IsPrefixSum

\* The one step of arithmetic in which the summand that changes lies between.
LEMMA Shifted ==
  \A a, b, c, d \in Int : \A e \in Nat :
    a <= b /\ b + c <= d => a <= d - c + e
OBVIOUS

\* Changing one summand changes the sum by as much: the prefix sums from w on
\* are shifted.
LEMMA SumChanged ==
  ASSUME NEW n \in Nat, NEW h \in [1..n -> Nat], NEW k \in [1..n -> Nat],
         NEW w \in 1..n, \A i \in 1..n : i # w => k[i] = h[i],
         NEW total, IsSum(total, h, n)
  PROVE  IsSum(total - h[w] + k[w], k, n)
<1>1. PICK f : IsPrefixSum(f, h, n) /\ f[n] = total
  BY DEF IsSum
<1>2. /\ f \in [0..n -> Nat] /\ f[0] = 0
      /\ \A i \in 1..n : f[i] = f[i-1] + h[i]
      /\ \A i, j \in 0..n : i <= j => f[i] <= f[j]
  BY <1>1 DEF IsPrefixSum
<1>3. /\ w - 1 \in 0..n /\ w \in 0..n /\ h[w] \in Nat /\ k[w] \in Nat
      /\ f[w] \in Nat /\ f[w-1] \in Nat /\ f[w] = f[w-1] + h[w]
  BY <1>2
<1> DEFINE g == [i \in 0..n |-> IF i < w THEN f[i] ELSE f[i] - h[w] + k[w]]
<1>4. /\ g = [i \in 0..n |-> g[i]]
      /\ \A i \in 0..n : i < w => g[i] = f[i]
      /\ \A i \in 0..n : i >= w => g[i] = f[i] - h[w] + k[w]
  OBVIOUS
<1> HIDE DEF g
<1>5. ASSUME NEW i \in 0..n PROVE g[i] \in Nat
  <2>1. f[i] \in Nat
    BY <1>2
  <2>2. CASE i < w BY <1>4, <2>1, <2>2
  <2>3. CASE i >= w
    <3>1. f[w] <= f[i]
      BY <1>2, <1>3, <2>3
    <3>2. h[w] <= f[i]
      BY <1>3, <2>1, <3>1
    <3>3. g[i] = f[i] - h[w] + k[w]
      BY <1>4, <2>3
    <3> QED BY <1>3, <2>1, <3>2, <3>3
  <2> QED BY <2>2, <2>3
<1>6. ASSUME NEW i \in 1..n PROVE g[i] = g[i-1] + k[i]
  <2>1. i - 1 \in 0..n /\ i \in 0..n /\ f[i] \in Nat /\ f[i-1] \in Nat
    BY <1>2
  <2>2. f[i] = f[i-1] + h[i] /\ h[i] \in Nat
    BY <1>2
  <2>3. CASE i < w
    <3>1. g[i] = f[i] /\ g[i-1] = f[i-1] /\ k[i] = h[i]
      BY <1>4, <2>1, <2>3
    <3> QED BY <2>1, <2>2, <3>1
  <2>4. CASE i = w
    <3>1. g[i] = f[i] - h[w] + k[w] /\ g[i-1] = f[i-1]
      BY <1>4, <2>1, <2>4
    <3> QED BY <1>3, <2>1, <2>2, <2>4, <3>1
  <2>5. CASE i > w
    <3>1. /\ g[i] = f[i] - h[w] + k[w] /\ g[i-1] = f[i-1] - h[w] + k[w]
          /\ k[i] = h[i]
      BY <1>4, <2>1, <2>5
    <3> QED BY <1>3, <2>1, <2>2, <3>1
  <2> QED BY <2>3, <2>4, <2>5
<1>7. ASSUME NEW i \in 0..n, NEW j \in 0..n, i <= j PROVE g[i] <= g[j]
  <2>1. f[i] \in Nat /\ f[j] \in Nat /\ f[i] <= f[j]
    BY <1>2, <1>7
  <2>2. CASE j < w
    BY <1>4, <1>7, <2>1, <2>2
  <2>3. CASE i >= w
    <3>1. g[i] = f[i] - h[w] + k[w] /\ g[j] = f[j] - h[w] + k[w]
      BY <1>4, <1>7, <2>3
    <3> QED BY <1>3, <2>1, <3>1
  <2>4. CASE i < w /\ j >= w
    <3>1. i <= w - 1
      BY <2>4
    <3>2. f[i] <= f[w-1]
      BY <1>2, <1>3, <3>1
    <3>3. f[w] <= f[j]
      BY <1>2, <1>3, <2>4
    <3>4. g[i] = f[i] /\ g[j] = f[j] - h[w] + k[w]
      BY <1>4, <2>4
    <3>5. f[w-1] + h[w] <= f[j]
      BY <1>3, <3>3
    <3>6. /\ f[i] \in Int /\ f[w-1] \in Int /\ f[j] \in Int
          /\ h[w] \in Int /\ k[w] \in Nat
      BY <1>3, <2>1
    <3>7. f[i] <= f[j] - h[w] + k[w]
      BY <3>2, <3>5, <3>6, Shifted, Zenon
    <3> QED BY <3>4, <3>7, Zenon
  <2> QED BY <2>2, <2>3, <2>4
<1>8. IsPrefixSum(g, k, n)
  <2>1. g \in [0..n -> Nat]
    BY <1>4, <1>5
  <2>2. g[0] = 0
    BY <1>2, <1>4
  <2> QED BY <1>6, <1>7, <2>1, <2>2 DEF IsPrefixSum
<1>9. g[n] = total - h[w] + k[w]
  BY <1>1, <1>4
<1> QED BY <1>8, <1>9 DEF IsSum

\* Every delta is an increase: allowDownscale is off, no request is above its
\* maximum and none is lowered to keep the QoS class.
NonNegative == \A d \in Deltas : \A r \in Resources : d[r] >= 0

\* What each worker holds of resource r.
HeldBy(r) == [w \in Workers |-> Held(w, r)]

\* budgetManager.reserved is the sum of what the workers hold.
ReservedIsHeld(r) == IsSum(reserved[r], HeldBy(r), WorkerCount)

\* What is applied and what is in flight is within the budget together.
BudgetInv ==
  \A r \in Resources :
    /\ ReservedIsHeld(r) /\ reserved[r] \in Nat
    /\ MaxIncrease[r] > 0 => committed[r] + reserved[r] <= MaxIncrease[r]

\* What a worker holds is a natural number when no delta is negative.
LEMMA HeldType ==
  ASSUME NonNegative, TypeOK, Exclusive, NEW r \in Resources
  PROVE  /\ HeldBy(r) \in [1..WorkerCount -> Nat]
         /\ \A w \in Workers : pc[w] # "recv" => delta[cur[w]][r] \in Nat
<1>1. ASSUME NEW w \in Workers, pc[w] # "recv"
      PROVE  delta[cur[w]][r] \in Nat
  <2>1. cur[w] \in Pods /\ delta[cur[w]] \in Deltas \cup {Zero}
    BY <1>1 DEF TypeOK, Exclusive
  <2>2. delta[cur[w]][r] \in Int
    BY <1>1, DeltaType
  <2>3. delta[cur[w]][r] >= 0
    BY <2>1 DEF NonNegative, Zero
  <2> QED BY <2>2, <2>3
<1>2. \A w \in Workers : Held(w, r) \in Nat
  BY <1>1 DEF Held, BudgetLabels
<1> QED BY <1>1, <1>2 DEF HeldBy, Workers

\* A worker's reservation changes from what it holds to d and reserved with it:
\* tryReserveBudget, commitBudget and releaseBudget.
LEMMA HeldChanged ==
  ASSUME NonNegative, TypeOK, Exclusive, NEW r \in Resources,
         NEW w \in Workers, NEW d \in Nat, ReservedIsHeld(r),
         HeldBy(r)' = [HeldBy(r) EXCEPT ![w] = d],
         reserved'[r] = reserved[r] - HeldBy(r)[w] + d
  PROVE  ReservedIsHeld(r)' /\ reserved'[r] \in Nat
<1> DEFINE h == HeldBy(r)
           k == [HeldBy(r) EXCEPT ![w] = d]
<1>1. WorkerCount \in Nat /\ w \in 1..WorkerCount
  BY WorkersFinite DEF Workers
<1>2. h \in [1..WorkerCount -> Nat]
  BY HeldType
<1>3. k \in [1..WorkerCount -> Nat] /\ k[w] = d
        /\ \A i \in 1..WorkerCount : i # w => k[i] = h[i]
  BY <1>1, <1>2
<1>4. IsSum(reserved[r], h, WorkerCount)
  BY DEF ReservedIsHeld
<1> HIDE DEF h, k
<1>5. IsSum(reserved[r] - h[w] + k[w], k, WorkerCount)
  BY <1>1, <1>2, <1>3, <1>4, SumChanged
<1>6. IsSum(reserved'[r], k, WorkerCount)
  BY <1>3, <1>5 DEF h
<1>7. reserved'[r] \in Nat
  BY <1>1, <1>3, <1>6, SumType
<1> QED BY <1>6, <1>7 DEF k, ReservedIsHeld

\* A step outside the budget manager's critical sections.
LEMMA KeepsBudget ==
  ASSUME BudgetInv, UNCHANGED <<reserved, committed>>,
         \A r \in Resources : HeldBy(r)' = HeldBy(r)
  PROVE  BudgetInv'
BY DEF BudgetInv, ReservedIsHeld

\* The budget manager starts with nothing reserved and nothing committed.
LEMMA BudgetInit == Init /\ NonNegative => BudgetInv
<1> SUFFICES ASSUME Init, NonNegative, NEW r \in Resources
             PROVE  /\ ReservedIsHeld(r) /\ reserved[r] \in Nat
                    /\ MaxIncrease[r] > 0
                         => committed[r] + reserved[r] <= MaxIncrease[r]
  BY DEF BudgetInv
<1>1. reserved[r] = 0 /\ committed[r] = 0
  BY DEF Init, Zero
<1>2. HeldBy(r) \in [1..WorkerCount -> Nat]
        /\ \A w \in 1..WorkerCount : HeldBy(r)[w] = 0
  BY DEF Init, HeldBy, Held, BudgetLabels, Workers
<1>3. ReservedIsHeld(r)
  BY <1>1, <1>2, SumOfZeros, WorkersFinite DEF ReservedIsHeld
<1>4. MaxIncrease[r] \in Nat
  BY RunAssumption
<1> QED BY <1>1, <1>3, <1>4

\* tryReserveBudget admits only what fits next to all that is in flight.
LEMMA BudgetReserved ==
  ASSUME NonNegative, TypeOK, Exclusive, BudgetInv, NEW w \in Workers,
      Reserve(w)
  PROVE  BudgetInv'
<1> SUFFICES ASSUME NEW r \in Resources
             PROVE  /\ ReservedIsHeld(r)' /\ reserved'[r] \in Nat
                    /\ MaxIncrease[r] > 0
                         => committed'[r] + reserved'[r] <= MaxIncrease[r]
  BY DEF BudgetInv
<1> DEFINE d == delta[cur[w]][r]
<1>1. pc[w] = "reserve" /\ d \in Nat
  BY HeldType DEF Reserve
<1>2. /\ committed[r] \in Int /\ reserved[r] \in Int
      /\ committed'[r] = committed[r] /\ reserved'[r] = reserved[r] + d
  BY DEF Reserve, Plus, TypeOK
<1>3. MaxIncrease[r] > 0 => committed[r] + reserved[r] + d <= MaxIncrease[r]
  BY DEF Reserve, FitsBudget
<1>4. HeldBy(r)[w] = 0 /\ HeldBy(r)' = [HeldBy(r) EXCEPT ![w] = d]
  BY DEF Reserve, HeldBy, Held, BudgetLabels, Goto, TypeOK
<1>5. ReservedIsHeld(r)
  BY DEF BudgetInv
<1>6. reserved'[r] = reserved[r] - HeldBy(r)[w] + d
  BY <1>1, <1>2, <1>4
<1>7. ReservedIsHeld(r)' /\ reserved'[r] \in Nat
  BY <1>1, <1>4, <1>5, <1>6, HeldChanged
<1>8. MaxIncrease[r] \in Nat
  BY RunAssumption
<1> QED BY <1>1, <1>2, <1>3, <1>7, <1>8

\* commitBudget and releaseBudget return exactly what was reserved.
LEMMA BudgetReturned ==
  ASSUME NonNegative, TypeOK, Exclusive, BudgetInv, NEW w \in Workers,
         Commit(w) \/ ReleaseBudget(w)
  PROVE  BudgetInv'
<1> SUFFICES ASSUME NEW r \in Resources
             PROVE  /\ ReservedIsHeld(r)' /\ reserved'[r] \in Nat
                    /\ MaxIncrease[r] > 0
                         => committed'[r] + reserved'[r] <= MaxIncrease[r]
  BY DEF BudgetInv
<1> DEFINE d == delta[cur[w]][r]
<1>1. pc[w] \in {"commit", "release"} /\ d \in Nat
  BY HeldType DEF Commit, ReleaseBudget
<1>2. /\ committed[r] \in Int /\ reserved[r] \in Int
      /\ committed'[r] \in {committed[r], committed[r] + d}
      /\ reserved'[r] = reserved[r] - d
  BY DEF Commit, ReleaseBudget, Plus, Minus, TypeOK
<1>3. HeldBy(r)[w] = d /\ HeldBy(r)' = [HeldBy(r) EXCEPT ![w] = 0]
  BY DEF Commit, ReleaseBudget, HeldBy, Held, BudgetLabels, Goto, TypeOK
<1>4. ReservedIsHeld(r)
  BY DEF BudgetInv
<1>5. 0 \in Nat /\ reserved'[r] = reserved[r] - HeldBy(r)[w] + 0
  BY <1>1, <1>2, <1>3
<1>6. ReservedIsHeld(r)' /\ reserved'[r] \in Nat
  BY <1>3, <1>4, <1>5, HeldChanged
<1>7. MaxIncrease[r] > 0 => committed[r] + reserved[r] <= MaxIncrease[r]
  BY DEF BudgetInv
<1>8. MaxIncrease[r] \in Nat
  BY RunAssumption
<1> QED BY <1>1, <1>2, <1>6, <1>7, <1>8

\* No other step of processOne touches a reservation.
LEMMA BudgetStep ==
  ASSUME NonNegative, TypeOK, Exclusive, BudgetInv, NEW w \in Workers,
         WorkerStep(w)
  PROVE  BudgetInv'
<1> USE DEF TypeOK, Exclusive, HeldBy, Held, BudgetLabels, Goto, poolVars,
    budgetVars
<1>1. CASE CheckContext(w) BY <1>1, KeepsBudget DEF CheckContext
<1>2. CASE TakeSlot(w) BY <1>2, KeepsBudget DEF TakeSlot
<1>3. CASE NoSlot(w) BY <1>3, KeepsBudget DEF NoSlot
<1>4. CASE MetricsError(w) BY <1>4, KeepsBudget DEF MetricsError
<1>5. CASE MetricsNotFound(w) BY <1>5, KeepsBudget DEF MetricsNotFound
<1>6. CASE MetricsFound(w) BY <1>6, KeepsBudget DEF MetricsFound
<1>7. ASSUME NEW c \in {"qos", "computeError", "noChange"},
             ComputeSkips(w, c)
      PROVE  BudgetInv'
  BY <1>7, KeepsBudget DEF ComputeSkips
<1>8. ASSUME NEW d \in Deltas, ComputeChanges(w, d) PROVE BudgetInv'
  BY <1>8, KeepsBudget DEF ComputeChanges
<1>9. CASE Pending(w) BY <1>9, KeepsBudget DEF Pending
<1>10. CASE Stable(w) BY <1>10, KeepsBudget DEF Stable
<1>11. CASE Reserve(w) BY <1>11, BudgetReserved
<1>12. CASE BudgetSkip(w) BY <1>12, KeepsBudget DEF BudgetSkip
<1>13. CASE ApplyNotSent(w) BY <1>13, KeepsBudget DEF ApplyNotSent
<1>14. CASE ApplySend(w) BY <1>14, KeepsBudget DEF ApplySend
<1>15. CASE ApplyOK(w) BY <1>15, KeepsBudget DEF ApplyOK
<1>16. CASE ApplyConflict(w) BY <1>16, KeepsBudget DEF ApplyConflict
<1>17. ASSUME NEW effect \in BOOLEAN, ApplyError(w, effect) PROVE BudgetInv'
  BY <1>17, KeepsBudget DEF ApplyError
<1>18. CASE ApplyFatal(w) BY <1>18, KeepsBudget DEF ApplyFatal
<1>19. CASE Refetch(w) BY <1>19, KeepsBudget DEF Refetch
<1>20. ASSUME NEW effect \in BOOLEAN, ConflictSkip(w, effect) PROVE BudgetInv'
  BY <1>20, KeepsBudget DEF ConflictSkip
<1>21. CASE Commit(w) BY <1>21, BudgetReturned
<1>22. ASSUME NEW ok \in BOOLEAN, Annotate(w, ok) PROVE BudgetInv'
  BY <1>22, KeepsBudget DEF Annotate
<1>23. CASE ReleaseBudget(w) BY <1>23, BudgetReturned
<1>24. CASE FreeSlot(w) BY <1>24, KeepsBudget DEF FreeSlot
<1> HIDE DEF TypeOK, Exclusive, HeldBy, Held, BudgetLabels, Goto, poolVars,
    budgetVars
<1> QED BY <1>1, <1>2, <1>3, <1>4, <1>5, <1>6, <1>7, <1>8, <1>9, <1>10,
    <1>11, <1>12, <1>13, <1>14, <1>15, <1>16, <1>17, <1>18, <1>19, <1>20,
    <1>21, <1>22, <1>23, <1>24 DEF WorkerStep

\* No step of a run breaks the budget invariant.
LEMMA BudgetNext ==
  ASSUME NonNegative
  PROVE  TypeOK /\ Exclusive /\ BudgetInv /\ [Next]_vars => BudgetInv'
<1> SUFFICES ASSUME TypeOK, Exclusive, BudgetInv, [Next]_vars
             PROVE  BudgetInv'
  OBVIOUS
<1>1. CASE MainStep
  <2> USE DEF TypeOK, Exclusive, HeldBy, Held, BudgetLabels, poolVars,
      budgetVars
  <2>1. CASE ListPodsFailed BY <2>1, KeepsBudget DEF ListPodsFailed
  <2>2. ASSUME NEW C \in SUBSET Pods, ListPods(C) PROVE BudgetInv'
    BY <2>2, KeepsBudget DEF ListPods
  <2>3. ASSUME NEW a \in {"error", "listed"}, ListPodMetrics(a)
        PROVE  BudgetInv'
    BY <2>3, KeepsBudget DEF ListPodMetrics
  <2>4. ASSUME NEW w \in Workers, NEW p \in Pods, Enqueue(w, p)
        PROVE  BudgetInv'
    BY <2>4, KeepsBudget DEF Enqueue
  <2>5. CASE CloseQueue BY <2>5, KeepsBudget DEF CloseQueue
  <2>6. CASE WaitWorkers BY <2>6, KeepsBudget DEF WaitWorkers
  <2>7. CASE Summary BY <2>7, KeepsBudget DEF Summary
  <2> QED BY <1>1, <2>1, <2>2, <2>3, <2>4, <2>5, <2>6, <2>7 DEF MainStep
<1>2. ASSUME NEW w \in Workers, WorkerStep(w) PROVE BudgetInv'
  BY <1>2, BudgetStep
<1>3. CASE Shutdown \/ UNCHANGED vars
  BY <1>3, KeepsBudget
     DEF Shutdown, vars, poolVars, budgetVars, HeldBy, Held
<1> QED BY <1>1, <1>2, <1>3 DEF Next, Terminated

\* Since reserved is not negative, committed alone is within the budget.
LEMMA BudgetImplies ==
  ASSUME NonNegative
  PROVE  TypeOK /\ Exclusive /\ BudgetInv => BudgetRespected
<1> SUFFICES ASSUME TypeOK, Exclusive, BudgetInv, NEW r \in Resources,
                    MaxIncrease[r] > 0
             PROVE  committed[r] <= MaxIncrease[r]
  BY DEF BudgetRespected
<1>1. reserved[r] \in Nat
  BY DEF BudgetInv
<1>2. committed[r] + reserved[r] <= MaxIncrease[r]
  BY DEF BudgetInv
<1>3. committed[r] \in Int /\ MaxIncrease[r] \in Nat
  BY RunAssumption DEF TypeOK
<1> QED BY <1>1, <1>2, <1>3

\* maxTotalCPUIncrease and maxTotalMemoryIncrease are kept by every run whose
\* deltas are increases, however many workers reserve at the same time.
THEOREM BudgetCorrect ==
  ASSUME NonNegative
  PROVE  Spec => []BudgetRespected
<1>1. Init => TypeOK /\ Exclusive /\ BudgetInv
  BY InitInv, BudgetInit
<1>2. TypeOK /\ Exclusive /\ BudgetInv /\ [Next]_vars
        => TypeOK' /\ Exclusive' /\ BudgetInv'
  BY StepPreserves, BudgetNext
<1>3. TypeOK /\ Exclusive /\ BudgetInv => BudgetRespected
  BY BudgetImplies
<1> QED BY <1>1, <1>2, <1>3, PTL DEF Spec

-----------------------------------------------------------------------------
(* The counters.                                                           *)

\* A worker counts its own, still uncounted pod or none.
LEMMA OutcomeStep ==
  ASSUME TypeOK, Exclusive, NEW w \in Workers, WorkerStep(w)
  PROVE  \A p \in Pods : outcome[p] # "none" => outcome'[p] = outcome[p]
<1> USE DEF TypeOK, Exclusive, Uncounted, Count, poolVars
<1>1. CASE CheckContext(w) BY <1>1 DEF CheckContext
<1>2. CASE TakeSlot(w) BY <1>2 DEF TakeSlot
<1>3. CASE NoSlot(w) BY <1>3 DEF NoSlot
<1>4. CASE MetricsError(w) BY <1>4 DEF MetricsError
<1>5. CASE MetricsNotFound(w) BY <1>5 DEF MetricsNotFound
<1>6. CASE MetricsFound(w) BY <1>6 DEF MetricsFound
<1>7. ASSUME NEW c \in {"qos", "computeError", "noChange"}, ComputeSkips(w, c)
      PROVE  \A p \in Pods : outcome[p] # "none" => outcome'[p] = outcome[p]
  BY <1>7 DEF ComputeSkips
<1>8. ASSUME NEW d \in Deltas, ComputeChanges(w, d)
      PROVE  \A p \in Pods : outcome[p] # "none" => outcome'[p] = outcome[p]
  BY <1>8 DEF ComputeChanges
<1>9. CASE Pending(w) BY <1>9 DEF Pending
<1>10. CASE Stable(w) BY <1>10 DEF Stable
<1>11. CASE Reserve(w) BY <1>11 DEF Reserve
<1>12. CASE BudgetSkip(w) BY <1>12 DEF BudgetSkip
<1>13. CASE ApplyNotSent(w) BY <1>13 DEF ApplyNotSent
<1>14. CASE ApplySend(w) BY <1>14 DEF ApplySend
<1>15. CASE ApplyOK(w) BY <1>15 DEF ApplyOK
<1>16. CASE ApplyConflict(w) BY <1>16 DEF ApplyConflict
<1>17. ASSUME NEW effect \in BOOLEAN, ApplyError(w, effect)
      PROVE  \A p \in Pods : outcome[p] # "none" => outcome'[p] = outcome[p]
  BY <1>17 DEF ApplyError
<1>18. CASE ApplyFatal(w) BY <1>18 DEF ApplyFatal
<1>19. CASE Refetch(w) BY <1>19 DEF Refetch
<1>20. ASSUME NEW effect \in BOOLEAN, ConflictSkip(w, effect)
      PROVE  \A p \in Pods : outcome[p] # "none" => outcome'[p] = outcome[p]
  BY <1>20 DEF ConflictSkip
<1>21. CASE Commit(w) BY <1>21 DEF Commit
<1>22. ASSUME NEW ok \in BOOLEAN, Annotate(w, ok)
      PROVE  \A p \in Pods : outcome[p] # "none" => outcome'[p] = outcome[p]
  BY <1>22 DEF Annotate
<1>23. CASE ReleaseBudget(w) BY <1>23 DEF ReleaseBudget
<1>24. CASE FreeSlot(w) BY <1>24 DEF FreeSlot
<1> HIDE DEF TypeOK, Exclusive, Uncounted, Count, poolVars
<1> QED BY <1>1, <1>2, <1>3, <1>4, <1>5, <1>6, <1>7, <1>8, <1>9, <1>10,
    <1>11, <1>12, <1>13, <1>14, <1>15, <1>16, <1>17, <1>18, <1>19, <1>20,
    <1>21, <1>22, <1>23, <1>24 DEF WorkerStep

\* Only workers count pods and commit budget.
LEMMA OutcomeMain ==
  ASSUME MainStep \/ Shutdown \/ UNCHANGED vars
  PROVE  UNCHANGED <<outcome, committed>>
BY DEF MainStep, ListPodsFailed, ListPods, ListPodMetrics, Enqueue, CloseQueue,
       WaitWorkers, Summary, Shutdown, vars, poolVars, budgetVars

\* No pod is counted twice in a run, so the counters of the summary add up.
THEOREM CountedOnceCorrect == Spec => CountedOnce
<1>1. TypeOK /\ Exclusive /\ [Next]_vars =>
        [\A p \in Pods : outcome[p] # "none" => outcome'[p] = outcome[p]]_vars
  BY OutcomeStep, OutcomeMain DEF Next, Terminated
<1>2. Init => TypeOK /\ Exclusive
  BY InitInv
<1>3. TypeOK /\ Exclusive /\ [Next]_vars => TypeOK' /\ Exclusive'
  BY StepPreserves
<1> QED BY <1>1, <1>2, <1>3, PTL DEF Spec, CountedOnce

-----------------------------------------------------------------------------
(* The refinement of RunContract.                                          *)

\* commitBudget is the contract's Resize of the worker's pod.
LEMMA ContractCommit ==
  ASSUME NonNegative, TypeOK, Exclusive, SlotInv, BudgetInv,
         NEW w \in Workers, Commit(w), TypeOK', BudgetInv'
  PROVE  RC!Next
<1>1. cur[w] \in Pods /\ delta[cur[w]] \in Deltas
  BY DEF Commit, TypeOK, Exclusive, Computed
<1>2. main # "done" /\ main' # "done"
  BY DEF Commit, Exclusive, Idle, mainVars
<1>3. cur[w] \notin Resized /\ Resized' = Resized \cup {cur[w]}
  BY <1>1 DEF Commit, Resized, Counted, Count, Uncounted, TypeOK, Exclusive
<1>4. Cardinality(Resized) < MaxPods
  <2>1. w \in SlotHolders
    BY DEF Commit, SlotHolders, SlotLabels
  <2>2. Cardinality(SlotHolders) >= 1
    BY <2>1, Finite, FS_EmptySet
  <2> QED BY <2>2, Finite, RunAssumption DEF SlotInv, SlotsConserved, TypeOK
<1>5. committed' = [r \in Resources |-> committed[r] + delta[cur[w]][r]]
  BY DEF Commit, Plus
<1>6. ASSUME NEW r \in Resources, MaxIncrease[r] > 0
      PROVE  committed'[r] <= MaxIncrease[r]
  <2>1. reserved'[r] \in Nat /\ committed'[r] + reserved'[r] <= MaxIncrease[r]
    BY <1>6 DEF BudgetInv
  <2>2. committed'[r] \in Int /\ MaxIncrease[r] \in Nat
    BY RunAssumption DEF TypeOK
  <2> QED BY <2>1, <2>2
<1>7. RC!WithinBudget(committed')
  BY <1>6, <1>5 DEF RC!WithinBudget
<1>8. (main = "done")' = (main = "done")
  BY <1>2
<1>9. RC!Cardinality(Resized) < MaxPods
  BY <1>4, Zenon DEF RC!Cardinality, Cardinality
<1>10. RC!Resize(cur[w], delta[cur[w]])
  BY <1>2, <1>3, <1>5, <1>7, <1>8, <1>9, Zenon DEF RC!Resize
<1> QED BY <1>1, <1>10 DEF RC!Next

\* Every other step of processOne is invisible to the contract.
LEMMA ContractStutter ==
  ASSUME TypeOK, Exclusive, NEW w \in Workers, WorkerStep(w), ~Commit(w)
  PROVE  UNCHANGED <<Resized, committed, main>>
<1> USE DEF TypeOK, Exclusive, Uncounted, Resized, Counted, Count, mainVars,
           poolVars, budgetVars
<1>1. CASE CheckContext(w) BY <1>1 DEF CheckContext
<1>2. CASE TakeSlot(w) BY <1>2 DEF TakeSlot
<1>3. CASE NoSlot(w) BY <1>3 DEF NoSlot
<1>4. CASE MetricsError(w) BY <1>4 DEF MetricsError
<1>5. CASE MetricsNotFound(w) BY <1>5 DEF MetricsNotFound
<1>6. CASE MetricsFound(w) BY <1>6 DEF MetricsFound
<1>7. ASSUME NEW c \in {"qos", "computeError", "noChange"}, ComputeSkips(w, c)
      PROVE  UNCHANGED <<Resized, committed, main>>
  BY <1>7 DEF ComputeSkips
<1>8. ASSUME NEW d \in Deltas, ComputeChanges(w, d)
      PROVE  UNCHANGED <<Resized, committed, main>>
  BY <1>8 DEF ComputeChanges
<1>9. CASE Pending(w) BY <1>9 DEF Pending
<1>10. CASE Stable(w) BY <1>10 DEF Stable
<1>11. CASE Reserve(w) BY <1>11 DEF Reserve
<1>12. CASE BudgetSkip(w) BY <1>12 DEF BudgetSkip
<1>13. CASE ApplyNotSent(w) BY <1>13 DEF ApplyNotSent
<1>14. CASE ApplySend(w) BY <1>14 DEF ApplySend
<1>15. CASE ApplyOK(w) BY <1>15 DEF ApplyOK
<1>16. CASE ApplyConflict(w) BY <1>16 DEF ApplyConflict
<1>17. ASSUME NEW effect \in BOOLEAN, ApplyError(w, effect)
      PROVE  UNCHANGED <<Resized, committed, main>>
  BY <1>17 DEF ApplyError
<1>18. CASE ApplyFatal(w) BY <1>18 DEF ApplyFatal
<1>19. CASE Refetch(w) BY <1>19 DEF Refetch
<1>20. ASSUME NEW effect \in BOOLEAN, ConflictSkip(w, effect)
      PROVE  UNCHANGED <<Resized, committed, main>>
  BY <1>20 DEF ConflictSkip
<1>21. ~Commit(w) OBVIOUS
<1>22. ASSUME NEW ok \in BOOLEAN, Annotate(w, ok)
      PROVE  UNCHANGED <<Resized, committed, main>>
  BY <1>22 DEF Annotate
<1>23. CASE ReleaseBudget(w) BY <1>23 DEF ReleaseBudget
<1>24. CASE FreeSlot(w) BY <1>24 DEF FreeSlot
<1> HIDE DEF TypeOK, Exclusive, Uncounted, Resized, Counted, Count, mainVars,
    poolVars, budgetVars
<1> QED BY <1>1, <1>2, <1>3, <1>4, <1>5, <1>6, <1>7, <1>8, <1>9, <1>10,
    <1>11, <1>12, <1>13, <1>14, <1>15, <1>16, <1>17, <1>18, <1>19, <1>20,
    <1>21, <1>22, <1>23, <1>24 DEF WorkerStep

\* Every step of a run is a step of the contract or a stutter.
LEMMA ContractStep ==
  ASSUME NonNegative, TypeOK, Exclusive, SlotInv, BudgetInv, [Next]_vars,
         TypeOK', BudgetInv'
  PROVE  [RC!Next]_(RC!rcVars)
<1>1. CASE MainStep
  <2>1. UNCHANGED <<Resized, committed>>
    BY <1>1, OutcomeMain DEF Resized, Counted
  <2>2. main # "done" /\ (Summary \/ main' # "done")
    BY <1>1 DEF MainStep, ListPodsFailed, ListPods, ListPodMetrics, Enqueue,
                CloseQueue, WaitWorkers, Summary
  <2>3. CASE Summary
    BY <2>1, <2>2, <2>3 DEF Summary, RC!Next, RC!Finish
  <2>4. CASE main' # "done"
    BY <2>1, <2>2, <2>4 DEF RC!rcVars
  <2> QED BY <2>2, <2>3, <2>4
<1>2. ASSUME NEW w \in Workers, WorkerStep(w) PROVE [RC!Next]_(RC!rcVars)
  <2>1. CASE Commit(w)
    BY <2>1, ContractCommit
  <2>2. CASE ~Commit(w)
    BY <1>2, <2>2, ContractStutter DEF RC!rcVars
  <2> QED BY <2>1, <2>2
<1>3. CASE Shutdown \/ UNCHANGED vars
  BY <1>3, OutcomeMain
     DEF Shutdown, vars, mainVars, Resized, Counted, RC!rcVars
<1> QED BY <1>1, <1>2, <1>3 DEF Next, Terminated

\* A run with increases only implements RunContract: it resizes distinct pods,
\* at most maxPodsPerRun of them, within the budget, and then returns.
THEOREM ContractImplemented ==
  ASSUME NonNegative
  PROVE  Spec => ImplementsContract
<1> DEFINE IInv == TypeOK /\ Exclusive /\ SlotInv /\ BudgetInv
<1>1. Init => IInv
  BY InitInv, SlotInit, BudgetInit
<1>2. IInv /\ [Next]_vars => IInv'
  BY StepPreserves, SlotNext, BudgetNext
<1>3. Init => RC!Init
  BY DEF Init, RC!Init, Resized, Counted, Zero
<1>4. IInv /\ [Next]_vars /\ IInv' => [RC!Next]_(RC!rcVars)
  BY ContractStep
<1> QED BY <1>1, <1>2, <1>3, <1>4, PTL DEF Spec, ImplementsContract, RC!Spec

-----------------------------------------------------------------------------
(* Every candidate is accounted for.                                       *)

\* A candidate off the queue is counted, or its worker is about to count it.
Accounted ==
  /\ \A p \in candidates \ todo :
       \/ outcome[p] # "none"
       \/ \E w \in Workers : pc[w] \in Uncounted /\ cur[w] = p
       \/ cancelled
  /\ main \in {"wait", "summary", "done"} => todo = {} \/ cancelled
  /\ main = "list" => candidates = {}

\* A worker lets go of its pod only after counting it, or because runCtx is
\* done.
LEMMA AccountedStep ==
  ASSUME TypeOK, Exclusive, Accounted, NEW w \in Workers, WorkerStep(w)
  PROVE  Accounted'
<1> USE DEF TypeOK, Exclusive, Accounted, Uncounted, Goto, Count, mainVars,
    poolVars, ctxVars
<1>1. CASE CheckContext(w) BY <1>1 DEF CheckContext
<1>2. CASE TakeSlot(w) BY <1>2 DEF TakeSlot
<1>3. CASE NoSlot(w) BY <1>3 DEF NoSlot
<1>4. CASE MetricsError(w) BY <1>4 DEF MetricsError
<1>5. CASE MetricsNotFound(w) BY <1>5 DEF MetricsNotFound
<1>6. CASE MetricsFound(w) BY <1>6 DEF MetricsFound
<1>7. ASSUME NEW c \in {"qos", "computeError", "noChange"},
             ComputeSkips(w, c)
      PROVE  Accounted'
  BY <1>7 DEF ComputeSkips
<1>8. ASSUME NEW d \in Deltas, ComputeChanges(w, d) PROVE Accounted'
  BY <1>8 DEF ComputeChanges
<1>9. CASE Pending(w) BY <1>9 DEF Pending
<1>10. CASE Stable(w) BY <1>10 DEF Stable
<1>11. CASE Reserve(w) BY <1>11 DEF Reserve
<1>12. CASE BudgetSkip(w) BY <1>12 DEF BudgetSkip
<1>13. CASE ApplyNotSent(w) BY <1>13 DEF ApplyNotSent
<1>14. CASE ApplySend(w) BY <1>14 DEF ApplySend
<1>15. CASE ApplyOK(w) BY <1>15 DEF ApplyOK
<1>16. CASE ApplyConflict(w) BY <1>16 DEF ApplyConflict
<1>17. ASSUME NEW effect \in BOOLEAN, ApplyError(w, effect) PROVE Accounted'
  BY <1>17 DEF ApplyError
<1>18. CASE ApplyFatal(w) BY <1>18 DEF ApplyFatal
<1>19. CASE Refetch(w) BY <1>19 DEF Refetch
<1>20. ASSUME NEW effect \in BOOLEAN, ConflictSkip(w, effect) PROVE Accounted'
  BY <1>20 DEF ConflictSkip
<1>21. CASE Commit(w) BY <1>21 DEF Commit
<1>22. ASSUME NEW ok \in BOOLEAN, Annotate(w, ok) PROVE Accounted'
  BY <1>22 DEF Annotate
<1>23. CASE ReleaseBudget(w) BY <1>23 DEF ReleaseBudget
<1>24. CASE FreeSlot(w) BY <1>24 DEF FreeSlot
<1> HIDE DEF TypeOK, Exclusive, Accounted, Uncounted, Goto, Count, mainVars,
    poolVars, ctxVars
<1> QED BY <1>1, <1>2, <1>3, <1>4, <1>5, <1>6, <1>7, <1>8, <1>9, <1>10,
    <1>11, <1>12, <1>13, <1>14, <1>15, <1>16, <1>17, <1>18, <1>19, <1>20,
    <1>21, <1>22, <1>23, <1>24 DEF WorkerStep

\* The queue is closed early only when runCtx is done.
LEMMA AccountedNext ==
  TypeOK /\ Exclusive /\ Accounted /\ [Next]_vars => Accounted'
<1> SUFFICES ASSUME TypeOK, Exclusive, Accounted, [Next]_vars PROVE Accounted'
  OBVIOUS
<1>1. CASE MainStep
  <2> USE DEF TypeOK, Accounted, Exclusive, Uncounted, Idle, poolVars, ctxVars
  <2>1. CASE ListPodsFailed BY <2>1 DEF ListPodsFailed
  <2>2. ASSUME NEW C \in SUBSET Pods, ListPods(C) PROVE Accounted'
    BY <2>2 DEF ListPods
  <2>3. ASSUME NEW a \in {"error", "listed"}, ListPodMetrics(a)
        PROVE  Accounted'
    BY <2>3 DEF ListPodMetrics
  <2>4. ASSUME NEW w \in Workers, NEW p \in Pods, Enqueue(w, p)
        PROVE  Accounted'
    BY <2>4 DEF Enqueue
  <2>5. CASE CloseQueue BY <2>5 DEF CloseQueue
  <2>6. CASE WaitWorkers BY <2>6 DEF WaitWorkers
  <2>7. CASE Summary BY <2>7 DEF Summary
  <2> QED BY <1>1, <2>1, <2>2, <2>3, <2>4, <2>5, <2>6, <2>7 DEF MainStep
<1>2. ASSUME NEW w \in Workers, WorkerStep(w) PROVE Accounted'
  BY <1>2, AccountedStep
<1>3. CASE Shutdown \/ UNCHANGED vars
  BY <1>3 DEF Accounted, Shutdown, vars, mainVars, poolVars, ctxVars
<1> QED BY <1>1, <1>2, <1>3 DEF Next, Terminated

\* A run that was not cancelled has counted every candidate when it returns.
THEOREM NoneLeftOutCorrect == Spec => []NoneLeftOut
<1> DEFINE IInv == TypeOK /\ Exclusive /\ Accounted
<1>1. Init => IInv
  BY InitInv DEF Init, Accounted
<1>2. IInv /\ [Next]_vars => IInv'
  BY StepPreserves, AccountedNext
<1>3. IInv => NoneLeftOut
  BY DEF Accounted, Exclusive, Idle, NoneLeftOut, Uncounted
<1> QED BY <1>1, <1>2, <1>3, PTL DEF Spec

-----------------------------------------------------------------------------
(* The variant of Termination.                                             *)

\* One worker follows its path; the queue and the others stay.
Onward(w) ==
  /\ UNCHANGED <<main, todo, stopped>>
  /\ Position[pc[w]] < Position[pc'[w]]
  /\ \A v \in Workers : v # w => pc'[v] = pc[v]

\* Every return, skip, retry and failure of processOne leads onward.
LEMMA WorkerOnward ==
  ASSUME TypeOK, NEW w \in Workers, WorkerStep(w)
  PROVE  Onward(w)
<1> USE DEF TypeOK, Onward, Position, Goto, mainVars, ctxVars
<1>1. ASSUME CheckContext(w) PROVE Onward(w) BY <1>1 DEF CheckContext
<1>2. ASSUME TakeSlot(w) PROVE Onward(w) BY <1>2 DEF TakeSlot
<1>3. ASSUME NoSlot(w) PROVE Onward(w) BY <1>3 DEF NoSlot
<1>4. ASSUME MetricsError(w) PROVE Onward(w) BY <1>4 DEF MetricsError
<1>5. ASSUME MetricsNotFound(w) PROVE Onward(w) BY <1>5 DEF MetricsNotFound
<1>6. ASSUME MetricsFound(w) PROVE Onward(w) BY <1>6 DEF MetricsFound
<1>7. ASSUME NEW c \in {"qos", "computeError", "noChange"},
             ComputeSkips(w, c)
      PROVE  Onward(w)
  BY <1>7 DEF ComputeSkips
<1>8. ASSUME NEW d \in Deltas, ComputeChanges(w, d) PROVE Onward(w)
  BY <1>8 DEF ComputeChanges
<1>9. ASSUME Pending(w) PROVE Onward(w) BY <1>9 DEF Pending
<1>10. ASSUME Stable(w) PROVE Onward(w) BY <1>10 DEF Stable
<1>11. ASSUME Reserve(w) PROVE Onward(w) BY <1>11 DEF Reserve
<1>12. ASSUME BudgetSkip(w) PROVE Onward(w) BY <1>12 DEF BudgetSkip
<1>13. ASSUME ApplyNotSent(w) PROVE Onward(w) BY <1>13 DEF ApplyNotSent
<1>14. ASSUME ApplySend(w) PROVE Onward(w) BY <1>14 DEF ApplySend
<1>15. ASSUME ApplyOK(w) PROVE Onward(w) BY <1>15 DEF ApplyOK
<1>16. ASSUME ApplyConflict(w) PROVE Onward(w) BY <1>16 DEF ApplyConflict
<1>17. ASSUME NEW e \in BOOLEAN, ApplyError(w, e) PROVE Onward(w)
  BY <1>17 DEF ApplyError
<1>18. ASSUME ApplyFatal(w) PROVE Onward(w) BY <1>18 DEF ApplyFatal
<1>19. ASSUME Refetch(w) PROVE Onward(w) BY <1>19 DEF Refetch
<1>20. ASSUME NEW e \in BOOLEAN, ConflictSkip(w, e) PROVE Onward(w)
  BY <1>20 DEF ConflictSkip
<1>21. ASSUME Commit(w) PROVE Onward(w) BY <1>21 DEF Commit
<1>22. ASSUME NEW ok \in BOOLEAN, Annotate(w, ok) PROVE Onward(w)
  BY <1>22 DEF Annotate
<1>23. ASSUME ReleaseBudget(w) PROVE Onward(w) BY <1>23 DEF ReleaseBudget
<1>24. ASSUME FreeSlot(w) PROVE Onward(w) BY <1>24 DEF FreeSlot
<1> HIDE DEF TypeOK, Onward, Position, Goto, mainVars, ctxVars
<1> QED BY <1>1, <1>2, <1>3, <1>4, <1>5, <1>6, <1>7, <1>8, <1>9, <1>10, <1>11,
    <1>12, <1>13, <1>14, <1>15, <1>16, <1>17, <1>18, <1>19, <1>20,
    <1>21, <1>22, <1>23, <1>24
    DEF WorkerStep

\* Every step makes the variant smaller: a run of any number of pods and
\* workers takes finitely many steps, so that Termination is only a matter of
\* fairness and of never being stuck.
THEOREM MovesForwardCorrect == Spec => MovesForward
<1> DEFINE Forward ==
      \/ Phase[main'] > Phase[main]
      \/ main' = main /\ ~stopped /\ stopped'
      \/ /\ main' = main /\ stopped' = stopped
         /\ \/ todo' \subseteq todo /\ todo' # todo
            \/ /\ todo' = todo
               /\ \A w \in Workers : Position[pc[w]] <= Position[pc'[w]]
               /\ \E w \in Workers : Position[pc[w]] < Position[pc'[w]]
<1>1. ASSUME TypeOK, TypeOK', [Next]_vars, vars' # vars PROVE Forward
  <2>1. CASE MainStep
    <3> USE DEF Phase, ctxVars, mainVars
    <3>1. CASE ListPodsFailed BY <3>1 DEF ListPodsFailed
    <3>2. ASSUME NEW C \in SUBSET Pods, ListPods(C) PROVE Forward
      BY <3>2 DEF ListPods
    <3>3. ASSUME NEW a \in {"error", "listed"}, ListPodMetrics(a)
          PROVE  Forward
      BY <3>3 DEF ListPodMetrics
    <3>4. ASSUME NEW w \in Workers, NEW p \in Pods, Enqueue(w, p)
          PROVE  Forward
      <4>1. /\ main' = main /\ stopped' = stopped
            /\ p \in todo /\ todo' = todo \ {p}
        BY <3>4 DEF Enqueue
      <4> QED BY <4>1
    <3>5. CASE CloseQueue BY <3>5 DEF CloseQueue
    <3>6. CASE WaitWorkers BY <3>6 DEF WaitWorkers
    <3>7. CASE Summary BY <3>7 DEF Summary
    <3> QED BY <2>1, <3>1, <3>2, <3>3, <3>4, <3>5, <3>6, <3>7 DEF MainStep
  <2>2. ASSUME NEW w \in Workers, WorkerStep(w) PROVE Forward
    <3>1. Onward(w)
      BY <1>1, <2>2, WorkerOnward
    <3>2. pc \in [Workers -> Labels]
      BY <1>1 DEF TypeOK
    <3>3. \A v \in Workers : Position[pc[v]] \in Nat
      BY <3>2 DEF Labels, Position
    <3>4. \A v \in Workers : Position[pc[v]] <= Position[pc'[v]]
      <4> TAKE v \in Workers
      <4>1. CASE v = w
        <5>1. pc'[w] \in Labels
          BY <1>1 DEF TypeOK
        <5>2. Position[pc'[w]] \in Nat
          BY <5>1 DEF Labels, Position
        <5> QED BY <3>1, <3>3, <4>1, <5>2 DEF Onward
      <4>2. CASE v # w
        BY <3>1, <3>3, <4>2 DEF Onward
      <4> QED BY <4>1, <4>2
    <3> QED BY <3>1, <3>4 DEF Onward
  <2>3. CASE Shutdown
    BY <2>3 DEF Shutdown, mainVars
  <2> QED BY <1>1, <2>1, <2>2, <2>3 DEF Next, Terminated
<1>2. [][Forward]_vars => MovesForward
  BY PTL DEF MovesForward
<1> HIDE DEF Forward
<1>3. TypeOK /\ TypeOK' /\ [Next]_vars => [Forward]_vars
  BY <1>1
<1> QED BY <1>2, <1>3, TypeCorrect, PTL DEF Spec

=============================================================================
