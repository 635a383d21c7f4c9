-------------------------- MODULE ConditionProofs ---------------------------
(***************************************************************************)
(* The MetricsAvailable condition tells the truth (ConditionTruthful of    *)
(* ReconcileRun), for any finite set of pods and any settings.             *)
(*                                                                         *)
(* Summary concludes from counters what happened to the metrics list and   *)
(* to the candidates.  Evidence says what each counter and each label of a *)
(* worker proves about them; with Accounted (nobody is left out) and       *)
(* SlotInv (somebody was resized before anybody was turned away) it leaves *)
(* Summary no room for a wrong reason.                                     *)
(***************************************************************************)
EXTENDS ReconcileRunProofs

\* The labels and the counters that are reached with the pod's metrics only.
WithMetrics == {"compute", "stabilize", "reserve", "apply", "sent", "conflict",
                "resent", "commit", "annotate", "release"}

Evaluated == {"qos", "computeError", "noChange", "pending", "budget",
              "applyFailed", "conflict", "resized"}

\* What the counters and the context of a run are evidence of.
Evidence ==
  /\ \A w \in Workers : pc[w] \in WithMetrics => metricsOK
  /\ \A p \in Pods : outcome[p] \in Evaluated => metricsOK
  /\ \A p \in Pods : outcome[p] = "metricsError" => metrics = "error"
  /\ \A p \in Pods : outcome[p] = "metricsNotFound" => metrics = "listed"
  /\ \A p \in Pods : outcome[p] # "none" => p \in candidates
  /\ metricsOK => metrics = "listed"
  /\ cancelled => stopped \/ metricsOK
                  \/ \E p \in Pods : outcome[p] = "metricsError"
  /\ main \in {"list", "metrics"} => metrics = "none"
  /\ main = "metrics" \/ metrics # "none" => candidates # {}
  /\ main = "done" => condition = MetricsCondition

\* Nothing is counted, listed or cancelled at first.
LEMMA EvidenceInit == Init => Evidence
BY DEF Init, Evidence, WithMetrics, Evaluated

\* A worker counts its pod by what it has found out; runCtx is cancelled only
\* by a failed metrics list or by a worker that had metrics.
LEMMA EvidenceStep ==
  ASSUME TypeOK, Exclusive, Evidence, NEW w \in Workers, WorkerStep(w)
  PROVE  Evidence'
<1>0. main # "done" /\ pc[w] # "recv" /\ cur[w] \in candidates
  BY DEF Exclusive, Idle, WorkerStep, CheckContext, TakeSlot, NoSlot,
         MetricsError, MetricsNotFound, MetricsFound, ComputeSkips,
         ComputeChanges, Pending, Stable, Reserve, BudgetSkip, ApplyNotSent,
         ApplySend, ApplyOK, ApplyConflict, ApplyError, ApplyFatal, Refetch,
         ConflictSkip, Commit, Annotate, ReleaseBudget, FreeSlot
<1> USE <1>0 DEF TypeOK, Exclusive, Evidence, Uncounted, WithMetrics,
    Evaluated, Goto, Count, mainVars, poolVars, ctxVars
<1>1. CASE CheckContext(w) BY <1>1 DEF CheckContext
<1>2. CASE TakeSlot(w) BY <1>2 DEF TakeSlot
<1>3. CASE NoSlot(w) BY <1>3 DEF NoSlot
<1>4. CASE MetricsError(w) BY <1>4 DEF MetricsError
<1>5. CASE MetricsNotFound(w) BY <1>5 DEF MetricsNotFound
<1>6. CASE MetricsFound(w) BY <1>6 DEF MetricsFound
<1>7. ASSUME NEW c \in {"qos", "computeError", "noChange"},
             ComputeSkips(w, c)
      PROVE  Evidence'
  BY <1>7 DEF ComputeSkips
<1>8. ASSUME NEW d \in Deltas, ComputeChanges(w, d) PROVE Evidence'
  BY <1>8 DEF ComputeChanges
<1>9. CASE Pending(w) BY <1>9 DEF Pending
<1>10. CASE Stable(w) BY <1>10 DEF Stable
<1>11. CASE Reserve(w) BY <1>11 DEF Reserve
<1>12. CASE BudgetSkip(w) BY <1>12 DEF BudgetSkip
<1>13. CASE ApplyNotSent(w) BY <1>13 DEF ApplyNotSent
<1>14. CASE ApplySend(w) BY <1>14 DEF ApplySend
<1>15. CASE ApplyOK(w) BY <1>15 DEF ApplyOK
<1>16. CASE ApplyConflict(w) BY <1>16 DEF ApplyConflict
<1>17. ASSUME NEW effect \in BOOLEAN, ApplyError(w, effect) PROVE Evidence'
  BY <1>17 DEF ApplyError
<1>18. CASE ApplyFatal(w) BY <1>18 DEF ApplyFatal
<1>19. CASE Refetch(w) BY <1>19 DEF Refetch
<1>20. ASSUME NEW effect \in BOOLEAN, ConflictSkip(w, effect) PROVE Evidence'
  BY <1>20 DEF ConflictSkip
<1>21. CASE Commit(w) BY <1>21 DEF Commit
<1>22. ASSUME NEW ok \in BOOLEAN, Annotate(w, ok) PROVE Evidence'
  BY <1>22 DEF Annotate
<1>23. CASE ReleaseBudget(w) BY <1>23 DEF ReleaseBudget
<1>24. CASE FreeSlot(w) BY <1>24 DEF FreeSlot
<1> HIDE DEF TypeOK, Exclusive, Evidence, Uncounted, WithMetrics, Evaluated,
    Goto, Count, mainVars, poolVars, ctxVars
<1> QED BY <1>1, <1>2, <1>3, <1>4, <1>5, <1>6, <1>7, <1>8, <1>9, <1>10,
    <1>11, <1>12, <1>13, <1>14, <1>15, <1>16, <1>17, <1>18, <1>19, <1>20,
    <1>21, <1>22, <1>23, <1>24 DEF WorkerStep

\* The goroutine of Reconcile lists metrics only for candidates; a shutdown
\* after the summary is not a step of the run.
LEMMA EvidenceNext ==
  TypeOK /\ Exclusive /\ Evidence /\ [Next]_vars => Evidence'
<1> SUFFICES ASSUME TypeOK, Exclusive, Evidence, [Next]_vars PROVE Evidence'
  OBVIOUS
<1>1. CASE MainStep
  <2> USE DEF TypeOK, Evidence, Exclusive, WithMetrics, Evaluated, Idle,
      poolVars, ctxVars
  <2>1. CASE ListPodsFailed BY <2>1 DEF ListPodsFailed
  <2>2. ASSUME NEW C \in SUBSET Pods, ListPods(C) PROVE Evidence'
    BY <2>2 DEF ListPods
  <2>3. ASSUME NEW a \in {"error", "listed"}, ListPodMetrics(a)
        PROVE  Evidence'
    BY <2>3 DEF ListPodMetrics
  <2>4. ASSUME NEW w \in Workers, NEW p \in Pods, Enqueue(w, p)
        PROVE  Evidence'
    BY <2>4 DEF Enqueue
  <2>5. CASE CloseQueue BY <2>5 DEF CloseQueue
  <2>6. CASE WaitWorkers BY <2>6 DEF WaitWorkers
  <2>7. CASE Summary BY <2>7 DEF Summary, MetricsCondition, Counted
  <2> QED BY <1>1, <2>1, <2>2, <2>3, <2>4, <2>5, <2>6, <2>7 DEF MainStep
<1>2. ASSUME NEW w \in Workers, WorkerStep(w) PROVE Evidence'
  BY <1>2, EvidenceStep
<1>3. CASE Shutdown
  BY <1>3 DEF Evidence, Shutdown, mainVars, poolVars
<1>4. CASE UNCHANGED vars
  BY <1>4 DEF Evidence, MetricsCondition, Counted, vars, mainVars, poolVars,
              ctxVars
<1> QED BY <1>1, <1>2, <1>3, <1>4 DEF Next, Terminated

\* A candidate of a finished run that was neither shut down nor successful in
\* finding metrics was counted for the metrics: it was not left out, and it was
\* not turned away for maxPodsPerRun, which takes a resized pod.
LEMMA CountedForMetrics ==
  ASSUME TypeOK, Exclusive, Accounted, SlotInv, Evidence,
         main = "done", ~cancelled, ~metricsOK, NEW p \in candidates
  PROVE  outcome[p] \in {"metricsError", "metricsNotFound"}
<1>1. p \in Pods /\ outcome[p] \in Outcomes
  BY DEF TypeOK
<1>2. outcome[p] # "none"
  BY DEF Accounted, Exclusive, Idle, Uncounted
<1>3. outcome[p] \notin Evaluated
  BY <1>1 DEF Evidence
<1>4. outcome[p] # "maxPods"
  <2>1. Resized = {}
    BY DEF Resized, Counted, Evidence, Evaluated
  <2>2. Cardinality(Resized) = 0
    BY <2>1, FS_EmptySet
  <2> QED BY <1>1, <2>2 DEF SlotInv, SkipImpliesProgress
<1> QED BY <1>1, <1>2, <1>3, <1>4 DEF Outcomes, Evaluated

\* The condition of a run that was not shut down says NoEligiblePods exactly
\* when there was no candidate, and Unavailable exactly when the metrics list
\* failed, in whichever order the workers counted and cancelled.
THEOREM ConditionCorrect == Spec => []ConditionTruthful
<1> DEFINE IInv == TypeOK /\ Exclusive /\ Accounted /\ SlotInv /\ Evidence
<1>1. Init => IInv
  BY InitInv, SlotInit, EvidenceInit DEF Init, Accounted
<1>2. IInv /\ [Next]_vars => IInv'
  BY StepPreserves, AccountedNext, SlotNext, EvidenceNext
<1>3. IInv => ConditionTruthful
  <2> SUFFICES ASSUME IInv, main = "done", ~stopped
               PROVE  /\ condition = "NoEligiblePods" <=> candidates = {}
                      /\ condition = "Unavailable" <=> metrics = "error"
    BY DEF ConditionTruthful
  <2>1. condition = MetricsCondition
    BY DEF Evidence
  <2>2. CASE metricsOK
    BY <2>1, <2>2 DEF Evidence, MetricsCondition
  <2>3. CASE ~metricsOK /\ Counted("metricsError") # {}
    BY <2>1, <2>3 DEF Evidence, MetricsCondition, Counted
  <2>4. CASE ~metricsOK /\ Counted("metricsError") = {}
    <3>1. ~cancelled
      BY <2>4 DEF Evidence, Counted
    <3>2. \A p \in candidates : p \in Pods /\ outcome[p] = "metricsNotFound"
      BY <2>4, <3>1, CountedForMetrics DEF TypeOK, Counted
    <3>3. candidates # {} => Counted("metricsNotFound") # {}
                             /\ metrics = "listed"
      BY <3>2 DEF Counted, Evidence
    <3>4. candidates = {} => Counted("metricsNotFound") = {}
                             /\ metrics = "none"
      BY DEF Counted, Evidence
    <3> QED BY <2>1, <2>4, <3>3, <3>4 DEF MetricsCondition
  <2> QED BY <2>2, <2>3, <2>4
<1> QED BY <1>1, <1>2, <1>3, PTL DEF Spec

\* A pod is turned away for maxPodsPerRun only after real progress, whatever
\* the workers hold at the time.
THEOREM SkipCorrect == Spec => []SkipImpliesProgress
<1>1. SlotsConserved /\ SkipImpliesProgress => SkipImpliesProgress
  OBVIOUS
<1> QED BY <1>1, SlotsCorrect, PTL

=============================================================================
