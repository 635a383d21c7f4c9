---------------------------- MODULE ReconcileRun ----------------------------
(***************************************************************************)
(* One pass of InPlacePodResizeReconciler.Reconcile over its candidate     *)
(* pods: the list calls, the pool of worker goroutines that run            *)
(* processOne, the slots channel (maxPodsPerRun), the budget manager       *)
(* (maxTotalCPUIncrease / maxTotalMemoryIncrease), the cancellation of     *)
(* runCtx, and the summary that decides the MetricsAvailable condition.    *)
(*                                                                         *)
(* A worker's step is what it does between two points where another        *)
(* goroutine can interfere: taking a slot, a critical section of the       *)
(* budget mutex, sending a request, receiving its answer.  What            *)
(* policy.ComputeDesired and stabilizationAllows return is a               *)
(* nondeterministic choice here; modules Policy and PodLifecycle model     *)
(* them.  The pods counters (podsResized, podsBudgetSkipped, ...) are one  *)
(* function, outcome, from pods to how their turn ended.                   *)
(***************************************************************************)
EXTENDS Integers, FiniteSets

CONSTANTS
  Pods,               \* the pods a list call can return
  NoPod,              \* the pod of a worker that has not received one
  MaxPods,            \* spec.timing.maxPodsPerRun, after its default
  MaxConcurrentPods,  \* spec.timing.maxConcurrentPods, after its default
  Resources,          \* the resources of policy.Delta: cpu and memory
  MaxIncrease,        \* maxTotal*Increase by resource; 0 is "no budget"
  Deltas              \* the policy.Delta values ComputeDesired may return

ASSUME RunAssumption ==
  /\ IsFiniteSet(Pods)
  /\ NoPod \notin Pods
  /\ MaxPods \in Nat \ {0}
  /\ MaxConcurrentPods \in Nat \ {0}
  /\ MaxIncrease \in [Resources -> Nat]
  /\ Deltas \subseteq [Resources -> Int]

VARIABLES
  main,        \* program counter of the goroutine that called Reconcile
  candidates,  \* pods that passed the selectors, eligibility and cooldown
  todo,        \* candidates not yet sent on workCh
  metrics,     \* answer of ListPodMetrics: "none", "error" or "listed"
  cap,         \* cap.State of this run (Unsupported has returned earlier)
  stopped,     \* the context of the manager is cancelled (shutdown)
  cancelled,   \* runCtx.Err() != nil
  fatal,       \* fatalOnce has run: Prober marked Unsupported, stopAll
  pc,          \* program counter of each worker
  cur,         \* the pod each worker is processing
  delta,       \* res.Delta of the pods whose change was computed
  slots,       \* tokens in the slots channel
  reserved,    \* budgetManager.reserved
  committed,   \* budgetManager.committed
  outcome,     \* how each pod's turn ended
  live,        \* pods whose resize took effect on the API server
  noted,       \* pods whose last-resize annotations were written
  metricsOK,   \* metricsOK
  condition    \* reason of the MetricsAvailable condition

mainVars == <<main, candidates, todo, metrics, condition>>
poolVars == <<pc, cur, delta, outcome>>
budgetVars == <<reserved, committed>>
ctxVars == <<stopped, cancelled, fatal>>
apiVars == <<live, noted>>
vars == <<mainVars, poolVars, budgetVars, ctxVars, apiVars,
          cap, slots, metricsOK>>

\* Mutant: the worker count is not clamped to maxPods.
WorkerCountUnclamped == MaxConcurrentPods

(***************************************************************************)
(* The number of goroutines is clamped to maxPods, so that every worker    *)
(* can hold a slot when nothing has been resized yet.                      *)
(***************************************************************************)
WorkerCount == IF MaxConcurrentPods > MaxPods THEN MaxPods
                                              ELSE MaxConcurrentPods
Workers == 1..WorkerCount

Zero == [r \in Resources |-> 0]
Plus(a, b) == [r \in Resources |-> a[r] + b[r]]
Minus(a, b) == [r \in Resources |-> a[r] - b[r]]

Labels == {"recv", "check", "slot", "metrics", "compute", "stabilize",
           "reserve", "apply", "sent", "conflict", "resent", "commit",
           "annotate", "release", "freeSlot"}

\* Each end of a pod's turn has a counter of its own in the code, except for
\* "computeError", which is only logged.
Outcomes == {"none", "maxPods", "metricsError", "metricsNotFound", "qos",
             "computeError", "noChange", "pending", "budget",
             "applyFailed", "conflict", "resized"}

Init ==
  /\ main = "list"
  /\ candidates = {} /\ todo = {}
  /\ metrics = "none"
  /\ cap \in {"Supported", "Unknown"}
  /\ stopped = FALSE /\ cancelled = FALSE /\ fatal = FALSE
  /\ pc = [w \in Workers |-> "recv"]
  /\ cur = [w \in Workers |-> NoPod]
  /\ delta = [p \in Pods |-> Zero]
  /\ slots = MaxPods
  /\ reserved = Zero /\ committed = Zero
  /\ outcome = [p \in Pods |-> "none"]
  /\ live = {} /\ noted = {}
  /\ metricsOK = FALSE
  /\ condition = "none"

-----------------------------------------------------------------------------
(* The goroutine of Reconcile.                                             *)

\* The cluster-wide pod list fails: stopAll, nothing is evaluated.
ListPodsFailed ==
  /\ main = "list"
  /\ main' = "summary"
  /\ UNCHANGED <<candidates, todo, metrics, condition, poolVars, budgetVars,
                 ctxVars, apiVars, cap, slots, metricsOK>>

\* Namespace selector, isEligiblePod and shouldSkipByCooldown leave C.
ListPods(C) ==
  /\ main = "list"
  /\ candidates' = C /\ todo' = C
  /\ main' = IF C = {} THEN "summary" ELSE "metrics"
  /\ UNCHANGED <<metrics, condition, poolVars, budgetVars, ctxVars, apiVars,
                 cap, slots, metricsOK>>

\* Mutant: a failed metrics list cancels the run at once.
ListPodMetricsCancels(answer) ==
  /\ main = "metrics"
  /\ cancelled => answer = "error"
  /\ metrics' = answer
  /\ cancelled' = (cancelled \/ answer = "error")
  /\ main' = "enqueue"
  /\ UNCHANGED <<candidates, todo, condition, poolVars, budgetVars, stopped,
                 fatal, apiVars, cap, slots, metricsOK>>

ListPodMetrics(answer) ==
  /\ main = "metrics"
  /\ cancelled => answer = "error"
  /\ metrics' = answer
  /\ main' = "enqueue"
  /\ UNCHANGED <<candidates, todo, condition, poolVars, budgetVars, ctxVars,
                 apiVars, cap, slots, metricsOK>>

\* workCh is unbuffered: sending a pod hands it to a receiving worker.  The
\* select may still choose this branch after runCtx is done.
Enqueue(w, p) ==
  /\ main = "enqueue"
  /\ pc[w] = "recv"
  /\ p \in todo
  /\ todo' = todo \ {p}
  /\ cur' = [cur EXCEPT ![w] = p]
  /\ pc' = [pc EXCEPT ![w] = "check"]
  /\ UNCHANGED <<main, candidates, metrics, condition, delta, outcome,
                 budgetVars, ctxVars, apiVars, cap, slots, metricsOK>>

\* Mutant: the select has a default branch, which gives up on the queue.
CloseQueueEarly ==
  /\ main = "enqueue"
  /\ main' = "wait"
  /\ UNCHANGED <<candidates, todo, metrics, condition, poolVars, budgetVars,
                 ctxVars, apiVars, cap, slots, metricsOK>>

\* The candidates are exhausted or runCtx is done: close(workCh).
CloseQueue ==
  /\ main = "enqueue"
  /\ todo = {} \/ cancelled
  /\ main' = "wait"
  /\ UNCHANGED <<candidates, todo, metrics, condition, poolVars, budgetVars,
                 ctxVars, apiVars, cap, slots, metricsOK>>

\* wg.Wait: every worker found workCh closed.
WaitWorkers ==
  /\ main = "wait"
  /\ \A w \in Workers : pc[w] = "recv"
  /\ main' = "summary"
  /\ UNCHANGED <<candidates, todo, metrics, condition, poolVars, budgetVars,
                 ctxVars, apiVars, cap, slots, metricsOK>>

Counted(o) == {p \in Pods : outcome[p] = o}

MetricsCondition ==
  IF metricsOK THEN "OK"
  ELSE IF Counted("metricsError") # {} THEN "Unavailable"
  ELSE IF Counted("metricsNotFound") # {} THEN "PodMetricsNotReady"
  ELSE "NoEligiblePods"

Summary ==
  /\ main = "summary"
  /\ condition' = MetricsCondition
  /\ main' = "done"
  /\ UNCHANGED <<candidates, todo, metrics, poolVars, budgetVars, ctxVars,
                 apiVars, cap, slots, metricsOK>>

\* The manager stops: the context runCtx derives from is cancelled.
Shutdown ==
  /\ ~stopped /\ main # "done"
  /\ stopped' = TRUE /\ cancelled' = TRUE
  /\ UNCHANGED <<mainVars, poolVars, budgetVars, fatal, apiVars,
                 cap, slots, metricsOK>>

-----------------------------------------------------------------------------
(* A worker: the range over workCh and processOne.                         *)

Goto(w, label) == pc' = [pc EXCEPT ![w] = label]
Count(w, o) == outcome' = [outcome EXCEPT ![cur[w]] = o]

CheckContext(w) ==
  /\ pc[w] = "check"
  /\ Goto(w, IF cancelled THEN "recv" ELSE "slot")
  /\ UNCHANGED <<mainVars, cur, delta, outcome, budgetVars, ctxVars, apiVars,
                 cap, slots, metricsOK>>

\* Mutant: the slot counter is decremented without looking.
TakeSlotUnchecked(w) ==
  /\ pc[w] = "slot"
  /\ slots' = slots - 1
  /\ Goto(w, "metrics")
  /\ UNCHANGED <<mainVars, cur, delta, outcome, budgetVars, ctxVars, apiVars,
                 cap, metricsOK>>

TakeSlot(w) ==
  /\ pc[w] = "slot"
  /\ slots > 0
  /\ slots' = slots - 1
  /\ Goto(w, "metrics")
  /\ UNCHANGED <<mainVars, cur, delta, outcome, budgetVars, ctxVars, apiVars,
                 cap, metricsOK>>

NoSlot(w) ==
  /\ pc[w] = "slot"
  /\ slots = 0
  /\ Count(w, "maxPods")
  /\ Goto(w, "recv")
  /\ UNCHANGED <<mainVars, cur, delta, budgetVars, ctxVars, apiVars,
                 cap, slots, metricsOK>>

\* getPodMetrics returns the error of the one list call: the run is cancelled.
MetricsError(w) ==
  /\ pc[w] = "metrics"
  /\ metrics = "error"
  /\ Count(w, "metricsError")
  /\ cancelled' = TRUE
  /\ Goto(w, "freeSlot")
  /\ UNCHANGED <<mainVars, cur, delta, budgetVars, stopped, fatal, apiVars,
                 cap, slots, metricsOK>>

MetricsNotFound(w) ==
  /\ pc[w] = "metrics"
  /\ metrics = "listed"
  /\ Count(w, "metricsNotFound")
  /\ Goto(w, "freeSlot")
  /\ UNCHANGED <<mainVars, cur, delta, budgetVars, ctxVars, apiVars,
                 cap, slots, metricsOK>>

MetricsFound(w) ==
  /\ pc[w] = "metrics"
  /\ metrics = "listed"
  /\ metricsOK' = TRUE
  /\ Goto(w, "compute")
  /\ UNCHANGED <<mainVars, cur, delta, outcome, budgetVars, ctxVars, apiVars,
                 cap, slots>>

\* ComputeDesired: a QoS change, another error, no change (or a zero delta).
ComputeSkips(w, o) ==
  /\ pc[w] = "compute"
  /\ Count(w, o)
  /\ Goto(w, "freeSlot")
  /\ UNCHANGED <<mainVars, cur, delta, budgetVars, ctxVars, apiVars,
                 cap, slots, metricsOK>>

ComputeChanges(w, d) ==
  /\ pc[w] = "compute"
  /\ d # Zero
  /\ delta' = [delta EXCEPT ![cur[w]] = d]
  /\ Goto(w, "stabilize")
  /\ UNCHANGED <<mainVars, cur, outcome, budgetVars, ctxVars, apiVars,
                 cap, slots, metricsOK>>

\* stabilizationAllows said no; ensurePending's error is only logged.
Pending(w) ==
  /\ pc[w] = "stabilize"
  /\ Count(w, "pending")
  /\ Goto(w, "freeSlot")
  /\ UNCHANGED <<mainVars, cur, delta, budgetVars, ctxVars, apiVars,
                 cap, slots, metricsOK>>

Stable(w) ==
  /\ pc[w] = "stabilize"
  /\ Goto(w, "reserve")
  /\ UNCHANGED <<mainVars, cur, delta, outcome, budgetVars, ctxVars, apiVars,
                 cap, slots, metricsOK>>

\* Mutant: reservations in flight are not counted.
FitsBudgetCommittedOnly(d) ==
  \A r \in Resources :
    MaxIncrease[r] > 0 => committed[r] + d[r] <= MaxIncrease[r]

\* The two tests of tryReserveBudget, one per resource.
FitsBudget(d) ==
  \A r \in Resources :
    MaxIncrease[r] > 0 => committed[r] + reserved[r] + d[r] <= MaxIncrease[r]

Reserve(w) ==
  /\ pc[w] = "reserve"
  /\ FitsBudget(delta[cur[w]])
  /\ reserved' = Plus(reserved, delta[cur[w]])
  /\ Goto(w, "apply")
  /\ UNCHANGED <<mainVars, cur, delta, outcome, committed, ctxVars, apiVars,
                 cap, slots, metricsOK>>

\* Mutant: the return for an exhausted budget forgets the slot.
BudgetSkipLeaks(w) ==
  /\ pc[w] = "reserve"
  /\ ~FitsBudget(delta[cur[w]])
  /\ Count(w, "budget")
  /\ Goto(w, "recv")
  /\ UNCHANGED <<mainVars, cur, delta, budgetVars, ctxVars, apiVars,
                 cap, slots, metricsOK>>

BudgetSkip(w) ==
  /\ pc[w] = "reserve"
  /\ ~FitsBudget(delta[cur[w]])
  /\ Count(w, "budget")
  /\ Goto(w, "freeSlot")
  /\ UNCHANGED <<mainVars, cur, delta, budgetVars, ctxVars, apiVars,
                 cap, slots, metricsOK>>

\* cap.State is not Supported, or the request fails before it is sent
\* because runCtx is already done.
ApplyNotSent(w) ==
  /\ pc[w] = "apply"
  /\ cap # "Supported" \/ cancelled
  /\ Count(w, "applyFailed")
  /\ Goto(w, "release")
  /\ UNCHANGED <<mainVars, cur, delta, budgetVars, ctxVars, apiVars,
                 cap, slots, metricsOK>>

ApplySend(w) ==
  /\ pc[w] = "apply"
  /\ cap = "Supported" /\ ~cancelled
  /\ Goto(w, "sent")
  /\ UNCHANGED <<mainVars, cur, delta, outcome, budgetVars, ctxVars, apiVars,
                 cap, slots, metricsOK>>

\* UpdateResize, first attempt or retry, succeeds.
ApplyOK(w) ==
  /\ pc[w] \in {"sent", "resent"}
  /\ live' = live \cup {cur[w]}
  /\ Goto(w, "commit")
  /\ UNCHANGED <<mainVars, cur, delta, outcome, budgetVars, ctxVars, noted,
                 cap, slots, metricsOK>>

ApplyConflict(w) ==
  /\ pc[w] = "sent"
  /\ Goto(w, "conflict")
  /\ UNCHANGED <<mainVars, cur, delta, outcome, budgetVars, ctxVars, apiVars,
                 cap, slots, metricsOK>>

\* A timeout or any other error.  The answer may be lost after the API
\* server has applied the resize (effect).
ApplyError(w, effect) ==
  /\ pc[w] = "sent"
  /\ Count(w, "applyFailed")
  /\ live' = live \cup (IF effect THEN {cur[w]} ELSE {})
  /\ Goto(w, "release")
  /\ UNCHANGED <<mainVars, cur, delta, budgetVars, ctxVars, noted,
                 cap, slots, metricsOK>>

\* UnsupportedError or ForbiddenError: the first one marks the Prober,
\* sets stopAll and cancels the run.
ApplyFatal(w) ==
  /\ pc[w] = "sent"
  /\ Count(w, "applyFailed")
  /\ fatal' = TRUE
  /\ cancelled' = (cancelled \/ ~fatal)
  /\ Goto(w, "release")
  /\ UNCHANGED <<mainVars, cur, delta, budgetVars, stopped, apiVars,
                 cap, slots, metricsOK>>

\* getFreshPod reads with runCtx; the retry carries the fresh version.
Refetch(w) ==
  /\ pc[w] = "conflict"
  /\ ~cancelled
  /\ Goto(w, "resent")
  /\ UNCHANGED <<mainVars, cur, delta, outcome, budgetVars, ctxVars, apiVars,
                 cap, slots, metricsOK>>

\* Mutant: no return after the failed retry, applyOK is reached.
ConflictFallsThrough(w, effect) ==
  /\ \/ pc[w] = "conflict" /\ ~effect
     \/ pc[w] = "resent"
  /\ Count(w, "conflict")
  /\ live' = live \cup (IF effect THEN {cur[w]} ELSE {})
  /\ Goto(w, "commit")
  /\ UNCHANGED <<mainVars, cur, delta, budgetVars, ctxVars, noted,
                 cap, slots, metricsOK>>

\* Mutant: a conflict of the retry is retried without a limit.
ConflictRetried(w, effect) ==
  /\ ~effect
  /\ \/ pc[w] = "resent" /\ Goto(w, "conflict") /\ UNCHANGED outcome
     \/ pc[w] = "conflict" /\ cancelled /\ Count(w, "conflict")
          /\ Goto(w, "release")
  /\ UNCHANGED <<mainVars, cur, delta, budgetVars, ctxVars, apiVars,
                 cap, slots, metricsOK>>

\* The read fails, or the retry fails with any error.
ConflictSkip(w, effect) ==
  /\ \/ pc[w] = "conflict" /\ ~effect
     \/ pc[w] = "resent"
  /\ Count(w, "conflict")
  /\ live' = live \cup (IF effect THEN {cur[w]} ELSE {})
  /\ Goto(w, "release")
  /\ UNCHANGED <<mainVars, cur, delta, budgetVars, ctxVars, noted,
                 cap, slots, metricsOK>>

\* Mutant: the committed amount stays reserved.
CommitKeepsReservation(w) ==
  /\ pc[w] = "commit"
  /\ committed' = Plus(committed, delta[cur[w]])
  /\ Count(w, "resized")
  /\ Goto(w, "annotate")
  /\ UNCHANGED <<mainVars, cur, delta, reserved, ctxVars, apiVars,
                 cap, slots, metricsOK>>

\* commitBudget, applied = true, podsResized++.
Commit(w) ==
  /\ pc[w] = "commit"
  /\ reserved' = Minus(reserved, delta[cur[w]])
  /\ committed' = Plus(committed, delta[cur[w]])
  /\ Count(w, "resized")
  /\ Goto(w, "annotate")
  /\ UNCHANGED <<mainVars, cur, delta, ctxVars, apiVars,
                 cap, slots, metricsOK>>

\* Mutant: applied is never set, the deferred function frees the slot.
AnnotateFreesSlot(w, ok) ==
  /\ pc[w] = "annotate"
  /\ cancelled => ~ok
  /\ noted' = noted \cup (IF ok THEN {cur[w]} ELSE {})
  /\ Goto(w, "freeSlot")
  /\ UNCHANGED <<mainVars, cur, delta, outcome, budgetVars, ctxVars, live,
                 cap, slots, metricsOK>>

\* patchPodAnnotations uses runCtx; its error is only logged.
Annotate(w, ok) ==
  /\ pc[w] = "annotate"
  /\ cancelled => ~ok
  /\ noted' = noted \cup (IF ok THEN {cur[w]} ELSE {})
  /\ Goto(w, "recv")
  /\ UNCHANGED <<mainVars, cur, delta, outcome, budgetVars, ctxVars, live,
                 cap, slots, metricsOK>>

\* The deferred calls of a processOne that did not apply: releaseBudget ...
ReleaseBudget(w) ==
  /\ pc[w] = "release"
  /\ reserved' = Minus(reserved, delta[cur[w]])
  /\ Goto(w, "freeSlot")
  /\ UNCHANGED <<mainVars, cur, delta, outcome, committed, ctxVars, apiVars,
                 cap, slots, metricsOK>>

\* ... and the slot put back.
FreeSlot(w) ==
  /\ pc[w] = "freeSlot"
  /\ slots' = slots + 1
  /\ Goto(w, "recv")
  /\ UNCHANGED <<mainVars, cur, delta, outcome, budgetVars, ctxVars, apiVars,
                 cap, metricsOK>>

-----------------------------------------------------------------------------
MainStep ==
  \/ ListPodsFailed
  \/ \E C \in SUBSET Pods : ListPods(C)
  \/ \E answer \in {"error", "listed"} : ListPodMetrics(answer)
  \/ \E w \in Workers, p \in Pods : Enqueue(w, p)
  \/ CloseQueue
  \/ WaitWorkers
  \/ Summary

WorkerStep(w) ==
  \/ CheckContext(w)
  \/ TakeSlot(w)
  \/ NoSlot(w)
  \/ MetricsError(w)
  \/ MetricsNotFound(w)
  \/ MetricsFound(w)
  \/ \E o \in {"qos", "computeError", "noChange"} : ComputeSkips(w, o)
  \/ \E d \in Deltas : ComputeChanges(w, d)
  \/ Pending(w)
  \/ Stable(w)
  \/ Reserve(w)
  \/ BudgetSkip(w)
  \/ ApplyNotSent(w)
  \/ ApplySend(w)
  \/ ApplyOK(w)
  \/ ApplyConflict(w)
  \/ \E effect \in BOOLEAN : ApplyError(w, effect)
  \/ ApplyFatal(w)
  \/ Refetch(w)
  \/ \E effect \in BOOLEAN : ConflictSkip(w, effect)
  \/ Commit(w)
  \/ \E ok \in BOOLEAN : Annotate(w, ok)
  \/ ReleaseBudget(w)
  \/ FreeSlot(w)

\* Reconcile has returned.
Terminated == main = "done" /\ UNCHANGED vars

Next ==
  \/ MainStep
  \/ \E w \in Workers : WorkerStep(w)
  \/ Shutdown
  \/ Terminated

Spec == Init /\ [][Next]_vars

(***************************************************************************)
(* A goroutine that can run does run, and every request is answered or     *)
(* fails: metricsTimeout, resizeTimeout and patchTimeout bound them (the   *)
(* read of getFreshPod is bounded by the client's connection only).        *)
(* Shutdown is never obliged to happen.                                    *)
(***************************************************************************)
FairSpec == Spec /\ WF_vars(MainStep)
                 /\ \A w \in Workers : WF_vars(WorkerStep(w))

-----------------------------------------------------------------------------
(* Properties.                                                             *)

Resized == Counted("resized")

\* The labels at which a worker owns a slot token, and a budget reservation.
SlotLabels == {"metrics", "compute", "stabilize", "reserve", "apply", "sent",
               "conflict", "resent", "commit", "release", "freeSlot"}
BudgetLabels == {"apply", "sent", "conflict", "resent", "commit", "release"}

SlotHolders == {w \in Workers : pc[w] \in SlotLabels}
Held(w, r) == IF pc[w] \in BudgetLabels THEN delta[cur[w]][r] ELSE 0

\* Every variable keeps its type; outside the labels of the code no worker
\* is ever found.
TypeOK ==
  /\ main \in {"list", "metrics", "enqueue", "wait", "summary", "done"}
  /\ candidates \in SUBSET Pods /\ todo \in SUBSET candidates
  /\ metrics \in {"none", "error", "listed"}
  /\ cap \in {"Supported", "Unknown"}
  /\ stopped \in BOOLEAN /\ cancelled \in BOOLEAN /\ fatal \in BOOLEAN
  /\ pc \in [Workers -> Labels]
  /\ cur \in [Workers -> Pods \cup {NoPod}]
  /\ delta \in [Pods -> Deltas \cup {Zero}]
  /\ slots \in Nat
  /\ reserved \in [Resources -> Int] /\ committed \in [Resources -> Int]
  /\ outcome \in [Pods -> Outcomes]
  /\ live \in SUBSET Pods /\ noted \in SUBSET Pods
  /\ metricsOK \in BOOLEAN
  /\ condition \in {"none", "OK", "Unavailable", "PodMetricsNotReady",
                    "NoEligiblePods"}

\* maxPodsPerRun: on every return path of processOne the slot is either put
\* back or spent on a resized pod, so tokens are neither lost nor duplicated
\* and no more than maxPodsPerRun pods are resized in a run.
SlotsConserved ==
  slots + Cardinality(SlotHolders) + Cardinality(Resized) = MaxPods

\* A pod is turned away for maxPodsPerRun only once some pod has been resized
\* and fewer than maxConcurrentPods resizes are left: the clamp of the worker
\* count keeps slots merely held by other workers from exhausting the run.
SkipImpliesProgress ==
  (\E p \in Pods : outcome[p] = "maxPods") =>
    /\ Cardinality(Resized) >= 1
    /\ MaxPods - Cardinality(Resized) < MaxConcurrentPods

\* maxTotalCPUIncrease and maxTotalMemoryIncrease: what the run has committed
\* never exceeds them, whatever reservations are in flight.
BudgetRespected ==
  \A r \in Resources : MaxIncrease[r] > 0 => committed[r] <= MaxIncrease[r]

\* A pod's turn ends once, and in one way: through conflict, retry and success
\* it is counted by one counter, or by none if its computation failed, ...
CountedOnce ==
  [][\A p \in Pods : outcome[p] # "none" => outcome'[p] = outcome[p]]_vars

\* ... and a run that was not cancelled gives every candidate its turn: handing
\* pods over an unbuffered channel and waiting for the workers loses none.
NoneLeftOut ==
  main = "done" /\ ~cancelled => \A p \in candidates : outcome[p] # "none"

\* The MetricsAvailable condition tells the truth of a run that was not shut
\* down: NoEligiblePods if there was no candidate, Unavailable if the metrics
\* list failed, although both are concluded from the workers' counters only.
ConditionTruthful ==
  main = "done" /\ ~stopped =>
    /\ condition = "NoEligiblePods" <=> candidates = {}
    /\ condition = "Unavailable" <=> metrics = "error"

\* Reconcile returns: the queue is closed and every worker leaves its loop,
\* also when runCtx is cancelled while pods are still to be handed over.
Termination == <>(main = "done")

Phase == [list |-> 1, metrics |-> 2, enqueue |-> 3, wait |-> 4,
          summary |-> 5, done |-> 6]

\* The labels in an order that processOne only follows forward; "recv" is where
\* a worker arrives when it is done with its pod.
Position == [check |-> 1, slot |-> 2, metrics |-> 3, compute |-> 4,
             stabilize |-> 5, reserve |-> 6, apply |-> 7, sent |-> 8,
             conflict |-> 9, resent |-> 10, commit |-> 11, annotate |-> 12,
             release |-> 13, freeSlot |-> 14, recv |-> 15]

\* The variant of Termination, compared lexicographically: every step takes the
\* run to a later phase, is the one shutdown, takes a pod off the queue, or
\* moves a worker forward and none back.  So a run takes finitely many steps,
\* whatever conflicts, retries, skips and failures it meets.
MovesForward ==
  [][\/ Phase[main'] > Phase[main]
     \/ main' = main /\ ~stopped /\ stopped'
     \/ /\ main' = main /\ stopped' = stopped
        /\ \/ todo' \subseteq todo /\ todo' # todo
           \/ /\ todo' = todo
              /\ \A w \in Workers : Position[pc[w]] <= Position[pc'[w]]
              /\ \E w \in Workers : Position[pc[w]] < Position[pc'[w]]]_vars

RC == INSTANCE RunContract
        WITH resized <- Resized, total <- committed,
             finished <- (main = "done")

\* The run implements its contract: every step of the worker pool is one
\* resize of a new pod within maxPodsPerRun and the budget, the end of the
\* run, or nothing the contract sees.
ImplementsContract == RC!Spec

=============================================================================
