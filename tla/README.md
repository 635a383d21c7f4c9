# Verification of resize-operator

The resize-operator watches `InPlacePodResize` policies.  For each policy it
periodically lists the pods the policy selects, reads their usage from
`metrics.k8s.io`, computes new requests (and sometimes limits), and applies
them through the `pods/resize` subresource.  It is one Go process built on
controller-runtime; what it remembers of a pod lives in the pod's annotations.

This directory models its logic in TLA+, checks the models with TLC on small
instances and proves their safety properties with TLAPS for every instance.
`PROJECT.json` lists components, runs, mutants, the map from definitions to
source lines, findings, hazards and theorems.

    tlc -workers 2 -config MCReconcileRun.cfg MCReconcileRun    # any run
    tlapm ReconcileRunProofs.tla                                # the proofs

## Inventory

| Component | Source | State | Operations |
|---|---|---|---|
| Controller loop | `internal/controller/inplacepodresize_controller.go`, `Reconcile` (first part and its deferred patch), `SetupWithManager` | work queue, delayed requeue, informer cache, status of the policy | watch event, reconcile, status patch, requeue |
| Reconcile run | same file, `Reconcile` from the pod list on, `processOne` | worker goroutines, `workCh`, `slots`, `runCtx`, counters, conditions | list, hand a pod over, evaluate, apply, retry, annotate, summarise |
| Budget manager | same file, `budgetManager` | `reserved`, `committed` | `tryReserveBudget`, `releaseBudget`, `commitBudget` |
| Pod annotations | same file, `shouldSkipByCooldown`, `stabilizationAllows`, `ensurePending`, the patch after a resize; `types.go` | `last-resize-time`, `last-applied-hash`, `pending-hash`, `pending-since` | skip by cooldown, mark pending, allow, record |
| Policy computation | `internal/policy/policy.go` | none (pure) | `ComputeDesired` and its helpers |
| Capability prober | `internal/resize/resize.go`, `Prober` | the last capability and when it was found out, shared by all policies | `Supported`, `Mark` |
| Resize client | `internal/resize/resize.go`, `UpdateResize` | none | one request, its error classified |
| Namespace selector | `internal/nsselector/nsselector.go` | compiled patterns | `Compile`, `Match` |
| Metrics client | `internal/metrics/metrics.go` | none | one list call |
| Observability | `internal/observability/metrics.go` | Prometheus counters and gauges | write only |
| API types, entry point, chart | `api/`, `cmd/main.go`, `charts/` | none of their own | |

**Interactions.**  The watch and the delayed requeue put a policy's key in the
work queue; one worker of the controller runs `Reconcile` for it.  `Reconcile`
asks the prober, compiles the selectors, lists pods from the informer cache and
pod metrics from the API, and starts at most
`min(maxConcurrentPods, maxPodsPerRun)` goroutines.  They share the `slots`
channel, the budget manager, the counters (under mutexes) and `runCtx`, which a
failed metrics list, a fatal resize error or the shutdown of the manager
cancels.  Each goroutine reads and writes the API server: `pods/resize` with
the resourceVersion of its copy, then the annotations with a merge patch.

One worker of the controller reconciles all policies one after the other; they
meet in the prober, which one policy's refused resize marks for all, and in the
annotations of a pod that several of them select, which do not say who wrote
them.

**What is hard.**  Workers race for slots and budget and give them back on
many return paths; cancellation races the hand-over of pods; the answer to a
resize may be lost after it took effect; the annotations that drive cooldown
and stabilization are read from a cache and written by a second request that
may fail; a spec may change while it is being reconciled; `RequeueAfter` is the
interval less the time the run took; rounding, thresholds, bounds, clamping to
limits and preserving the QoS class follow each other and may undo each other;
the capability is cached for a time that each policy chooses for itself, while
the cluster changes.
The list under `hazards` in `PROJECT.json` places each at its line.

**What makes each component correct.**

* Controller loop: every spec change is reconciled, a policy is reconciled
  again and again, the status names the generation it speaks of.
* Reconcile run: at most `maxPodsPerRun` pods are resized, no candidate is lost
  or counted twice, the run ends, its conditions are true.
* Budget manager: what is applied stays within `maxTotalCPUIncrease` and
  `maxTotalMemoryIncrease` whatever is in flight.
* Pod annotations: resizes of a pod are a cooldown apart, a target is applied
  only after it has been stable for the window, and it is applied eventually.
* Policy computation: QoS class, bounds and limits hold after a resize, a
  raised request covers the usage, a pod under a constant usage settles.
* Capability prober: it is marked by a real refusal only, the run that met it
  stops sending and no later run starts to, and every policy finds the
  capability again when the cluster has it.
* Resize client: a missing pod, a missing subresource, a refusal and a conflict
  are told apart.
* Namespace selector: exactly the pods that the lists and the pod selector mean.
* Observability: the gauges say what the conditions say, except after a status
  patch that failed or was made from an outdated copy, and again afterwards.

## Modules

| Module | Models | Used by |
|---|---|---|
| `RunContract` | what a reconcile run promises: distinct pods, one at a time, within `MaxPods` and the budget | `ReconcileRun` |
| `ReconcileRun` | one run: the goroutine of `Reconcile` and the workers | `MCReconcileRun`, `ReconcileRunProofs` |
| `ReconcileRunProofs` | theorems about `ReconcileRun`: types, slots, budget, counters, the contract, the variant of termination | `ConditionProofs`, `BooksProofs` |
| `ConditionProofs` | theorems about the condition a run reports | |
| `BooksProofs` | the theorem that the budget manager's sums are right | |
| `ControllerLoop` | one policy: events, queue, early returns, status, time, crashes | `MCControllerLoop`, `ControllerLoopProofs` |
| `PodLifecycle` | one pod over many reconciles of several policies: annotations, cache, conflicts, recreation, faults | `MCPodLifecycle`, `PodLifecycleProofs` |
| `Policy` | `ComputeDesired`, applied again and again to one pod | `MCPolicy`, `PolicyProofs` |
| `Selection` | operators: namespace selector, refused selectors, pod selector, eligibility | `Fleet` |
| `Prober` | the shared capability with its TTL, and what `UpdateResize` makes of an answer | `Fleet` |
| `Fleet` | the composition: all policies, one prober, a changing cluster, outdated copies, capability gauges and conditions | `MCFleet`, `FleetProofs` |
| `ControllerLoopProofs`, `PodLifecycleProofs`, `PolicyProofs`, `FleetProofs` | theorems about the module they are named after | `PolicyProofs`: `SettlingProofs` |
| `SettlingProofs` | theorems about repeated `ComputeDesired` without `allowDownscale` | |

The modules abstract each other where they meet.  In `ReconcileRun` the results
of `ComputeDesired` and `stabilizationAllows` are arbitrary (any member of
`Deltas`, or none), so its theorems hold whatever `Policy` and `PodLifecycle`
decide.  In `PodLifecycle` the other pods of a run show up as `SkipPod` (no
slot, no budget, no metrics), and `ComputeDesired` as any level.  In
`ControllerLoop` a run takes time and reports.  In `Fleet` a worker sends a
resize or leaves the pod alone, and every policy is due again with each tick,
which `ControllerLoop` shows for runs shorter than the interval.

### ReconcileRun

`main` is the program counter of the goroutine that called `Reconcile`, `pc`
those of the workers.  A label stands before each point where another goroutine
can interfere: the receive from `workCh`, the test of `runCtx`, the slot, the
critical sections of the budget mutex, and between sending a request and its
answer.  `Enqueue` is the rendezvous on the unbuffered channel; the `select`
may choose it even after `runCtx` is done.  The pod counters are one function,
`outcome`, from a pod to how its turn ended; so "counted twice" is a change of a
value, not a number.  Each end has a counter of its own in the code, except for
a computation that failed (`computeError`), which is only logged and which the
model tells apart nevertheless.  `live` is what the API server knows and the
operator may not: `ApplyError` and `ConflictSkip` may have taken effect.  The
deferred calls of `processOne` (give back budget, then slot) are the steps
`ReleaseBudget` and `FreeSlot`.  `Shutdown` cancels the context at any time.

Left out: log lines, events, Prometheus metrics, and the order of candidates
(the code's order is the list's; here any pod may be next).

### ControllerLoop

`server` and `cache` are the policy on the API server and in the informer
cache; `specs` grows by the kind of spec each update brings, one kind per early
return.  What a reconcile needs of time is `elapsed`, up to the point where the
code measures it.  `WatchEvent` brings the cache up to date and enqueues the
key if the predicate lets the change pass.  `queued`, `dirty` and `timer` are
the work queue of controller-runtime (external, modelled from how the code uses
it): one worker per key, adds during processing are kept, `RequeueAfter` 0
forgets the key.  `Patched` is the JSON merge patch of `client.MergeFrom`: it
carries what differs from the copy that was read, and `conditions` as a whole.

### PodLifecycle

A timestamp is modelled by its age in ticks, which stops growing at `MaxAge`, a
bound no cooldown or window exceeds; with it the model is finite without a
clock.  `pod` is the copy a run
works on, `outdated` says that its resourceVersion is no longer the server's,
so that the resize meets a conflict.  `Conflict` re-reads the version and keeps
the decision, as the code does.  `by` is the policy that is being reconciled;
each has its own cooldown and window and reads the annotations the others
wrote.  What `ComputeDesired` asks for is chosen freely at each evaluation.
`Recreate` replaces the pod by a new one of the same name without annotations.
Faults are bounded and chosen by kind: a patch that fails (`patch`), a resize
whose answer is lost (`lost`), a crash (`crash`), a list from a lagging cache
(`stale`).  `resized`, `streak` and `asked` are history variables for the
properties.

### Policy

The arithmetic of the source with its names, over an abstract unit and a step
of that unit, for both resources at once.  A resource that a list does not hold
is `Unset`, which `podQoSClass` distinguishes from zero and the rest does not.
`Applies` is what the controller adds: it goes on only if the sum of the deltas
is not zero, and the API server refuses a request above its limit.  `visited`
is history: the resources the pod had since the usage last changed.

### Selection and Prober

A pattern stands for the set of namespaces it matches as a glob and as a
regexp, and may be malformed as either; what the code does with it (the
defaults of `Compile`, the error it reports for a regexp and drops for a glob,
exclude after include, the order of the refusals) is translated.  `Prober` has
one variable, `cap`: the reason of the cached capability, which determines its
state, and its age in ticks.  An answer of the API server is its code and
details; `isUnsupportedResizeErr` and `UpdateResize` classify it.

### Fleet

`due` is the work queue over the policies, `cur` the one that is being
reconciled.  `CheckWith` is `Reconcile` up to the pod list: it asks the prober
with the policy's own TTL, writes the gauges, sets the condition in memory
(`cond`), and goes on to the list or straight to the status patch.  Of the pods
of a run, `todo` wait for a worker, `sent` and `resent` have a resize on its way,
for the first time or, after a conflict, again, and `refused` belong to workers
in `fatalOnce`.  The API server answers by what it finds when the request
arrives, so a pod may have vanished, admission may have changed or the server
may have been rolled back since the list.

`fatalOnce` takes three steps, which `fatal` counts: `RefusedFatal` marks the
prober, `ReportRefused` writes gauge and condition, `CancelRun` cancels `runCtx`.
In between the other workers go on; only the last step stops them.  A second
refusal waits for the first (`RefusedAgain`).  `AnsweredAgain` ends a pod's turn
with any second answer, be it a refusal.

Policies and pods come from informer caches.  `supports` (of each policy the
condition that `Reconcile` reports) and `lives` (the pods) are sequences of
versions: the last one is the API server's, the first the one that was read
last.  A reconcile reads any of them and drops those before it, so that a cache
may be behind but never goes back; no copy of a policy is more than `MaxLag` versions
behind, since a write then drops the oldest one.  Nothing remembers when a version was
delivered, since nothing acts on it.  `PatchStatus` is the merge patch between
the copy that was read (`read`) and the one in memory: `conditions` is one list
and goes as a whole, if anything in it differs.  If nothing differs from an
outdated copy, the API server keeps what it has; if the patch fails
(`PatchStatusFails`), too.  `missed` is history: the policies whose last patch
was one of these two.  `calm` is history as well: the ticks since something last
spoke against the capability.

## Runs

Deadlock is checked in all of them; a state in which the system may really stop
has an explicit `Terminated` step.

| Run | Shows |
|---|---|
| `reconcile_run` | Two workers, three pods, a cpu budget of 3, memory without a budget, with lost answers, conflicts, fatal errors, failed lists, cancellation and shutdown: `SlotsConserved`, `SkipImpliesProgress`, `BudgetRespected`, `BooksBalance`, `CountedOnce`, `NoneLeftOut`, `ConditionTruthful`, `MovesForward` (no step leaves the run as far from its end as it was), and `ImplementsContract` (refinement of `RunContract`). |
| `reconcile_run_live` | `Termination`: `Reconcile` returns in every case. |
| `budget_both_ways` | *Violation* of `BudgetAtEnd` when increases and decreases meet in one run. |
| `controller_loop` | Three generations of three kinds, runs shorter and longer than the interval, one fault: `StatusHonest`, `StatusMovesForward`, `NoLostUpdate`, and, in the behaviours whose runs are all short, `NeverForgotten`, `RunsAgainIfShort` and `StatusCatchesUp`. |
| `controller_loop_slow` | *Violation* of `RunsAgain` when a run may take as long as the interval. |
| `pod_lifecycle` | Two policies, three levels, two faults of any kind, one foreign write or recreation: `CooldownWithoutFaults`, `NoOtherTarget`, `NeverOnFirstSight`, `NeverBlocked`. |
| `pod_lifecycle_live` | Two policies, three levels, no fault and no foreign write: `Converges`. |
| `target_stable` | *Violation* of `TargetStable`, without any fault. |
| `policy` | Two containers and an init container, 16 policies (both limits modes, memory only or both resources, with and without minimum and `allowDownscale`): `QoSKept`, `WithinBounds`, `RaisedCoversTarget`, `NeverRefused`, `UpOnlySettles`, `UpOnlyTwice`. |
| `policy_thrash` | *Violation* of `NoThrash` with `allowDownscale`. |
| `fleet` | Two policies with TTLs of 1 and 2 in six starts, one change of the cluster, one fault (discovery, list or status patch fails, restart), caches up to a version behind: `MarkJustified`, `NoBlindRetry`, `RecoversInTime`, `SelectsExactly`, `ReportsAgree`, `ReportsSettle`, `Recovers`. |
| `fleet_starved` | *Violation* of `NotStarved`: no fault and no change, one pod that admission refuses. |

**Bounds and why they are enough.**  Three pods for two slots: some pod is
turned away, or gets a slot another has put back.  Two workers are the fewest
that race; `maxConcurrentPods` is 4, so the clamp matters.  With a cpu budget
of 3 and deltas of 1 and 2 some pairs of pods fit and others do not. The proofs
remove these bounds.  In `ControllerLoop` three generations allow a spec to
change twice during one reconcile; an interval of 1 with runs of up to 2 ticks
covers below, at and above.  In `PodLifecycle` three levels are the current
one, the target and another; one policy has a cooldown longer than its window
(otherwise the window alone would keep it), the other the reverse; two faults
can hit the resize and its annotation separately.  In `Fleet` two TTLs are
needed for one policy to renew what the other waits for, and two pods in flight
for a resize that is sent, retried or answered between the mark and the cancel
of a refusal of the other.  One change of the cluster is enough for a pod that
vanishes, a rollback or an upgrade, because the six starts differ in what the
API server offers and refuses at first; between them they also have each refusal
of a selector, both syntaxes, malformed patterns, overlapping and disjoint
policies and a disabled one.  A copy that is one version behind (`MaxLag`) is
enough to hide a change from the status patch, and one fault to lose it; a
status patch may be the fault.  In `Policy` a step is 2 units so
that amounts lie on and off a step; six shapes of container cover no, equal,
larger and off-step limits and no resources at all; the maximum of 5 lies off a
step.  One usage needs two resizes when the limits let `forceBurstable` lower a
request which the next run raises again below its limit; a memory limit of 5
over a request of 2 makes that happen.  Symmetry over pods is used for invariants and action properties only,
never for liveness.

**Fairness.**  `ReconcileRun`: weak fairness of the main goroutine and of each
worker: the Go scheduler runs what can run, and `metricsTimeout`,
`resizeTimeout` and `patchTimeout` end every request but the read of
`getFreshPod`, which ends with the client's connection.  `Shutdown` is never
obliged to happen.  `ControllerLoop`: the watch delivers, the queue's worker
runs, time passes, the Deployment restarts a crashed operator; users and faults
have no fairness.  `PodLifecycle`: the same for the cache and time; runs repeat
(which is `RunsAgainIfShort`); strong fairness of the evaluation says that a
pod which is listed again and again is not passed over for slots, budget or
metrics for ever.  `Fleet`: time passes, a run goes on, and each policy's turn
comes with a copy that is up to date (strong fairness, because the work queue is
first in, first out, and the watch delivers: a copy may be behind, but not at
each and every turn); changes of the cluster and faults have no fairness.  For `PodLifecycle` the code does
not guarantee the turn of a pod when more pods than `maxPodsPerRun` want a
resize on every run; `Converges` is stated for a pod that gets its turn.

## What the violations show

* `budget_both_ways`: `tryReserveBudget` counts a decrease in flight as room.
  If that decrease fails, the run ends above the budget.
* `controller_loop_slow`: a run as long as the interval returns
  `RequeueAfter: 0`, which controller-runtime takes for "done".  Status patches
  do not pass the predicate, so the policy sleeps until its spec changes or the
  operator restarts.
* `target_stable`: an evaluation that wants no change leaves the pending hash,
  so a target that came, went and came back counts as stable all the time.
* `policy_thrash`: on the way down the target is rounded down, below usage plus
  headroom, and the next run rounds it up again.
* `fleet_starved`: admission refuses a pod of the policy with the short TTL.
  Each of its runs finds the capability, is refused and marks the prober anew;
  the policy with the long TTL always reads a mark younger than its TTL, returns
  early, and never resizes its own pods, none of which is refused.

Behaviour that is part of the models and that a reader should know of, although
no run is about it:

* A resize whose answer is lost gives its budget back, so the increases in
  effect may exceed the budget by it (`ApplyError` with `effect`).
* A failed annotation patch is not repeated: the cooldown is not kept, and the
  old `last-applied-hash` may block the way back to the target it names
  (`Annotate` with a `patch` fault; `CooldownWithoutFaults` and `Converges`
  exclude it).  A foreign write has the second effect too.
* A decision made on a copy from a lagging cache meets a conflict; only the
  resourceVersion and the UID are read again, so the resize may happen within
  the cooldown the fresh copy shows, and a pod recreated under the same name
  gets the resources computed for the old one (`Conflict`; for
  `CooldownWithoutFaults` a lagging list is a fault).
* Two policies that want different levels for one pod replace each other's
  pending hash at every turn; with windows longer than the interval neither
  target is ever applied (`Converges` is about policies that come to agree).
* A discovery that fails, or finds `pods/resize` without `update`, is cached as
  Unknown for the whole TTL; until then runs evaluate their pods, count each
  wanted resize as failed and send none (`Skip`).
* A 404 for a missing subresource that carries the details of the request is
  taken for a missing pod (`ServerAnswers`, `PodNotFound`): the capability is
  then not marked.
* A refusal in answer to the retry after a conflict, a 403, 404 or 405, is not
  looked at either: the pod counts as a conflict, the capability stays Supported
  and the run goes on sending until a first attempt is refused
  (`AnsweredAgain`).
* Between the mark of a refusal and the cancel of its run the other workers may
  still send resizes, for the first time or after a conflict: they look at
  `runCtx`, never at the prober (`NoBlindRetry` says that it is only these).
* The gauge is written at once, the condition by the status patch at the end.  A
  failed patch is logged and forgotten, and one that compares with an outdated
  copy may find nothing to write; then the gauge says Unsupported while the
  condition says Supported, or the reverse, until the next patch of that policy
  that is neither (`ReportsAgree`, `ReportsSettle`).
* A malformed glob matches nothing, without an error, also in an exclude list;
  regexps are not anchored, so `prod` also matches `nonprod`; an empty
  `podSelector: {}` satisfies the test for an unsafe configuration and selects
  every pod.
* A failed pod list ends the run like a list without candidates
  (`NoEligiblePods`).
* `InitPolicyMetrics` sets the capability gauge "unknown" at the start of every
  reconcile; a disabled policy returns before it is corrected, so two states
  are 1 at once (`GaugeInitialised`; `ReportsAgree` is about enabled policies).
* Not in the models, seen while reading: `AddBoundedNamespace` adds to the same
  counter as `AddBounded`, so `requests_bounded_total` grows twice; the
  directions of the delta totals are taken from the net delta of a namespace and
  run, so opposite changes cancel; the last-run gauges of a namespace are never
  reset, and `last_run_metrics_ok` is 0 also when no pod was asked for.
* Opposite changes of two containers with sum zero are never applied
  (`Applies`).
* `forceBurstable` lowers a request also without `allowDownscale`.
* Bounds apply to resources the policy does not manage, and are then not
  clamped to the limit (`NewRequest`), so the API server may refuse the resize.
* The README's "dry-run + apply" is a single request in the code.

## Proofs

Every safety property of a passing run is proved, type invariants, action
properties and the refinement included; the liveness properties are left to
TLC.  The theorems assume what the constants' modules assume: positive
`maxPodsPerRun`, integers for deltas, the ranges of the CRD, pods that the API
server accepted.  Some have a hypothesis of their own:

* `NonNegative` (budget, contract): no delta is negative, that is, nothing is
  downscaled.  `budget_both_ways` shows that it cannot be dropped.
* `AllWindows` (`NoOtherTarget`): every policy that may meet the pod has a
  stabilization window.  It cannot be dropped either.  The proof failed without
  it, and TLC gave the reason: a policy with window 0 writes no pending hash of
  its own; when its resize meets two conflicts, the pending hash of another
  policy stays behind and that policy goes on as if nobody had asked for
  anything else.
* `BoundsOrdered` (`WithinBounds`, `UpOnlySettles`, `UpOnlyTwice`): no minimum
  exceeds its maximum.  The schema
  does not demand it, and `applyBounds` compares the maximum with the amount
  from before the minimum was applied: with the two the wrong way round, an
  amount below the maximum is raised to the minimum, beyond the maximum, and
  the next run brings it back: TLC shows a pod that swings between the two for
  ever with a minimum of 3 and a maximum of 2, also without `allowDownscale`.

### ReconcileRunProofs, ConditionProofs

* `TypeCorrect`: `Spec => []TypeOK`.  `TypeOK` is not inductive: that `cur[w]`
  is a pod when it is needed rests on `Exclusive`, ownership of pods: a pod is
  in the queue, with exactly one worker, or done with, and it is not counted
  before its worker counts it.
* `SlotsCorrect`: tokens in the channel, workers that hold one and resized pods
  add up to `maxPodsPerRun`, and a pod is turned away only after progress.
  Inductive together with `TypeOK` and `Exclusive`; the step that needs
  ownership is `Commit`, where the set of resized pods must really grow.
  `SkipImpliesProgress` (`SkipCorrect`) follows from the clamp: fewer than
  `min(maxConcurrentPods, maxPodsPerRun)` *other* workers can hold a slot.
* `BudgetCorrect`: `committed` stays within the budget.  The invariant needed is
  that committed plus reserved is within it, and that reserved is at least what
  any worker holds.  The latter is a sum over workers; since induction over data
  is out of the prover's reach, `BudgetInv` says that a function of prefix sums
  exists, and `SumChanged` shows that changing one summand shifts its tail.
* `CountedOnceCorrect`, `NoneLeftOutCorrect`: from `Exclusive` and `Accounted`
  (a candidate off the queue is counted, with a worker, or the run is
  cancelled).
* `ContractImplemented`: under `NonNegative` every step is a step of
  `RunContract` or leaves its variables alone, with `resized` mapped to the pods
  counted as resized, `total` to `committed` and `finished` to `main = "done"`.
* `ConditionCorrect`: `Summary` concludes the condition from counters.  `Evidence`
  says what each counter, each label of a worker and the cancelled context prove
  about the metrics list.  With `Accounted` and `SlotInv` no wrong reason is
  left: a run that counted no metrics at all was stopped from outside, or every
  candidate was turned away, which takes a resized pod.

* `MovesForwardCorrect`: each step decreases a lexicographic variant (phase of
  the main goroutine, shutdown, queue, labels of the workers).  `WorkerOnward`
  shows that `processOne` only goes forward, through conflict and retry too.
  Since the variant cannot decrease for ever, `Termination` needs only that some
  step is possible until the run is done, which TLC's deadlock check covers, and
  that a possible step is taken, which is the fairness.

### BooksProofs

`BooksCorrect` (`BooksBalance`): reserved is the sum of what the workers hold,
committed the sum over the resized pods, with deltas of either sign.  The sums
are those of `MapThenSumSet`, a recursive function on the subsets of a set that
chooses the order itself.  Induction over the set would need a theorem with an
operator as parameter; instead the invariant (`BooksInv`) says that there is a
function which gives each subset its sum in whatever order its elements are
taken (`IsSumOn`).  There is one again after a step that changes a summand or
adds one (`SummandChanged`, `ElementAdded`), and the recursive function has its
values (`SumIsFold`, `FoldUnique`): the smallest subset on which two such functions differ
would have a smaller one.

### ControllerLoopProofs

* `TypeCorrect`, with `GenInv`: every copy names a generation there was.
* `NoLostUpdateCorrect`, from `WakeInv`: a generation in the cache that has not
  been read is queued, dirty or about to be read.  The property speaks of a
  cache that has caught up; the invariant must hold of a lagging one too.
* `StatusHonestCorrect`: a patch carries only what differs from the copy that
  was read, so what it leaves alone must already be right on the API server.
  `HonestInv` says that the copies are honest and that `observedGeneration` only
  grows from the copy through the cache to the server and never beyond the
  generation of the copy; `PatchedHonest` derives the honesty of the patched
  status from that order.  `StatusMovesForwardCorrect` follows from the same
  invariant: the status never goes back to an older generation.
* `NeverForgottenCorrect`: the safety half of `RunsAgainIfShort`.  `KeptInv`
  says what brings the next reconcile about at each point of the present one: a
  queued key, a timer, an event on the way, or the `RequeueAfter` about to be
  returned.  The hypothesis that reconciles are shorter than the interval is
  needed at one step, where `RequeueAfter` is computed; `controller_loop_slow`
  shows what happens without it.

### PodLifecycleProofs

* `NeverOnFirstSightCorrect`: whatever fails.  `AskedInv`: in every copy of the
  pod, however stale, a pending hash was asked for no later than the annotation
  says.
* `CooldownCorrect`: `CooldownInv` follows the last resize through the steps
  between the cooldown test and the annotation that records it; `CacheInv` says
  that the cache is behind only when it lags.
* `NoOtherTargetCorrect` (under `AllWindows`): `StreakInv`: the pending
  annotations of the server, and of a fresh copy, are the last change that any
  evaluation asked for.
* `NeverBlockedCorrect`: a safety half of `Converges`.  `HashInv`: the applied
  hash names the requests the pod has, except between the resize and its
  annotation, so it cannot block a change.  A failed annotation or a foreign
  write breaks it; the property is stated up to the first of either.

`MaxAge` is any number that no cooldown or window exceeds, so that ages which
stop growing there compare with cooldowns and windows as unbounded ones would.

### PolicyProofs

The lemmas follow a request through `ComputeDesired`: `DecidedCovers` (rounding
and decision, for any step), `RequestFacts` (bounds and clamp), `ContainerFacts`
(both resources, either limits mode, and the early return when nothing
changes), `EvaluatedFacts` (the loop), `ForceFacts` and `ForcedPromise`
(`forceBurstable` lowers at most one request, which equals its limit, and the
result still keeps bounds and limit), `DesiredFacts` (all of it).  That there is
a first request to lower rests on the well-foundedness of the numbers
(`FirstLowerable`).  The inductive invariant is `TypeOK /\ Valid(pod)`: a pod
the API server accepted stays one.  From it follow `NeverRefusedCorrect`,
`QoSKeptCorrect`, `WithinBoundsCorrect` and `RaisedCoversTargetCorrect`, with
any containers and amounts in place of the small ones of the run.

### SettlingProofs

Without `allowDownscale` and with ordered bounds a pod under a constant usage is
resized at most twice (`UpOnlyTwiceCorrect`) and never gets resources back that
it had (`UpOnlySettlesCorrect`).  The loop over the containers is idempotent
(`EvaluatedTwice`, from `DecidedUp`: the decision only raises, always to the same
amount, and who stays also stays with more; `HeldTwice` adds bounds and clamp).
Only `forceBurstable` undoes a part of it.  `RaisedToSame` shows that it cannot
be needed twice with different outcomes: it acts when the loop brought every
request to its limit, limits stay, so the second time the loop arrives at the
same pod.  `Settling` is the inductive invariant: the pod has not been resized
under this usage, or it was lowered by `forceBurstable` once, or the loop would
not change it any more.

### FleetProofs

`RunInv` says what a run under way has in common with the prober and the gauges:
its copy of the capability is not ahead of the prober's until the run marks it;
while the run is marked but not cancelled, some worker is in `fatalOnce`, so the
run cannot end in between; and the gauge shows what the status patch will
report.  `CalmInv` bounds the time since something last spoke against the
capability by the age of a capability that is not Supported.  The inductive
invariant is `TypeOK`, the two, and `ReportsAgree` itself, which no step of one
policy's reconcile breaks for another.  `SinceType`, `AppendType` and
`WrittenType` say what reading from a cache and writing to the API server do to
the versions, for any lag.

`NoBlindRetryCorrect` is about the two steps that put a resize on its way, which
need a run that is not cancelled, and the first part of `RunInv`.
`ReportsAgreeCorrect` is a part of the invariant; its hard cases are
`PatchPreserves` (if the condition differs from the copy that was read, it goes
with the patch, and otherwise it must be what the API server has, or the policy
is in `missed`) and a refusal in the middle of a run.  `RecoversInTimeCorrect`
follows from `CalmInv`; `MarkJustifiedCorrect` rests on `FatalAnswers` (which
answers `UpdateResize` takes for a refusal) and `SelectsExactlyCorrect` on
`MatchIsUnion` (the loops over the patterns decide membership in unions of
languages).

### Only model-checked

* Liveness: `Termination`, `RunsAgainIfShort`, `StatusCatchesUp`, `Converges`,
  `Recovers`, `ReportsSettle`.  Fairness and `ENABLED` are out of the prover's reach.  What of
  them is safety is proved: `MovesForward`, `NeverForgotten` and `NoLostUpdate`,
  `StatusMovesForward`, `NeverBlocked`, `RecoversInTime`, `ReportsAgree`.
* That no state blocks a run before it is done (deadlock freedom), for the same
  reason.
* The violations: each is a behaviour that TLC finds.

## Not modelled

* The Prometheus counters and last-run gauges: written, never read by the
  operator.  The capability gauges are in `Fleet`.
* Flags, client construction and health checks of `cmd/main.go`, chart,
  dashboard, generated deep copies: no logic of their own.
* How a glob or a regexp matches a name: the standard library's; a pattern is
  the set of names it matches.
* A policy that is deleted and created again under its name while it is being
  reconciled: the status patch carries no resourceVersion and would reach the
  new one.  `ControllerLoop` models one incarnation of a policy.
* The hash of a desired pod: taken to be injective.
* Overflow: amounts are `int64` milli-cpu and bytes, far from the limit.

## Plan

Done: `ReconcileRun` with its contract, `ControllerLoop`, `PodLifecycle` with
several policies, `Policy`, and `Fleet`, which composes `Selection` and `Prober`
for several policies; theorems for all safety properties of all of them.

What could follow, in this order:

1. `PodLifecycle`: the rest of the argument for `Converges`, that a pending
   target which stays the same only gets older until it is applied.
2. Incarnations of a policy in `ControllerLoop`.
3. A reason of its own for a failed pod list, once the code reports one.
