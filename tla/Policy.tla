------------------------------- MODULE Policy -------------------------------
(***************************************************************************)
(* policy.ComputeDesired and its repeated application to one pod: every    *)
(* reconcile computes the desired resources of the pod from its usage and, *)
(* unless the change is an error, empty or of zero total, resizes the pod. *)
(*                                                                         *)
(* Amounts are numbers of a unit per resource; Step is the rounding step   *)
(* in that unit (50m of cpu, 64Mi of memory).  A resource that is missing  *)
(* from a list is Unset: podQoSClass tells it from zero, the rest of the   *)
(* computation does not.  Counters for the metrics endpoint are left out.  *)
(***************************************************************************)
EXTENDS Integers, FiniteSetsExt

CONSTANTS
  Containers,  \* spec.containers, by position
  Inits,       \* spec.initContainers: they count for QoS and never change
  Step,        \* cpuStepMilli and memoryStepBytes
  Policies,    \* the specs that occur
  Pods,        \* the pods the operator may find
  Usages       \* what PodMetrics may report; NoMetrics for a container

Resources == {"cpu", "memory"}
Unset == -1
NoMetrics == [r \in Resources |-> Unset]
Amounts == Nat \cup {Unset}

\* The part of a spec that ComputeDesired reads, in the ranges of the CRD.
\* managed are the resources that resources.requests toggles on.
PolicySpecs ==
  [managed : SUBSET Resources, limitsMode : {"Unchanged", "EqualRequests"},
   headroom : 0..300, allowDown : BOOLEAN,
   up : 0..1000, down : 0..1000,
   min : [Resources -> Amounts], max : [Resources -> Amounts],
   minChange : [Resources -> Amounts]]

\* Requests and limits of every container of a pod.
PodResources ==
  [Containers \cup Inits -> [req : [Resources -> Amounts],
                             lim : [Resources -> Amounts]]]

\* quantityMilliOrZero and quantityBytesOrZero.
OrZero(q) == IF q = Unset THEN 0 ELSE q

\* The API server's validation of a pod: no request above its limit.
Valid(p) ==
  \A c \in Containers, r \in Resources :
    p[c].lim[r] # Unset => OrZero(p[c].req[r]) <= p[c].lim[r]

ASSUME PolicyAssumption ==
  /\ IsFiniteSet(Containers) /\ Containers \subseteq Nat
  /\ Inits \cap Containers = {}
  /\ Step \in [Resources -> Nat \ {0}]
  /\ Policies \subseteq PolicySpecs
  /\ Pods \subseteq PodResources /\ \A p \in Pods : Valid(p)
  /\ Usages \subseteq [Containers -> [Resources -> Amounts]]

VARIABLES
  policy,  \* the part of InPlacePodResizeSpec that ComputeDesired reads
  usage,   \* pm, by container
  pod,     \* the resources of the pod, by container
  visited  \* history: the values of pod since the usage last changed

vars == <<policy, usage, pod, visited>>

Init ==
  /\ policy \in Policies
  /\ usage \in Usages
  /\ pod \in Pods
  /\ visited = {pod}

-----------------------------------------------------------------------------
(* Arithmetic.                                                             *)

divCeil(n, d) == IF d = 0 THEN n ELSE (n + d - 1) \div d

\* Mutant: the division truncates.
roundUpTruncated(v, step) == (v \div step) * step

roundUp(v, step) == ((v + step - 1) \div step) * step
roundDown(v, step) == (v \div step) * step

\* quantizeMilliCPU and quantizeBytesMemory.
quantize(target, current, allowDown, step) ==
  IF target > current THEN roundUp(target, step)
  ELSE IF target < current /\ allowDown THEN roundDown(target, step)
  ELSE target

passesPercent(target, current, pct, up) ==
  \/ pct <= 0
  \/ current = 0 /\ up /\ target > 0
  \/ current # 0 /\ (IF up THEN target - current
                           ELSE current - target) * 100 >= current * pct

\* Mutant: the change is returned in place of the new value.
decideDistance(target, current, p, minChange) ==
  IF target > current \/ p.allowDown THEN target - current ELSE current

\* The value decided on; changed is "differs from current".
decide(target, current, p, minChange) ==
  LET up == target > current
      distance == IF up THEN target - current ELSE current - target
      worth == /\ up \/ p.allowDown
               /\ passesPercent(target, current, IF up THEN p.up ELSE p.down,
                                up)
               /\ distance >= minChange
  IN IF target # current /\ worth THEN target ELSE current

\* The maximum is looked at last, and at the amount before the minimum.
applyBounds(q, minQ, maxQ) ==
  IF maxQ # Unset /\ OrZero(q) > maxQ THEN maxQ
  ELSE IF minQ # Unset /\ OrZero(q) < minQ THEN minQ
  ELSE q

-----------------------------------------------------------------------------
(* Classes of service.                                                     *)

podQoSClass(p) ==
  LET all == Containers \cup Inits
      amounts(c) == {p[c].req[r] : r \in Resources}
                      \cup {p[c].lim[r] : r \in Resources}
  IN IF \A c \in all : Unset \notin amounts(c) /\ p[c].req = p[c].lim
     THEN "Guaranteed"
     ELSE IF \A c \in all : amounts(c) = {Unset} THEN "BestEffort"
     ELSE "Burstable"

\* Mutant: the minimum does not hold the lowered request.
ForcedIgnoringMin(s, lim, r) ==
  IF lim > Step[r] THEN lim - Step[r] ELSE 0

\* What forceBurstable lowers a request that equals its limit to.
Forced(s, lim, r) ==
  LET lowered == lim - Step[r]
  IN IF lowered < OrZero(s.min[r]) THEN OrZero(s.min[r]) ELSE lowered

\* The requests forceBurstable may lower, in the order in which it looks.
Lowerable(d, s) ==
  {a \in Containers \X s.managed :
     LET req == d[a[1]].req[a[2]]
         lim == d[a[1]].lim[a[2]]
     IN lim # Unset /\ req = lim /\ Forced(s, lim, a[2]) < lim}

Before(a, b) == \/ a[1] < b[1]
                \/ a[1] = b[1] /\ (a[2] = "cpu" \/ a[2] = b[2])

\* The first one is lowered, only that.
forceBurstable(d, s) ==
  IF Lowerable(d, s) = {} THEN d
  ELSE LET first == CHOOSE a \in Lowerable(d, s) :
                      \A b \in Lowerable(d, s) : Before(a, b)
           lim == d[first[1]].lim[first[2]]
       IN [d EXCEPT ![first[1]].req[first[2]] = Forced(s, lim, first[2])]

-----------------------------------------------------------------------------
(* ComputeDesired.                                                         *)

LimitsMode(p, s) ==
  IF podQoSClass(p) # "Guaranteed" THEN "Unchanged" ELSE s.limitsMode

\* Mutant: allowDownscale is taken for granted.
DecidedRequestDown(q, used, s, r) ==
  LET current == OrZero(q)
      raw == divCeil(OrZero(used) * (100 + s.headroom), 100)
      target == quantize(raw, current, TRUE, Step[r])
  IN decide(target, current, [s EXCEPT !.allowDown = TRUE], s.minChange[r])

\* Mutant: the headroom is added to the request, so that every run adds it.
DecidedRequestCompounds(q, used, s, r) ==
  LET current == OrZero(q)
      raw == divCeil(current * (100 + s.headroom), 100)
  IN decide(quantize(raw, current, s.allowDown, Step[r]), current, s,
            s.minChange[r])

DecidedRequest(q, used, s, r) ==
  LET current == OrZero(q)
      raw == divCeil(OrZero(used) * (100 + s.headroom), 100)
      target == quantize(raw, current, s.allowDown, Step[r])
      decided == decide(target, current, s, s.minChange[r])
  IN IF decided # current THEN decided ELSE q

\* Mutant: limits are not looked at.
ClampedIgnored(req, lim, managed) == req

\* limitsMode Unchanged: a managed request never exceeds its limit.
Clamped(req, lim, managed) ==
  IF managed /\ lim # Unset /\ req # Unset /\ req > lim THEN lim ELSE req

\* One resource of one container; the bounds also apply to a resource that is
\* not managed.
NewRequest(res, used, s, mode, r) ==
  LET managed == r \in s.managed
      decided == IF managed THEN DecidedRequest(res.req[r], used[r], s, r)
                            ELSE res.req[r]
      bounded == applyBounds(decided, s.min[r], s.max[r])
  IN IF mode = "Unchanged" THEN Clamped(bounded, res.lim[r], managed)
                           ELSE bounded

NewLimit(res, newReq, s, mode, r) ==
  IF mode = "EqualRequests" /\ r \in s.managed THEN newReq ELSE res.lim[r]

resourceListEqual(a, b) == \A r \in Resources : OrZero(a[r]) = OrZero(b[r])

NewResources(res, used, s, mode) ==
  LET req == [r \in Resources |-> NewRequest(res, used, s, mode, r)]
      lim == [r \in Resources |-> NewLimit(res, req[r], s, mode, r)]
      same == /\ resourceListEqual(res.req, req)
              /\ resourceListEqual(res.lim, lim)
  IN IF used = NoMetrics \/ same
     THEN res
     ELSE [req |-> req, lim |-> lim]

\* The pod after the loop over the containers.
Evaluated(p, u, s) ==
  [c \in Containers \cup Inits |->
     IF c \in Containers THEN NewResources(p[c], u[c], s, LimitsMode(p, s))
                         ELSE p[c]]

\* Mutant: the class is only compared before forceBurstable.
ComputeDesiredUnchecked(p, u, s) ==
  LET d == Evaluated(p, u, s)
  IN IF podQoSClass(p) = "Burstable" /\ podQoSClass(d) = "Guaranteed"
     THEN forceBurstable(d, s)
     ELSE d

\* res.Desired; on a QoSChangeError, and when nothing is managed, the pod as
\* it is.
ComputeDesired(p, u, s) ==
  LET d == Evaluated(p, u, s)
      forced == IF podQoSClass(p) = "Burstable"
                     /\ podQoSClass(d) = "Guaranteed"
                THEN forceBurstable(d, s) ELSE d
  IN IF s.managed = {} \/ podQoSClass(forced) # podQoSClass(p)
     THEN p ELSE forced

computeDeltaRequests(old, new) ==
  [r \in Resources |->
     MapThenSumSet(LAMBDA c : OrZero(new[c].req[r]) - OrZero(old[c].req[r]),
                   Containers)]

-----------------------------------------------------------------------------
(* The loop.                                                               *)

Desired == ComputeDesired(pod, usage, policy)

\* The reconcile goes on with d: it differs, its total delta is not zero, and
\* the API server accepts it.
Applies(d) ==
  LET delta == computeDeltaRequests(pod, d)
  IN d # pod /\ (\E r \in Resources : delta[r] # 0) /\ Valid(d)

\* A reconcile resizes the pod; cooldown, window and budget only delay it.  One
\* that leaves the pod as it is is a stuttering step.
Resize ==
  LET d == Desired
  IN /\ Applies(d)
     /\ pod' = d
     /\ visited' = visited \cup {d}
     /\ UNCHANGED <<policy, usage>>

UsageChanges(u) ==
  /\ usage' = u /\ u # usage
  /\ visited' = {pod}
  /\ UNCHANGED <<policy, pod>>

Next ==
  \/ Resize
  \/ \E u \in Usages : UsageChanges(u)

Spec == Init /\ [][Next]_vars

-----------------------------------------------------------------------------
(* Properties.                                                             *)

\* The pod keeps its shape and holds amounts only.
TypeOK ==
  /\ policy \in Policies /\ usage \in Usages
  /\ pod \in PodResources

\* A resize never changes the QoS class, which the API server would refuse,
\* whatever rounding, bounds, clamping and forceBurstable do together.
QoSKept == [][podQoSClass(pod') = podQoSClass(pod)]_pod

\* The measured containers and managed resources a resize looked at.
Managed(c, r) == usage[c] # NoMetrics /\ r \in policy.managed

\* Bounds: after a resize a managed request is at most the maximum, and at
\* least the minimum unless it was clamped to a limit below it.
WithinBounds ==
  [][\A c \in Containers, r \in Resources : Managed(c, r) =>
       LET req == OrZero(pod'[c].req[r])
           min == OrZero(policy.min[r])
       IN /\ policy.max[r] # Unset => req <= policy.max[r]
          /\ req >= min \/ req = pod[c].lim[r]]_pod

\* A resize that raises a managed request makes it cover usage plus headroom,
\* unless a bound, the limit or forceBurstable holds it back.
RaisedCoversTarget ==
  [][\A c \in Containers, r \in Resources :
       LET req == pod'[c].req[r]
           lim == pod[c].lim[r]
       IN Managed(c, r) /\ req > OrZero(pod[c].req[r]) =>
            \/ req * 100 >= usage[c][r] * (100 + policy.headroom)
            \/ req \in {policy.min[r], policy.max[r], lim, lim - Step[r]}
    ]_pod

\* Limits hold: under Unchanged no resize is ever refused for a request of a
\* managed resource above its limit.
NeverRefused ==
  LET d == Desired
  IN \A c \in Containers, r \in Resources :
       Managed(c, r) /\ d[c].lim[r] # Unset =>
         OrZero(d[c].req[r]) <= d[c].lim[r]

\* Anti-thrash: while the usage stays, a resize never brings back resources
\* that the pod had before, so a pod is not resized to and fro for ever.
NoThrash == [][pod' \notin visited]_pod

\* It holds of the policies without allowDownscale, although forceBurstable
\* and the maximum lower requests that the next run may want to raise again.
UpOnlySettles == [][~policy.allowDown => pod' \notin visited]_pod

\* They also resize the pod at most twice for one usage: the second time only
\* to raise again, below its limit, what forceBurstable lowered.
UpOnlyTwice == ~policy.allowDown => Cardinality(visited) <= 3

=============================================================================
