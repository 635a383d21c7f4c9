--------------------------- MODULE SettlingProofs ---------------------------
(***************************************************************************)
(* Without allowDownscale a pod under a constant usage settles             *)
(* (UpOnlySettles of Policy), after two resizes at most.                   *)
(*                                                                         *)
(* The loop over the containers is idempotent: what it computed once it    *)
(* leaves alone, as long as the class of the pod stays.  Only              *)
(* forceBurstable undoes a part of it; the loop may then raise the lowered *)
(* request once more, but not all the way to its limit, since that would   *)
(* be the Guaranteed pod again which forceBurstable lowered to this one.   *)
(***************************************************************************)
EXTENDS PolicyProofs, FiniteSetTheorems

-----------------------------------------------------------------------------
(* One request.                                                            *)

\* A raise that is not worth while from an amount is not from a higher one.
LEMMA WorthLess ==
  ASSUME NEW s \in PolicySpecs, NEW change \in Amounts,
         NEW a \in Nat, NEW b \in Nat, NEW target \in Nat,
         a <= b, b < target, decide(target, b, s, change) = target
  PROVE  decide(target, a, s, change) = target
<1> DEFINE Passes(x) == s.up <= 0 \/ x = 0 \/ (target - x) * 100 >= x * s.up
<1>1. s.up \in Nat /\ change \in Int
  BY DEF PolicySpecs, Amounts, Unset
<1>2. ASSUME NEW x \in Nat, x < target
      PROVE  decide(target, x, s, change) = target
               <=> Passes(x) /\ target - x >= change
  <2>1. target > x /\ target # x /\ target > 0
    BY <1>2
  <2>2. passesPercent(target, x, s.up, target > x) <=> Passes(x)
    BY <2>1 DEF passesPercent
  <2> HIDE DEF Passes
  <2> QED BY <2>1, <2>2 DEF decide
<1>3. target - b >= change /\ Passes(b)
  BY <1>2
<1>4. a < target /\ target - a >= change
  BY <1>1, <1>3
<1>5. Passes(a)
  <2>1. CASE s.up <= 0 \/ a = 0
    BY <2>1
  <2>2. CASE ~(s.up <= 0 \/ a = 0)
    <3>1. (target - b) * 100 >= b * s.up
      BY <1>1, <1>3, <2>2
    <3>2. a * s.up <= b * s.up /\ a * s.up \in Int /\ b * s.up \in Int
      BY <1>1
    <3>3. (target - a) * 100 >= a * s.up
      BY <3>1, <3>2
    <3> QED BY <3>3
  <2> QED BY <2>1, <2>2
<1> HIDE DEF Passes
<1> QED BY <1>2, <1>4, <1>5

\* The decision without allowDownscale: the request, or one higher amount; and
\* who decides to stay also stays when the request is higher.
LEMMA DecidedUp ==
  ASSUME NEW s \in PolicySpecs, ~s.allowDown, NEW r \in Resources,
         NEW used \in Amounts
  PROVE  \E R \in Nat : \A q \in Amounts :
           /\ \/ DecidedRequest(q, used, s, r) = q
              \/ DecidedRequest(q, used, s, r) = R /\ OrZero(q) < R
           /\ \A x \in Amounts :
                /\ DecidedRequest(q, used, s, r) = q
                /\ OrZero(q) <= OrZero(x)
                => DecidedRequest(x, used, s, r) = x
<1> DEFINE raw == divCeil(OrZero(used) * (100 + s.headroom), 100)
           R == roundUp(raw, Step[r])
           change == s.minChange[r]
           D(q) == DecidedRequest(q, used, s, r)
<1>1. Step[r] \in Nat \ {0} /\ s.headroom \in Nat /\ change \in Amounts
  BY PolicyAssumption DEF PolicySpecs
<1>2. \A q \in Amounts : OrZero(q) \in Nat
  BY DEF OrZero, Amounts, Unset
<1>3. raw \in Nat
  <2>1. OrZero(used) * (100 + s.headroom) \in Nat
    BY <1>1, <1>2
  <2> QED BY <2>1, DivCeil
<1> HIDE DEF raw
<1>4. R \in Nat /\ R >= raw
  BY <1>1, <1>3, RoundUp
<1> HIDE DEF R
<1>5. \A q \in Amounts :
        D(q) = IF raw > OrZero(q) /\ decide(R, OrZero(q), s, change) = R
               THEN R ELSE q
  <2> TAKE q \in Amounts
  <2> DEFINE current == OrZero(q)
  <2>1. current \in Nat
    BY <1>2
  <2>2. D(q) = LET target == quantize(raw, current, s.allowDown, Step[r])
                   decided == decide(target, current, s, change)
               IN IF decided # current THEN decided ELSE q
    BY DEF DecidedRequest, raw
  <2> HIDE DEF current, D, change
  <2>3. CASE raw > current
    <3>1. quantize(raw, current, s.allowDown, Step[r]) = R
      BY <2>3 DEF quantize, R
    <3>2. decide(R, current, s, change) \in {R, current} /\ R # current
      BY <1>3, <1>4, <2>1, <2>3 DEF decide
    <3> QED BY <2>2, <2>3, <3>1, <3>2 DEF current
  <2>4. CASE ~(raw > current)
    <3>1. quantize(raw, current, s.allowDown, Step[r]) = raw
      BY <2>4 DEF quantize
    <3>2. decide(raw, current, s, change) = current
      BY <2>4 DEF decide
    <3> QED BY <2>2, <2>4, <3>1, <3>2 DEF current
  <2> QED BY <2>3, <2>4
<1> HIDE DEF D, change
<1>6. ASSUME NEW q \in Amounts
      PROVE  \/ D(q) = q
             \/ D(q) = R /\ OrZero(q) < R
  BY <1>2, <1>3, <1>4, <1>5, <1>6
<1>7. ASSUME NEW q \in Amounts, NEW x \in Amounts, D(q) = q,
             OrZero(q) <= OrZero(x)
      PROVE  D(x) = x
  <2> SUFFICES ASSUME D(x) # x PROVE FALSE
    OBVIOUS
  <2>1. raw > OrZero(x) /\ decide(R, OrZero(x), s, change) = R
    BY <1>5
  <2>2. raw > OrZero(q) /\ OrZero(x) < R
    BY <1>2, <1>3, <1>4, <1>7, <2>1
  <2>3. decide(R, OrZero(q), s, change) = R
    BY <1>1, <1>2, <1>4, <1>7, <2>1, <2>2, WorthLess DEF change
  <2>4. D(q) = R /\ R # q
    <3>1. D(q) = R
      BY <1>5, <2>2, <2>3
    <3>2. OrZero(q) < R
      BY <1>2, <1>3, <1>4, <2>2
    <3> QED BY <1>2, <1>4, <3>1, <3>2 DEF OrZero, Amounts, Unset
  <2> QED BY <1>7, <2>4
<1> QED BY <1>4, <1>6, <1>7 DEF D

\* What BoundsOrdered says of one policy and resource.
Ordered(s, r) == s.min[r] # Unset /\ s.max[r] # Unset => s.min[r] <= s.max[r]

\* Ordered bounds, applied twice, change nothing the second time.
LEMMA BoundsTwice ==
  ASSUME NEW min \in Amounts, NEW max \in Amounts, NEW q \in Amounts,
         min # Unset /\ max # Unset => min <= max
  PROVE  LET x == applyBounds(q, min, max)
         IN x \in Amounts /\ applyBounds(x, min, max) = x
BY DEF applyBounds, OrZero, Amounts, Unset

\* Amounts as integers.
LEMMA AmountsInt == \A a : a \in Amounts <=> a \in Int /\ a >= -1
BY DEF Amounts, Unset

\* What bounds and clamp make of the decision on a managed request.  A limit
\* that is Unset clamps nothing.
Held(q, min, max, lim) == Clamped(applyBounds(q, min, max), lim, TRUE)

\* Held brings x out of d; it brings it out of x again, and out of every amount
\* above it when d was above it too: the maximum or the limit holds both.
LEMMA HeldTwice ==
  ASSUME NEW min \in Amounts, NEW max \in Amounts, NEW lim \in Amounts,
         min # Unset /\ max # Unset => min <= max,
         NEW d \in Amounts, NEW e \in Amounts,
         NEW x, x = Held(d, min, max, lim),
         e # x => OrZero(x) < OrZero(e) /\ OrZero(x) < OrZero(d)
  PROVE  Held(e, min, max, lim) = x
<1>1. /\ min \in Int /\ min >= -1 /\ max \in Int /\ max >= -1
      /\ lim \in Int /\ lim >= -1 /\ d \in Int /\ d >= -1
      /\ e \in Int /\ e >= -1
  BY AmountsInt
<1> QED BY <1>1 DEF Held, Clamped, applyBounds, OrZero, Unset

\* A request that was computed once is computed again.
LEMMA RequestTwice ==
  ASSUME NEW s \in PolicySpecs, ~s.allowDown,
         NEW r \in Resources, Ordered(s, r),
         NEW res \in ContainerResources,
         NEW again \in ContainerResources,
         NEW used \in [Resources -> Amounts],
         NEW mode \in {"Unchanged", "EqualRequests"},
         again.req[r] = NewRequest(res, used, s, mode, r),
         mode = "Unchanged" => again.lim[r] = res.lim[r]
  PROVE  NewRequest(again, used, s, mode, r) = again.req[r]
<1> DEFINE min == s.min[r]
           max == s.max[r]
           q == res.req[r]
           x == again.req[r]
           D(a) == DecidedRequest(a, used[r], s, r)
           lim == IF mode = "Unchanged" THEN res.lim[r] ELSE Unset
<1>1. /\ min \in Amounts /\ max \in Amounts /\ q \in Amounts
      /\ x \in Amounts /\ lim \in Amounts /\ used[r] \in Amounts
      /\ min # Unset /\ max # Unset => min <= max
  <2>1. Unset \in Amounts
    BY DEF Amounts
  <2> QED BY <2>1 DEF PolicySpecs, ContainerResources, Ordered
<1>2. CASE r \notin s.managed
  <2>1. \A a \in {res, again} :
          NewRequest(a, used, s, mode, r) = applyBounds(a.req[r], min, max)
    BY <1>2 DEF NewRequest, Clamped
  <2> HIDE DEF min, max, q, x
  <2>2. applyBounds(applyBounds(q, min, max), min, max)
          = applyBounds(q, min, max)
    BY <1>1, BoundsTwice
  <2> QED BY <2>1, <2>2 DEF q, x
<1>3. CASE r \in s.managed
  <2>1. NewRequest(res, used, s, mode, r)
          = Held(D(q), min, max, lim)
    BY <1>3 DEF NewRequest, Clamped, Held
  <2>2. NewRequest(again, used, s, mode, r)
          = Held(D(x), min, max, lim)
    BY <1>3 DEF NewRequest, Clamped, Held
  <2>3. PICK R \in Nat : \A a \in Amounts :
          /\ D(a) = a \/ (D(a) = R /\ OrZero(a) < R)
          /\ \A b \in Amounts :
               D(a) = a /\ OrZero(a) <= OrZero(b) => D(b) = b
    <3> HIDE DEF D
    <3>1. \E R \in Nat : \A a \in Amounts :
            /\ \/ D(a) = a
               \/ D(a) = R /\ OrZero(a) < R
            /\ \A b \in Amounts :
                 D(a) = a /\ OrZero(a) <= OrZero(b) => D(b) = b
      BY <1>1, DecidedUp DEF D
    <3> QED BY <3>1
  <2>4. x = Held(D(q), min, max, lim)
    BY <2>1
  <2> HIDE DEF min, max, q, x, lim, D
  <2>5. /\ D(q) = q \/ D(q) = R
        /\ D(x) = x \/ (D(x) = R /\ OrZero(x) < R)
        /\ D(q) = q /\ OrZero(q) <= OrZero(x) => D(x) = x
    BY <1>1, <2>3
  <2> DEFINE d == D(q)
             e == D(x)
  <2>6. d \in Amounts /\ e \in Amounts
    BY <1>1, <2>5 DEF Amounts
  <2>7. e # x => OrZero(x) < OrZero(e) /\ OrZero(x) < OrZero(d)
    <3> SUFFICES ASSUME e # x
                 PROVE  OrZero(x) < OrZero(e) /\ OrZero(x) < OrZero(d)
      OBVIOUS
    <3>1. e = R /\ OrZero(x) < R /\ OrZero(R) = R
      BY <2>5 DEF OrZero, Unset
    <3>2. CASE d = R
      BY <3>1, <3>2
    <3>3. CASE d = q
      <4>1. OrZero(x) \in Int /\ OrZero(q) \in Int
        BY <1>1 DEF OrZero, Amounts, Unset
      <4> QED BY <2>5, <3>1, <3>3, <4>1
    <3> QED BY <2>5, <3>2, <3>3
  <2> HIDE DEF d, e
  <2>8. x = Held(d, min, max, lim)
    BY <2>4 DEF d
  <2> HIDE DEF x
  <2>9. Held(e, min, max, lim) = x
    BY <1>1, <2>6, <2>7, <2>8, HeldTwice
  <2> QED BY <2>2, <2>9 DEF x, e
<1> QED BY <1>2, <1>3

-----------------------------------------------------------------------------
(* One container, one pod.                                                 *)

\* The resources computed for a container are computed for it again.
LEMMA ContainerTwice ==
  ASSUME NEW s \in PolicySpecs, ~s.allowDown,
         \A r \in Resources : Ordered(s, r),
         NEW res \in ContainerResources,
         NEW used \in [Resources -> Amounts],
         NEW mode \in {"Unchanged", "EqualRequests"}
  PROVE  LET n == NewResources(res, used, s, mode)
         IN NewResources(n, used, s, mode) = n
<1> DEFINE Req(a) == [r \in Resources |-> NewRequest(a, used, s, mode, r)]
           Lim(a) == [r \in Resources |->
                        NewLimit(a, Req(a)[r], s, mode, r)]
           Same(a) == /\ resourceListEqual(a.req, Req(a))
                      /\ resourceListEqual(a.lim, Lim(a))
           New(a) == NewResources(a, used, s, mode)
           n == [req |-> Req(res), lim |-> Lim(res)]
<1>1. \A a : New(a) = IF used = NoMetrics \/ Same(a) THEN a
                      ELSE [req |-> Req(a), lim |-> Lim(a)]
  BY DEF NewResources
<1>2. CASE used = NoMetrics \/ Same(res)
  BY <1>1, <1>2
<1>3. CASE ~(used = NoMetrics \/ Same(res))
  <2>1. New(res) = n
    BY <1>1, <1>3
  <2>2. \A r \in Resources : Req(res)[r] \in Amounts /\ Lim(res)[r] \in Amounts
    BY RequestType
  <2>3. n \in ContainerResources
    <3> HIDE DEF Req
    <3>1. Req(res) \in [Resources -> Amounts]
      BY <2>2 DEF Req
    <3> HIDE DEF Lim
    <3>2. Lim(res) \in [Resources -> Amounts]
      BY <2>2 DEF Lim
    <3> QED BY <3>1, <3>2 DEF ContainerResources
  <2>4. \A r \in Resources :
          /\ n.req[r] = NewRequest(res, used, s, mode, r)
          /\ n.lim[r] = NewLimit(res, n.req[r], s, mode, r)
    OBVIOUS
  <2> HIDE DEF n, Same
  <2>5. \A r \in Resources : NewRequest(n, used, s, mode, r) = n.req[r]
    <3> TAKE r \in Resources
    <3>1. mode = "Unchanged" => n.lim[r] = res.lim[r]
      BY <2>4 DEF NewLimit
    <3> QED BY <2>3, <2>4, <3>1, RequestTwice
  <2>6. \A r \in Resources : NewLimit(n, n.req[r], s, mode, r) = n.lim[r]
    BY <2>4 DEF NewLimit
  <2>7. Same(n)
    BY <2>5, <2>6 DEF Same, resourceListEqual
  <2>8. New(n) = n
    BY <1>1, <2>7
  <2> QED BY <2>1, <2>8
<1> QED BY <1>2, <1>3

\* The loop over the containers leaves alone what it computed, as long as the
\* limits are treated the same way.
LEMMA EvaluatedTwice ==
  ASSUME NEW s \in PolicySpecs, ~s.allowDown,
         \A r \in Resources : Ordered(s, r),
         NEW p \in PodResources,
         NEW u \in [Containers -> [Resources -> Amounts]],
         LimitsMode(Evaluated(p, u, s), s) = LimitsMode(p, s)
  PROVE  Evaluated(Evaluated(p, u, s), u, s) = Evaluated(p, u, s)
<1> DEFINE d == Evaluated(p, u, s)
           mode == LimitsMode(p, s)
           New(a, c) == NewResources(a, u[c], s, mode)
<1>1. mode \in {"Unchanged", "EqualRequests"}
  BY DEF LimitsMode, PolicySpecs
<1>2. \A c \in Containers \cup Inits :
        d[c] = IF c \in Containers THEN New(p[c], c) ELSE p[c]
  BY DEF Evaluated
<1>3. Evaluated(d, u, s)
        = [c \in Containers \cup Inits |->
             IF c \in Containers THEN New(d[c], c) ELSE d[c]]
  BY DEF Evaluated
<1>4. d = [c \in Containers \cup Inits |-> d[c]]
  BY DEF Evaluated
<1> HIDE DEF d, mode
<1>5. \A c \in Containers : New(d[c], c) = d[c]
  <2> TAKE c \in Containers
  <2>1. p[c] \in ContainerResources /\ u[c] \in [Resources -> Amounts]
    BY DEF PodResources, ContainerResources
  <2>2. New(New(p[c], c), c) = New(p[c], c)
    BY <1>1, <2>1, ContainerTwice
  <2> QED BY <1>2, <2>2
<1>6. [c \in Containers \cup Inits |->
         IF c \in Containers THEN New(d[c], c) ELSE d[c]]
        = [c \in Containers \cup Inits |-> d[c]]
  BY <1>5
<1> QED BY <1>3, <1>4, <1>6 DEF d

\* forceBurstable leaves the init containers alone.
LEMMA ForceInits ==
  ASSUME NEW s \in PolicySpecs, NEW d \in PodResources
  PROVE  \A i \in Inits : forceBurstable(d, s)[i] = d[i]
<1>1. CASE Lowerable(d, s) = {}
  BY <1>1 DEF forceBurstable
<1>2. CASE Lowerable(d, s) # {}
  <2> DEFINE a == CHOOSE a \in Lowerable(d, s) :
                    \A b \in Lowerable(d, s) : Before(a, b)
  <2>1. a \in Lowerable(d, s)
    BY <1>2, FirstLowerable
  <2>2. forceBurstable(d, s)
          = [d EXCEPT ![a[1]].req[a[2]] = Forced(s, d[a[1]].lim[a[2]], a[2])]
    BY <1>2 DEF forceBurstable
  <2> HIDE DEF a
  <2>3. a[1] \in Containers
    BY <2>1 DEF Lowerable
  <2>4. \A i \in Inits : i # a[1] /\ i \in DOMAIN d
    BY <2>3, PolicyAssumption DEF PodResources
  <2> QED BY <2>2, <2>4
<1> QED BY <1>1, <1>2

\* forceBurstable is needed a second time only for the pod it was needed for
\* before: raising what it lowered to the limit gives the Guaranteed pod again.
LEMMA RaisedToSame ==
  ASSUME NEW s \in PolicySpecs, NEW p \in PodResources, Valid(p),
         NEW u \in [Containers -> [Resources -> Amounts]],
         podQoSClass(p) = "Burstable",
         podQoSClass(Evaluated(p, u, s)) = "Guaranteed",
         NEW q \in PodResources, Valid(q),
         q = forceBurstable(Evaluated(p, u, s), s),
         podQoSClass(q) = "Burstable",
         podQoSClass(Evaluated(q, u, s)) = "Guaranteed"
  PROVE  Evaluated(q, u, s) = Evaluated(p, u, s)
<1> DEFINE d == Evaluated(p, u, s)
           e == Evaluated(q, u, s)
<1>1. LimitsMode(p, s) = "Unchanged" /\ LimitsMode(q, s) = "Unchanged"
  BY DEF LimitsMode
<1>2. d \in PodResources /\ e \in PodResources
  BY EvaluatedFacts
<1>3. \A c \in Containers : d[c].lim = p[c].lim /\ e[c].lim = q[c].lim
  BY <1>1, EvaluatedFacts
<1>4. \A c \in Containers : q[c].lim = d[c].lim
  BY <1>2, ForceFacts
<1>5. \A i \in Inits : e[i] = d[i]
  <2>1. \A i \in Inits : e[i] = q[i]
    BY PolicyAssumption DEF Evaluated
  <2> QED BY <1>2, <2>1, ForceInits
<1> HIDE DEF d, e
<1>6. \A c \in Containers : d[c].req = d[c].lim /\ e[c].req = e[c].lim
  BY DEF podQoSClass, d, e
<1>7. \A c \in Containers : e[c] = d[c]
  <2> TAKE c \in Containers
  <2>1. d[c] \in ContainerResources /\ e[c] \in ContainerResources
    BY <1>2 DEF PodResources, ContainerResources
  <2>2. d[c].req = e[c].req /\ d[c].lim = e[c].lim
    BY <1>3, <1>4, <1>6
  <2> QED BY <2>1, <2>2 DEF ContainerResources
<1> QED BY <1>2, <1>5, <1>7 DEF PodResources, d, e

-----------------------------------------------------------------------------
(* The loop.                                                               *)

\* The loop over the containers would not change the pod any more.
Settled == Evaluated(pod, usage, policy) = pod

\* forceBurstable made pod out of p, the pod the usage was first seen with.
LoweredFrom(p) ==
  /\ Valid(p) /\ podQoSClass(p) = "Burstable"
  /\ podQoSClass(Evaluated(p, usage, policy)) = "Guaranteed"
  /\ pod = forceBurstable(Evaluated(p, usage, policy), policy)
  /\ podQoSClass(pod) = "Burstable"
  /\ visited = {p, pod}

\* The inductive invariant: where the pod is on its way to settle.
Settling ==
  ~policy.allowDown =>
    \/ visited = {pod}
    \/ Settled /\ \E p, q : visited = {p, q, pod}
    \/ \E p \in PodResources : LoweredFrom(p)

\* A resize without allowDownscale: to a pod it did not have, on the way.
LEMMA ResizeSettles ==
  ASSUME BoundsOrdered, IInv, Settling, Resize, ~policy.allowDown
  PROVE  pod' \notin visited /\ Settling'
<1> DEFINE E(p) == Evaluated(p, usage, policy)
           F(p) == forceBurstable(p, policy)
<1>1. /\ pod' = Desired /\ pod' # pod /\ visited' = visited \cup {pod'}
      /\ policy' = policy /\ usage' = usage
  BY DEF Resize, Applies
<1>2. /\ policy \in PolicySpecs /\ pod \in PodResources /\ Valid(pod)
      /\ usage \in [Containers -> [Resources -> Amounts]]
      /\ \A r \in Resources : Ordered(policy, r)
  BY PolicyAssumption, BoundsOrdered
     DEF IInv, TypeOK, BoundsOrdered, Ordered
<1>3. \/ /\ pod' = E(pod)
         /\ podQoSClass(E(pod)) = podQoSClass(pod)
      \/ /\ podQoSClass(pod) = "Burstable"
         /\ podQoSClass(E(pod)) = "Guaranteed"
         /\ pod' = F(E(pod)) /\ podQoSClass(pod') = "Burstable"
  BY <1>1 DEF Desired, ComputeDesired
<1>4. E(pod) # pod
  BY <1>1, <1>3
<1> HIDE DEF E, F
<1>5. ASSUME podQoSClass(E(pod)) = podQoSClass(pod)
      PROVE  E(E(pod)) = E(pod)
  <2>1. LimitsMode(E(pod), policy) = LimitsMode(pod, policy)
    BY <1>5 DEF LimitsMode
  <2> QED BY <1>2, <2>1, EvaluatedTwice DEF E
<1>6. CASE visited = {pod}
  <2>1. visited' = {pod, pod'} /\ pod' \notin visited
    BY <1>1, <1>6
  <2>2. CASE pod' = E(pod) /\ podQoSClass(E(pod)) = podQoSClass(pod)
    <3>1. Settled'
      BY <1>1, <1>5, <2>2 DEF Settled, E
    <3>2. visited' = {pod, pod, pod'}
      BY <2>1
    <3> QED BY <2>1, <3>1, <3>2 DEF Settling
  <2>3. CASE /\ podQoSClass(pod) = "Burstable"
             /\ podQoSClass(E(pod)) = "Guaranteed"
             /\ pod' = F(E(pod)) /\ podQoSClass(pod') = "Burstable"
    <3> PICK p \in PodResources : p = pod
      BY <1>2
    <3>1. LoweredFrom(p)'
      BY <1>1, <1>2, <2>1, <2>3 DEF LoweredFrom, E, F
    <3> QED BY <2>1, <3>1 DEF Settling
  <2> QED BY <1>3, <2>2, <2>3
<1>7. CASE Settled
  BY <1>4, <1>7 DEF Settled, E
<1>8. CASE \E p \in PodResources : LoweredFrom(p)
  <2> PICK p \in PodResources : LoweredFrom(p)
    BY <1>8
  <2>1. CASE pod' = E(pod) /\ podQoSClass(E(pod)) = podQoSClass(pod)
    <3>1. E(pod') = pod'
      BY <1>5, <2>1
    <3>2. pod' # p
      BY <3>1 DEF LoweredFrom, E
    <3>3. visited' = {p, pod, pod'} /\ pod' \notin visited
      BY <1>1, <3>2 DEF LoweredFrom
    <3>4. Settled'
      BY <1>1, <3>1 DEF Settled, E
    <3> QED BY <3>3, <3>4 DEF Settling
  <2>2. CASE /\ podQoSClass(pod) = "Burstable"
             /\ podQoSClass(E(pod)) = "Guaranteed"
             /\ pod' = F(E(pod)) /\ podQoSClass(pod') = "Burstable"
    <3>1. E(pod) = E(p)
      BY <1>2, <2>2, RaisedToSame DEF LoweredFrom, E
    <3>2. pod' = pod
      BY <2>2, <3>1 DEF LoweredFrom, E, F
    <3> QED BY <1>1, <3>2
  <2> QED BY <1>3, <2>1, <2>2
<1> QED BY <1>6, <1>7, <1>8 DEF Settling

\* Every step keeps the pod on its way: a change of the usage starts anew.
LEMMA StepSettling ==
  ASSUME BoundsOrdered
  PROVE  IInv /\ Settling /\ [Next]_vars => Settling'
<1> SUFFICES ASSUME IInv, Settling, [Next]_vars PROVE Settling'
  OBVIOUS
<1>1. CASE Resize
  <2>1. policy' = policy
    BY <1>1 DEF Resize
  <2>2. CASE policy.allowDown
    BY <2>1, <2>2 DEF Settling
  <2>3. CASE ~policy.allowDown
    BY <1>1, <2>3, ResizeSettles
  <2> QED BY <2>2, <2>3
<1>2. CASE \E u \in Usages : UsageChanges(u)
  BY <1>2 DEF UsageChanges, Settling
<1>3. CASE UNCHANGED vars
  BY <1>3 DEF vars, Settling, Settled, LoweredFrom, Valid
<1> QED BY <1>1, <1>2, <1>3 DEF Next

\* Initially the pod is the only value seen.
LEMMA InitSettling == Init => Settling
BY DEF Init, Settling

\* Where the pod is on its way, always.
THEOREM SettlingCorrect ==
  ASSUME BoundsOrdered
  PROVE  Spec => []Settling
BY InitSettling, StepSettling, InvariantCorrect, PTL DEF Spec

\* With ordered bounds and without allowDownscale a resize never brings back
\* resources the pod had before under the same usage.
THEOREM UpOnlySettlesCorrect ==
  ASSUME BoundsOrdered
  PROVE  Spec => UpOnlySettles
<1>1. IInv /\ Settling /\ [Next]_vars
        => [~policy.allowDown => pod' \notin visited]_pod
  <2> SUFFICES ASSUME IInv, Settling, [Next]_vars, pod' # pod,
                      ~policy.allowDown
               PROVE  pod' \notin visited
    OBVIOUS
  <2>1. Resize
    BY DEF Next, UsageChanges, vars
  <2> QED BY <2>1, ResizeSettles
<1> QED BY <1>1, SettlingCorrect, InvariantCorrect, PTL
        DEF Spec, UpOnlySettles

\* Three values make a set of three at most.
LEMMA ThreeAtMost ==
  ASSUME NEW a, NEW b, NEW c
  PROVE  Cardinality({a, b, c}) <= 3
<1>1. IsFiniteSet({}) /\ Cardinality({}) = 0
  BY FS_EmptySet
<1>2. /\ IsFiniteSet({} \cup {a})
      /\ Cardinality({} \cup {a}) \in {0, 1}
  BY <1>1, FS_AddElement
<1>3. /\ IsFiniteSet({} \cup {a} \cup {b})
      /\ Cardinality({} \cup {a} \cup {b}) \in {0, 1, 2}
  BY <1>2, FS_AddElement
<1>4. Cardinality({} \cup {a} \cup {b} \cup {c}) \in {0, 1, 2, 3}
  BY <1>3, FS_AddElement
<1>5. {} \cup {a} \cup {b} \cup {c} = {a, b, c}
  OBVIOUS
<1> QED BY <1>4, <1>5

\* With ordered bounds and without allowDownscale one usage causes two resizes
\* of a pod at most.
THEOREM UpOnlyTwiceCorrect ==
  ASSUME BoundsOrdered
  PROVE  Spec => []UpOnlyTwice
<1>1. Settling => UpOnlyTwice
  <2> SUFFICES ASSUME Settling, ~policy.allowDown
               PROVE  \E a, b, c : visited = {a, b, c}
    BY ThreeAtMost DEF UpOnlyTwice
  <2>1. CASE visited = {pod}
    <3>1. visited = {pod, pod, pod}
      BY <2>1
    <3> QED BY <3>1
  <2>2. CASE Settled /\ \E p, q : visited = {p, q, pod}
    BY <2>2
  <2>3. CASE \E p \in PodResources : LoweredFrom(p)
    <3> PICK p \in PodResources : LoweredFrom(p)
      BY <2>3
    <3>1. visited = {p, pod, pod}
      BY DEF LoweredFrom
    <3> QED BY <3>1
  <2> QED BY <2>1, <2>2, <2>3 DEF Settling
<1> QED BY <1>1, SettlingCorrect, PTL

=============================================================================
