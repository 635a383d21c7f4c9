---------------------------- MODULE PolicyProofs ----------------------------
(***************************************************************************)
(* Theorems about Policy, for any containers, rounding steps, policies,    *)
(* usages and pods that the API server accepts.                            *)
(*                                                                         *)
(* The lemmas follow one request through ComputeDesired: rounding, the     *)
(* decision, the bounds, the clamp to the limit and forceBurstable.        *)
(***************************************************************************)
EXTENDS Policy, WellFoundedInduction, TLAPS

-----------------------------------------------------------------------------
(* Arithmetic.                                                             *)

\* Rounding up never goes below the value.
LEMMA RoundUp ==
  ASSUME NEW v \in Nat, NEW step \in Nat \ {0}
  PROVE  roundUp(v, step) \in Nat /\ roundUp(v, step) >= v
BY DEF roundUp

\* Rounding down never goes above it.
LEMMA RoundDown ==
  ASSUME NEW v \in Nat, NEW step \in Nat \ {0}
  PROVE  roundDown(v, step) \in Nat /\ roundDown(v, step) <= v
BY DEF roundDown

\* The percentage of the headroom is not lost in the division.
LEMMA DivCeil ==
  ASSUME NEW n \in Nat
  PROVE  divCeil(n, 100) \in Nat /\ divCeil(n, 100) * 100 >= n
BY DEF divCeil

-----------------------------------------------------------------------------
(* One request.                                                            *)

\* The decision on a request: an amount, and when it is a raise it covers the
\* usage with its headroom.
LEMMA DecidedCovers ==
  ASSUME NEW s \in PolicySpecs, NEW r \in Resources,
         NEW q \in Amounts, NEW used \in Amounts
  PROVE  LET d == DecidedRequest(q, used, s, r)
         IN /\ d \in Amounts
            /\ d > OrZero(q) => d * 100 >= used * (100 + s.headroom)
<1> DEFINE current == OrZero(q)
           want == OrZero(used) * (100 + s.headroom)
           raw == divCeil(want, 100)
           target == quantize(raw, current, s.allowDown, Step[r])
           decided == decide(target, current, s, s.minChange[r])
<1>1. /\ Step[r] \in Nat \ {0} /\ s.headroom \in Nat
      /\ s.allowDown \in BOOLEAN
  BY PolicyAssumption DEF PolicySpecs
<1>2. current \in Nat /\ OrZero(used) \in Nat /\ OrZero(used) >= used
  BY DEF OrZero, Amounts, Unset
<1>3. want \in Nat /\ want >= used * (100 + s.headroom)
  <2>1. 100 + s.headroom \in Nat
    BY <1>1
  <2>2. used \in Int
    BY DEF Amounts, Unset
  <2>3. \A a, b, k : a \in Nat /\ b \in Int /\ k \in Nat /\ a >= b
          => a * k \in Nat /\ a * k >= b * k
    OBVIOUS
  <2> QED BY <1>2, <2>1, <2>2, <2>3
<1>4. raw \in Nat /\ raw * 100 >= want
  BY <1>3, DivCeil
<1> HIDE DEF raw, want, current
<1>5. target \in Nat /\ (target > current => target >= raw)
  <2>1. CASE raw > current
    BY <2>1, <1>1, <1>2, <1>4, RoundUp DEF quantize
  <2>2. CASE ~(raw > current) /\ raw < current /\ s.allowDown
    BY <2>2, <1>1, <1>2, <1>4, RoundDown DEF quantize
  <2>3. CASE ~(raw > current) /\ ~(raw < current /\ s.allowDown)
    BY <2>3, <1>1, <1>2, <1>4 DEF quantize
  <2> QED BY <2>1, <2>2, <2>3
<1> HIDE DEF target
<1>6. decided \in {target, current}
  BY DEF decide
<1>7. DecidedRequest(q, used, s, r) = IF decided # current THEN decided ELSE q
  BY DEF DecidedRequest, decided, target, raw, want, current
<1> HIDE DEF decided
<1>8. q <= current
  BY DEF current, OrZero, Amounts, Unset
<1>9. used * (100 + s.headroom) \in Int
  <2>1. used \in Int /\ 100 + s.headroom \in Int
    BY <1>1 DEF Amounts, Unset
  <2> QED BY <2>1
<1> DEFINE floor == used * (100 + s.headroom)
<1>10. floor \in Int /\ want >= floor
  BY <1>3, <1>9
<1> HIDE DEF floor
<1>11. /\ DecidedRequest(q, used, s, r) \in Amounts
       /\ DecidedRequest(q, used, s, r) > current
            => DecidedRequest(q, used, s, r) * 100 >= floor
  <2>1. CASE decided # current
    BY <2>1, <1>2, <1>3, <1>4, <1>5, <1>6, <1>7, <1>10 DEF Amounts
  <2>2. CASE decided = current
    BY <2>2, <1>2, <1>7, <1>8 DEF Amounts, Unset
  <2> QED BY <2>1, <2>2
<1> QED BY <1>11 DEF floor, current

\* What the computation promises of the request new of a managed resource
\* that was old under the limit lim, with the usage used.
Covered(new, old, lim, used, s, r) ==
  new > OrZero(old) =>
    \/ new * 100 >= used * (100 + s.headroom)
    \/ new \in {s.min[r], s.max[r], lim, lim - Step[r]}

InBounds(new, lim, s, r) ==
  (s.min[r] # Unset /\ s.max[r] # Unset => s.min[r] <= s.max[r]) =>
    /\ s.max[r] # Unset => OrZero(new) <= s.max[r]
    /\ OrZero(new) >= OrZero(s.min[r]) \/ OrZero(new) = lim

\* Bounds and clamp keep what the decision established.
LEMMA RequestFacts ==
  ASSUME NEW s \in PolicySpecs, NEW r \in s.managed,
         NEW res \in [req : [Resources -> Amounts],
                      lim : [Resources -> Amounts]],
         NEW used \in [Resources -> Amounts],
         NEW mode \in {"Unchanged", "EqualRequests"}
  PROVE  LET new == NewRequest(res, used, s, mode, r)
         IN /\ new \in Amounts
            /\ Covered(new, res.req[r], res.lim[r], used[r], s, r)
            /\ InBounds(new, res.lim[r], s, r)
            /\ mode = "Unchanged" /\ res.lim[r] # Unset
                 => OrZero(new) <= res.lim[r]
<1> DEFINE q == res.req[r]
           lim == res.lim[r]
           min == s.min[r]
           max == s.max[r]
           decided == DecidedRequest(q, used[r], s, r)
           bounded == applyBounds(decided, min, max)
           new == NewRequest(res, used, s, mode, r)
<1>1. r \in Resources
  BY DEF PolicySpecs
<1>2. /\ q \in Amounts /\ lim \in Amounts /\ used[r] \in Amounts
      /\ min \in Amounts /\ max \in Amounts
  BY <1>1 DEF PolicySpecs
<1>3. /\ decided \in Amounts
      /\ decided > OrZero(q) => decided * 100 >= used[r] * (100 + s.headroom)
  BY <1>1, <1>2, DecidedCovers
<1>4. new = IF mode = "Unchanged" THEN Clamped(bounded, lim, TRUE)
                                  ELSE bounded
  BY DEF NewRequest
<1> HIDE DEF q, lim, min, max, decided, new
<1>5. bounded \in Amounts /\ bounded \in {decided, min, max}
  BY <1>2, <1>3 DEF applyBounds
<1>6. new \in Amounts /\ new \in {bounded, lim}
  BY <1>2, <1>4, <1>5 DEF Clamped
<1>7. Covered(new, q, lim, used[r], s, r)
  BY <1>3, <1>5, <1>6 DEF Covered, min, max
<1>8. (min # Unset /\ max # Unset => min <= max) =>
        /\ max # Unset => OrZero(bounded) <= max
        /\ OrZero(bounded) >= OrZero(min)
  BY <1>2, <1>3 DEF applyBounds, OrZero, Amounts, Unset
<1> HIDE DEF bounded
<1>9. \/ new = bounded
      \/ new = lim /\ lim # Unset /\ bounded # Unset /\ bounded > lim
  BY <1>4 DEF Clamped
<1>10. OrZero(new) <= OrZero(bounded) /\ (new = bounded \/ OrZero(new) = lim)
  <2>1. bounded \in Amounts /\ lim \in Amounts
    BY <1>2, <1>5
  <2>2. CASE new = bounded
    BY <2>1, <2>2 DEF OrZero, Amounts, Unset
  <2>3. CASE new = lim /\ lim # Unset /\ bounded # Unset /\ bounded > lim
    BY <2>1, <2>3 DEF OrZero, Amounts, Unset
  <2> QED BY <1>9, <2>2, <2>3
<1>11. InBounds(new, lim, s, r)
  <2> SUFFICES ASSUME min # Unset /\ max # Unset => min <= max
               PROVE  /\ max # Unset => OrZero(new) <= max
                      /\ OrZero(new) >= OrZero(min) \/ OrZero(new) = lim
    BY DEF InBounds, min, max
  <2>1. OrZero(new) \in Int /\ OrZero(bounded) \in Int /\ max \in Int
    BY <1>2, <1>5, <1>6 DEF OrZero, Amounts, Unset
  <2> QED BY <1>8, <1>10, <2>1
<1>12. mode = "Unchanged" /\ lim # Unset => OrZero(new) <= lim
  BY <1>2, <1>4, <1>5 DEF Clamped, OrZero, Amounts, Unset
<1> QED BY <1>6, <1>7, <1>11, <1>12 DEF q, lim, new

-----------------------------------------------------------------------------
(* One pod.                                                                *)

\* What the computation promises of a managed resource r of a measured
\* container c, when it turns p into d.
Promise(p, u, s, d, c, r) ==
  /\ Covered(d[c].req[r], p[c].req[r], p[c].lim[r], u[c][r], s, r)
  /\ InBounds(d[c].req[r], p[c].lim[r], s, r)
  /\ d[c].lim[r] # Unset => OrZero(d[c].req[r]) <= d[c].lim[r]

ContainerResources == [req : [Resources -> Amounts],
                       lim : [Resources -> Amounts]]

\* The bounds apply to a resource that is not managed; it keeps its type.
LEMMA RequestType ==
  ASSUME NEW s \in PolicySpecs, NEW r \in Resources,
         NEW res \in ContainerResources,
         NEW used \in [Resources -> Amounts],
         NEW mode \in {"Unchanged", "EqualRequests"}
  PROVE  /\ NewRequest(res, used, s, mode, r) \in Amounts
         /\ \A n \in Amounts : NewLimit(res, n, s, mode, r) \in Amounts
<1>1. CASE r \in s.managed
  BY <1>1, RequestFacts DEF ContainerResources, NewLimit
<1>2. CASE r \notin s.managed
  <2>1. NewRequest(res, used, s, mode, r)
          \in {res.req[r], s.min[r], s.max[r]}
    BY <1>2 DEF NewRequest, Clamped, applyBounds
  <2>2. /\ res.req[r] \in Amounts /\ res.lim[r] \in Amounts
        /\ s.min[r] \in Amounts /\ s.max[r] \in Amounts
    BY DEF ContainerResources, PolicySpecs
  <2> QED BY <2>1, <2>2, <1>2 DEF NewLimit
<1> QED BY <1>1, <1>2

\* One container of the loop: its resources when it is measured.
LEMMA ContainerFacts ==
  ASSUME NEW s \in PolicySpecs, NEW res \in ContainerResources,
         NEW used \in [Resources -> Amounts],
         NEW mode \in {"Unchanged", "EqualRequests"},
         \A r \in Resources :
           res.lim[r] # Unset => OrZero(res.req[r]) <= res.lim[r]
  PROVE  LET n == NewResources(res, used, s, mode)
         IN /\ n \in ContainerResources
            /\ mode = "Unchanged" => n.lim = res.lim
            /\ used # NoMetrics =>
                 \A r \in s.managed :
                   /\ Covered(n.req[r], res.req[r], res.lim[r], used[r], s, r)
                   /\ InBounds(n.req[r], res.lim[r], s, r)
                   /\ n.lim[r] # Unset => OrZero(n.req[r]) <= n.lim[r]
<1> DEFINE req == [r \in Resources |-> NewRequest(res, used, s, mode, r)]
           lim == [r \in Resources |-> NewLimit(res, req[r], s, mode, r)]
           same == /\ resourceListEqual(res.req, req)
                   /\ resourceListEqual(res.lim, lim)
           n == NewResources(res, used, s, mode)
<1>1. n = IF used = NoMetrics \/ same THEN res ELSE [req |-> req, lim |-> lim]
  BY DEF NewResources
<1>2. res.req \in [Resources -> Amounts] /\ res.lim \in [Resources -> Amounts]
  BY DEF ContainerResources
<1>3. \A r \in Resources : req[r] \in Amounts /\ lim[r] \in Amounts
  BY RequestType
<1>4. req \in [Resources -> Amounts] /\ lim \in [Resources -> Amounts]
  BY <1>3
<1>5. mode = "Unchanged" => lim = res.lim
  BY <1>2 DEF NewLimit
<1>6. \A r \in s.managed :
        /\ r \in Resources
        /\ Covered(req[r], res.req[r], res.lim[r], used[r], s, r)
        /\ InBounds(req[r], res.lim[r], s, r)
        /\ mode = "Unchanged" /\ res.lim[r] # Unset
             => OrZero(req[r]) <= res.lim[r]
        /\ mode = "EqualRequests" => lim[r] = req[r]
  <2> TAKE r \in s.managed
  <2>1. r \in Resources
    BY DEF PolicySpecs
  <2>2. req[r] = NewRequest(res, used, s, mode, r)
    BY <2>1
  <2>3. mode = "EqualRequests" => lim[r] = req[r]
    BY <2>1 DEF NewLimit
  <2> QED BY <2>1, <2>2, <2>3, RequestFacts DEF ContainerResources
<1> HIDE DEF req, lim, n
<1>7. CASE used = NoMetrics
  BY <1>1, <1>7 DEF n
<1>8. CASE used # NoMetrics /\ same
  <2>1. n = res
    BY <1>1, <1>8
  <2> SUFFICES ASSUME NEW r \in s.managed
               PROVE  /\ Covered(res.req[r], res.req[r], res.lim[r], used[r],
                                 s, r)
                      /\ InBounds(res.req[r], res.lim[r], s, r)
    BY <1>6, <2>1 DEF n
  <2>2. r \in Resources /\ res.req[r] \in Amounts
    BY <1>2, <1>6
  <2>3. OrZero(res.req[r]) = OrZero(req[r])
    BY <1>8, <2>2 DEF resourceListEqual
  <2>4. ~(res.req[r] > OrZero(res.req[r]))
    BY <2>2 DEF OrZero, Amounts, Unset
  <2>5. Covered(res.req[r], res.req[r], res.lim[r], used[r], s, r)
    BY <2>4 DEF Covered
  <2>6. InBounds(req[r], res.lim[r], s, r)
    BY <1>6
  <2>7. InBounds(res.req[r], res.lim[r], s, r)
    BY <2>3, <2>6 DEF InBounds
  <2> QED BY <2>5, <2>7
<1>9. CASE used # NoMetrics /\ ~same
  <2>1. n = [req |-> req, lim |-> lim]
    BY <1>1, <1>9
  <2>2. n \in ContainerResources /\ n.req = req /\ n.lim = lim
    BY <1>4, <2>1 DEF ContainerResources
  <2>3. \A r \in s.managed : lim[r] # Unset => OrZero(req[r]) <= lim[r]
    <3> SUFFICES ASSUME NEW r \in s.managed, lim[r] # Unset
                 PROVE  OrZero(req[r]) <= lim[r]
      OBVIOUS
    <3>1. req[r] \in Amounts /\ lim[r] \in Amounts
      BY <1>3, <1>6
    <3>2. CASE mode = "Unchanged"
      BY <1>5, <1>6, <3>2
    <3>3. CASE mode = "EqualRequests"
      BY <1>6, <3>1, <3>3 DEF OrZero, Amounts, Unset
    <3> QED BY <3>2, <3>3
  <2> QED BY <1>5, <1>6, <2>2, <2>3 DEF n
<1> QED BY <1>7, <1>8, <1>9

\* The loop over the containers.
LEMMA EvaluatedFacts ==
  ASSUME NEW s \in PolicySpecs, NEW p \in PodResources, Valid(p),
         NEW u \in [Containers -> [Resources -> Amounts]]
  PROVE  LET d == Evaluated(p, u, s)
         IN /\ d \in PodResources
            /\ LimitsMode(p, s) = "Unchanged"
                 => \A c \in Containers : d[c].lim = p[c].lim
            /\ \A c \in Containers, r \in s.managed :
                 u[c] # NoMetrics => Promise(p, u, s, d, c, r)
<1> DEFINE d == Evaluated(p, u, s)
           mode == LimitsMode(p, s)
           new(c) == NewResources(p[c], u[c], s, mode)
<1>1. mode \in {"Unchanged", "EqualRequests"}
  BY DEF LimitsMode, PolicySpecs
<1>2. \A c \in Containers \cup Inits : p[c] \in ContainerResources
  BY DEF PodResources, ContainerResources
<1>3. \A c \in Containers : d[c] = new(c)
  BY DEF Evaluated
<1>4. \A c \in Containers :
        /\ new(c) \in ContainerResources
        /\ mode = "Unchanged" => new(c).lim = p[c].lim
        /\ u[c] # NoMetrics => \A r \in s.managed : Promise(p, u, s, d, c, r)
  <2> TAKE c \in Containers
  <2>1. /\ p[c] \in ContainerResources
        /\ u[c] \in [Resources -> Amounts]
        /\ \A r \in Resources :
             p[c].lim[r] # Unset => OrZero(p[c].req[r]) <= p[c].lim[r]
    BY <1>2 DEF Valid
  <2> HIDE DEF mode, d
  <2>2. /\ new(c) \in ContainerResources
        /\ mode = "Unchanged" => new(c).lim = p[c].lim
        /\ u[c] # NoMetrics =>
             \A r \in s.managed :
               /\ Covered(new(c).req[r], p[c].req[r], p[c].lim[r], u[c][r],
                          s, r)
               /\ InBounds(new(c).req[r], p[c].lim[r], s, r)
               /\ new(c).lim[r] # Unset
                    => OrZero(new(c).req[r]) <= new(c).lim[r]
    BY <1>1, <2>1, ContainerFacts
  <2> QED BY <1>3, <2>2 DEF Promise
<1>5. d \in PodResources
  <2>1. \A c \in Containers \cup Inits : d[c] \in ContainerResources
    BY <1>2, <1>3, <1>4 DEF Evaluated
  <2>2. d = [c \in Containers \cup Inits |-> d[c]]
    BY DEF Evaluated
  <2> HIDE DEF d
  <2> QED BY <2>1, <2>2 DEF PodResources, ContainerResources
<1> QED BY <1>3, <1>4, <1>5

\* A set of numbers that is not empty has a least one.
LEMMA Least ==
  ASSUME NEW T, T \subseteq Nat, T # {}
  PROVE  \E n \in T : \A k \in T : n <= k
<1>1. PICK n \in T : \A k \in T : ~(<<k, n>> \in OpToRel(<, Nat))
  BY NatLessThanWellFounded, WFMin
<1>2. ASSUME NEW k \in T, k < n PROVE FALSE
  <2>1. <<k, n>> \in Nat \X Nat
    OBVIOUS
  <2>2. <<k, n>> \in {p \in Nat \X Nat : p[1] < p[2]}
    BY <1>2, <2>1
  <2> QED BY <1>1, <2>2, Zenon DEF OpToRel
<1>3. \A k \in T : n <= k
  BY <1>2
<1> QED BY <1>3

\* Among the requests that forceBurstable may lower there is a first one.
LEMMA FirstLowerable ==
  ASSUME NEW s \in PolicySpecs, NEW d, Lowerable(d, s) # {}
  PROVE  \E a \in Lowerable(d, s) : \A b \in Lowerable(d, s) : Before(a, b)
<1> DEFINE L == Lowerable(d, s)
           T == {a[1] : a \in L}
<1>1. \A a \in L : a \in Containers \X s.managed
  BY DEF Lowerable
<1> HIDE DEF L
<1>2. s.managed \subseteq Resources
  BY DEF PolicySpecs
<1>3. \A a \in L : a[1] \in Nat /\ a[2] \in Resources
  BY <1>1, <1>2, PolicyAssumption
<1>4. T \subseteq Nat /\ T # {}
  BY <1>3 DEF L
<1>5. PICK n \in T : \A k \in T : n <= k
  <2> HIDE DEF T
  <2> QED BY <1>4, Least
<1>6. \A b \in L : b[1] \in Nat /\ n <= b[1] /\ b[2] \in {"cpu", "memory"}
  BY <1>3, <1>5 DEF Resources
<1>7. n \in Nat /\ \E a \in L : a[1] = n
  BY <1>4, <1>5
<1>8. \E a \in L : \A b \in L : Before(a, b)
  <2>1. CASE \E b \in L : b[1] = n /\ b[2] = "cpu"
    BY <1>6, <1>7, <2>1 DEF Before
  <2>2. CASE ~ \E b \in L : b[1] = n /\ b[2] = "cpu"
    BY <1>6, <1>7, <2>2 DEF Before
  <2> QED BY <2>1, <2>2
<1> QED BY <1>8 DEF L

\* A lowered request is an amount below its limit and not below the minimum.
LEMMA ForcedFacts ==
  ASSUME NEW s \in PolicySpecs, NEW r \in Resources, NEW lim \in Nat
  PROVE  /\ Forced(s, lim, r) \in Nat
         /\ Forced(s, lim, r) >= OrZero(s.min[r])
         /\ Forced(s, lim, r) \in {OrZero(s.min[r]), lim - Step[r]}
<1>1. Step[r] \in Nat
  BY PolicyAssumption
<1>2. OrZero(s.min[r]) \in Nat
  <2>1. s.min[r] \in Amounts
    BY DEF PolicySpecs
  <2> QED BY <2>1 DEF OrZero, Amounts, Unset
<1> QED BY <1>1, <1>2 DEF Forced

\* forceBurstable lowers at most one request, of a managed resource, and the
\* one it lowers equals its limit.
LEMMA ForceFacts ==
  ASSUME NEW s \in PolicySpecs, NEW d \in PodResources
  PROVE  LET f == forceBurstable(d, s)
         IN /\ f \in PodResources
            /\ \A c \in Containers : f[c].lim = d[c].lim
            /\ \A c \in Containers, r \in Resources :
                 \/ f[c].req[r] = d[c].req[r]
                 \/ /\ d[c].lim[r] # Unset /\ d[c].req[r] = d[c].lim[r]
                    /\ f[c].req[r] = Forced(s, d[c].lim[r], r)
                    /\ Forced(s, d[c].lim[r], r) < d[c].lim[r]
<1> DEFINE f == forceBurstable(d, s)
<1>1. CASE Lowerable(d, s) = {}
  BY <1>1 DEF forceBurstable
<1>2. CASE Lowerable(d, s) # {}
  <2> DEFINE a == CHOOSE a \in Lowerable(d, s) :
                    \A b \in Lowerable(d, s) : Before(a, b)
  <2>1. a \in Lowerable(d, s)
    BY <1>2, FirstLowerable
  <2>2. f = [d EXCEPT ![a[1]].req[a[2]] =
               Forced(s, d[a[1]].lim[a[2]], a[2])]
    BY <1>2 DEF forceBurstable
  <2> HIDE DEF a, f
  <2> DEFINE e == a[1]
             q == a[2]
             low == Forced(s, d[e].lim[q], q)
  <2>3. /\ e \in Containers /\ q \in s.managed
        /\ d[e].lim[q] # Unset /\ d[e].req[q] = d[e].lim[q]
        /\ low < d[e].lim[q]
    BY <2>1 DEF Lowerable
  <2>4. q \in Resources
    BY <2>3 DEF PolicySpecs
  <2>5. f = [d EXCEPT ![e].req[q] = low]
    BY <2>2
  <2>6. /\ d[e] \in ContainerResources
        /\ \A c \in Containers \cup Inits : d[c] \in ContainerResources
    BY <2>3 DEF PodResources, ContainerResources
  <2>7. low \in Amounts
    <3>1. d[e].lim[q] \in Nat
      BY <2>3, <2>4, <2>6 DEF ContainerResources, Amounts
    <3> QED BY <2>4, <3>1, ForcedFacts DEF Amounts
  <2> HIDE DEF e, q, low
  <2>8. /\ f = [d EXCEPT ![e] =
                  [d[e] EXCEPT !.req = [d[e].req EXCEPT ![q] = low]]]
        /\ DOMAIN f = Containers \cup Inits
    BY <2>5 DEF PodResources
  <2> DEFINE low1 == [d[e].req EXCEPT ![q] = low]
             new == [d[e] EXCEPT !.req = low1]
  <2>9. low1 \in [Resources -> Amounts]
    BY <2>6, <2>7 DEF ContainerResources
  <2>10. new \in ContainerResources /\ new.req = low1 /\ new.lim = d[e].lim
    <3> HIDE DEF low1
    <3> QED BY <2>6, <2>9 DEF ContainerResources
  <2>11. /\ low1[q] = low
         /\ \A r \in Resources : r # q => low1[r] = d[e].req[r]
    BY <2>4, <2>6 DEF ContainerResources
  <2>12. f = [d EXCEPT ![e] = new]
    BY <2>8
  <2> HIDE DEF new, low1
  <2>13. f \in PodResources
    BY <2>3, <2>10, <2>12 DEF PodResources, ContainerResources
  <2>14. /\ f[e] = new
         /\ \A c \in Containers : c # e => f[c] = d[c]
    BY <2>3, <2>12 DEF PodResources
  <2>15. \A c \in Containers : f[c].lim = d[c].lim
    BY <2>10, <2>14
  <2>16. \A c \in Containers, r \in Resources :
           \/ f[c].req[r] = d[c].req[r]
           \/ c = e /\ r = q /\ f[c].req[r] = low
    BY <2>10, <2>11, <2>14
  <2> QED BY <2>3, <2>13, <2>15, <2>16 DEF low, f
<1> QED BY <1>1, <1>2

\* A lowered request still keeps the promise: it is the minimum or one step
\* below the limit, and the request it replaces was within the bounds.
LEMMA ForcedPromise ==
  ASSUME NEW s \in PolicySpecs, NEW r \in Resources, NEW lim \in Nat,
         NEW old \in Amounts, NEW used, InBounds(lim, lim, s, r),
         Forced(s, lim, r) < lim
  PROVE  /\ Covered(Forced(s, lim, r), old, lim, used, s, r)
         /\ InBounds(Forced(s, lim, r), lim, s, r)
         /\ OrZero(Forced(s, lim, r)) <= lim
<1> DEFINE low == Forced(s, lim, r)
<1>1. /\ low \in Nat /\ low >= OrZero(s.min[r])
      /\ low \in {OrZero(s.min[r]), lim - Step[r]}
  BY ForcedFacts
<1>2. s.min[r] \in Amounts /\ s.max[r] \in Amounts
  BY DEF PolicySpecs
<1> HIDE DEF low
<1>3. OrZero(low) = low /\ OrZero(lim) = lim
  BY <1>1 DEF OrZero, Unset
<1>4. low < lim
  BY DEF low
<1>5. OrZero(old) \in Nat
  BY DEF OrZero, Amounts, Unset
<1>6. Covered(low, old, lim, used, s, r)
  <2> SUFFICES ASSUME low > OrZero(old)
               PROVE  low \in {s.min[r], lim - Step[r]}
    BY DEF Covered
  <2>1. low # 0
    BY <1>1, <1>5
  <2> QED BY <1>1, <1>2, <2>1 DEF OrZero
<1>7. InBounds(low, lim, s, r)
  <2> SUFFICES ASSUME s.min[r] # Unset /\ s.max[r] # Unset
                        => s.min[r] <= s.max[r],
                      s.max[r] # Unset
               PROVE  low <= s.max[r]
    BY <1>1, <1>3 DEF InBounds
  <2>1. lim <= s.max[r]
    BY <1>3 DEF InBounds
  <2>2. s.max[r] \in Int
    BY <1>2 DEF Amounts, Unset
  <2> QED BY <1>1, <1>4, <2>1, <2>2
<1>8. OrZero(low) <= lim
  BY <1>1, <1>3, <1>4
<1> QED BY <1>6, <1>7, <1>8 DEF low

\* All of ComputeDesired: it leaves the pod alone, or the class is kept and
\* every managed request of a measured container keeps the promise.
LEMMA DesiredFacts ==
  ASSUME NEW s \in PolicySpecs, NEW p \in PodResources, Valid(p),
         NEW u \in [Containers -> [Resources -> Amounts]]
  PROVE  LET d == ComputeDesired(p, u, s)
         IN /\ d \in PodResources
            /\ \/ d = p
               \/ /\ podQoSClass(d) = podQoSClass(p)
                  /\ \A c \in Containers, r \in s.managed :
                       u[c] # NoMetrics => Promise(p, u, s, d, c, r)
<1> DEFINE d == Evaluated(p, u, s)
           force == podQoSClass(p) = "Burstable"
                      /\ podQoSClass(d) = "Guaranteed"
           forced == IF force THEN forceBurstable(d, s) ELSE d
<1>1. /\ d \in PodResources
      /\ LimitsMode(p, s) = "Unchanged"
           => \A c \in Containers : d[c].lim = p[c].lim
      /\ \A c \in Containers, r \in s.managed :
           u[c] # NoMetrics => Promise(p, u, s, d, c, r)
  BY EvaluatedFacts
<1>2. force => LimitsMode(p, s) = "Unchanged"
  BY DEF LimitsMode
<1>3. \/ ComputeDesired(p, u, s) = p
      \/ /\ ComputeDesired(p, u, s) = forced
         /\ podQoSClass(forced) = podQoSClass(p)
  BY DEF ComputeDesired
<1> HIDE DEF d
<1>4. CASE ~force
  BY <1>1, <1>3, <1>4
<1>5. CASE force
  <2> DEFINE f == forceBurstable(d, s)
  <2>1. /\ f \in PodResources
        /\ \A c \in Containers : f[c].lim = d[c].lim
        /\ \A c \in Containers, r \in Resources :
             \/ f[c].req[r] = d[c].req[r]
             \/ /\ d[c].lim[r] # Unset /\ d[c].req[r] = d[c].lim[r]
                /\ f[c].req[r] = Forced(s, d[c].lim[r], r)
                /\ Forced(s, d[c].lim[r], r) < d[c].lim[r]
    BY <1>1, ForceFacts
  <2>2. forced = f
    BY <1>5
  <2> HIDE DEF f, force
  <2>3. ASSUME NEW c \in Containers, NEW r \in s.managed, u[c] # NoMetrics
        PROVE  Promise(p, u, s, f, c, r)
    <3>1. r \in Resources
      BY DEF PolicySpecs
    <3>2. Promise(p, u, s, d, c, r)
      BY <1>1, <2>3
    <3>3. f[c].lim[r] = d[c].lim[r] /\ d[c].lim[r] = p[c].lim[r]
      BY <1>1, <1>2, <1>5, <2>1
    <3>4. CASE f[c].req[r] = d[c].req[r]
      BY <3>2, <3>3, <3>4 DEF Promise
    <3>5. CASE /\ d[c].lim[r] # Unset /\ d[c].req[r] = d[c].lim[r]
               /\ f[c].req[r] = Forced(s, d[c].lim[r], r)
               /\ Forced(s, d[c].lim[r], r) < d[c].lim[r]
      <4> DEFINE lim == p[c].lim[r]
                 low == Forced(s, lim, r)
      <4>1. p[c].req[r] \in Amounts /\ lim \in Amounts
        BY <3>1 DEF PodResources
      <4>2. /\ lim \in Nat /\ d[c].req[r] = lim /\ low < lim
            /\ f[c].req[r] = low
        BY <3>3, <3>5, <4>1 DEF Amounts
      <4>3. InBounds(lim, lim, s, r)
        BY <3>2, <4>2 DEF Promise
      <4> HIDE DEF lim
      <4>4. /\ Covered(low, p[c].req[r], lim, u[c][r], s, r)
            /\ InBounds(low, lim, s, r)
            /\ OrZero(low) <= lim
        BY <3>1, <4>1, <4>2, <4>3, ForcedPromise
      <4> QED BY <3>3, <4>2, <4>4 DEF Promise, lim
    <3> QED BY <2>1, <3>1, <3>4, <3>5
  <2> QED BY <1>3, <2>1, <2>2, <2>3
<1> QED BY <1>4, <1>5

-----------------------------------------------------------------------------
(* The loop.                                                               *)

\* A pod that the API server accepts stays one.
IInv == TypeOK /\ Valid(pod)

\* What the next reconcile computes for the pod as it is.
LEMMA DesiredOfPod ==
  ASSUME IInv
  PROVE  /\ policy \in PolicySpecs
         /\ Desired \in PodResources
         /\ \/ Desired = pod
            \/ /\ podQoSClass(Desired) = podQoSClass(pod)
               /\ \A c \in Containers, r \in policy.managed :
                    usage[c] # NoMetrics
                      => Promise(pod, usage, policy, Desired, c, r)
<1>1. /\ policy \in PolicySpecs /\ pod \in PodResources /\ Valid(pod)
      /\ usage \in [Containers -> [Resources -> Amounts]]
  BY PolicyAssumption DEF IInv, TypeOK
<1> QED BY <1>1, DesiredFacts DEF Desired

\* The operator finds pods that the API server accepted.
LEMMA InitInv == Init => IInv
BY PolicyAssumption DEF Init, IInv, TypeOK

\* A resize preserves the invariant by the promise of ComputeDesired, and
\* because the API server refuses the others.
LEMMA StepInv == IInv /\ [Next]_vars => IInv'
<1> SUFFICES ASSUME IInv, [Next]_vars PROVE IInv'
  OBVIOUS
<1>1. CASE Resize
  <2>1. /\ pod' = Desired /\ Valid(Desired)
        /\ policy' = policy /\ usage' = usage
    BY <1>1 DEF Resize, Applies
  <2>2. Desired \in PodResources
    BY DesiredOfPod
  <2>3. pod' \in PodResources /\ Valid(pod')
    BY <2>1, <2>2
  <2> QED BY <2>1, <2>3 DEF IInv, TypeOK, Valid
<1>2. CASE \E v \in Usages : UsageChanges(v)
  BY <1>2 DEF UsageChanges, IInv, TypeOK, Valid
<1>3. CASE UNCHANGED vars
  BY <1>3 DEF vars, IInv, TypeOK, Valid
<1> QED BY <1>1, <1>2, <1>3 DEF Next

\* The pod keeps its type and stays acceptable to the API server.
THEOREM InvariantCorrect == Spec => []IInv
BY InitInv, StepInv, PTL DEF Spec

\* Type correctness: rounding, bounds, clamp and forceBurstable never leave
\* the amounts, although forceBurstable subtracts a step from a limit.
THEOREM TypeCorrect == Spec => []TypeOK
<1>1. IInv => TypeOK
  BY DEF IInv
<1> QED BY <1>1, InvariantCorrect, PTL

\* No resize is refused for a managed request above its limit: clamping and
\* forceBurstable keep every request they look at at or below its limit.
THEOREM NeverRefusedCorrect == Spec => []NeverRefused
<1>1. ASSUME IInv PROVE NeverRefused
  <2> SUFFICES ASSUME NEW c \in Containers, NEW r \in Resources,
                      Managed(c, r), Desired[c].lim[r] # Unset
               PROVE  OrZero(Desired[c].req[r]) <= Desired[c].lim[r]
    BY DEF NeverRefused
  <2>1. CASE Desired = pod
    BY <1>1, <2>1 DEF IInv, Valid
  <2>2. CASE Desired # pod
    BY <1>1, <2>2, DesiredOfPod DEF Managed, Promise
  <2> QED BY <2>1, <2>2
<1> QED BY <1>1, InvariantCorrect, PTL

\* What a step that changes the pod does to it.
LEMMA PodStep ==
  ASSUME IInv, [Next]_vars, pod' # pod
  PROVE  /\ pod' = Desired
         /\ policy \in PolicySpecs
         /\ podQoSClass(pod') = podQoSClass(pod)
         /\ \A c \in Containers, r \in policy.managed :
              usage[c] # NoMetrics
                => Promise(pod, usage, policy, pod', c, r)
<1>1. pod' = Desired
  BY DEF Next, Resize, UsageChanges, vars
<1> QED BY <1>1, DesiredOfPod

\* A resize keeps the class of service of the pod, which the API server would
\* not let it change.
THEOREM QoSKeptCorrect == Spec => QoSKept
<1>1. IInv /\ [Next]_vars => [podQoSClass(pod') = podQoSClass(pod)]_pod
  BY PodStep
<1> QED BY <1>1, InvariantCorrect, PTL DEF Spec, QoSKept

\* The minimum of a resource is not above its maximum.  The CRD does not ask
\* for it, and applyBounds looks at the amount from before the minimum.
BoundsOrdered ==
  \A s \in Policies, r \in Resources :
    s.min[r] # Unset /\ s.max[r] # Unset => s.min[r] <= s.max[r]

\* With ordered bounds a resize leaves every managed request it looked at at
\* most at the maximum, and at least at the minimum or clamped to its limit,
\* forceBurstable included.
THEOREM WithinBoundsCorrect ==
  ASSUME BoundsOrdered
  PROVE  Spec => WithinBounds
<1> DEFINE Bounded ==
      \A c \in Containers, r \in Resources : Managed(c, r) =>
        LET req == OrZero(pod'[c].req[r])
            min == OrZero(policy.min[r])
        IN /\ policy.max[r] # Unset => req <= policy.max[r]
           /\ req >= min \/ req = pod[c].lim[r]
<1>1. IInv /\ [Next]_vars => [Bounded]_pod
  <2> SUFFICES ASSUME IInv, [Next]_vars, pod' # pod,
                      NEW c \in Containers, NEW r \in Resources, Managed(c, r)
               PROVE  /\ policy.max[r] # Unset
                           => OrZero(pod'[c].req[r]) <= policy.max[r]
                      /\ \/ OrZero(pod'[c].req[r]) >= OrZero(policy.min[r])
                         \/ OrZero(pod'[c].req[r]) = pod[c].lim[r]
    OBVIOUS
  <2>1. InBounds(pod'[c].req[r], pod[c].lim[r], policy, r)
    BY PodStep DEF Managed, Promise
  <2>2. policy.min[r] # Unset /\ policy.max[r] # Unset
          => policy.min[r] <= policy.max[r]
    BY BoundsOrdered DEF BoundsOrdered, IInv, TypeOK
  <2> QED BY <2>1, <2>2 DEF InBounds
<1>2. [][Bounded]_pod => WithinBounds
  BY PTL DEF WithinBounds
<1> HIDE DEF Bounded
<1> QED BY <1>1, <1>2, InvariantCorrect, PTL DEF Spec

\* A resize that raises a managed request covers the usage with its headroom,
\* or the request stops at a bound, at the limit or one step below it.
THEOREM RaisedCoversTargetCorrect == Spec => RaisedCoversTarget
<1> DEFINE Raised ==
      \A c \in Containers, r \in Resources :
        LET req == pod'[c].req[r]
            lim == pod[c].lim[r]
        IN Managed(c, r) /\ req > OrZero(pod[c].req[r]) =>
             \/ req * 100 >= usage[c][r] * (100 + policy.headroom)
             \/ req \in {policy.min[r], policy.max[r], lim, lim - Step[r]}
<1>1. IInv /\ [Next]_vars => [Raised]_pod
  <2> SUFFICES ASSUME IInv, [Next]_vars, pod' # pod,
                      NEW c \in Containers, NEW r \in Resources, Managed(c, r)
               PROVE  Covered(pod'[c].req[r], pod[c].req[r], pod[c].lim[r],
                              usage[c][r], policy, r)
    BY DEF Covered
  <2> QED BY PodStep DEF Managed, Promise
<1>2. [][Raised]_pod => RaisedCoversTarget
  BY PTL DEF RaisedCoversTarget
<1> HIDE DEF Raised
<1> QED BY <1>1, <1>2, InvariantCorrect, PTL DEF Spec

=============================================================================
