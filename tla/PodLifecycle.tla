---------------------------- MODULE PodLifecycle ----------------------------
(***************************************************************************)
(* One pod over many reconciles of the policies that select it: the        *)
(* annotations by which the operator remembers a pod (last-resize-time,    *)
(* last-applied-hash, pending-hash, pending-since), the cooldown and the   *)
(* stabilization window they drive, and everything that comes between      *)
(* reading them from the informer cache and writing them to the API server.*)
(* The annotations do not say which policy wrote them; policies are        *)
(* reconciled one at a time.                                               *)
(*                                                                         *)
(* Requests are abstract levels, and the hash of a desired pod is its      *)
(* level.  A timestamp is modelled by its age in ticks, which stops        *)
(* growing at MaxAge: no window is longer.                                 *)
(***************************************************************************)
EXTENDS Integers

CONSTANTS
  Levels,       \* the requests a pod can have
  Policies,     \* the policies that select the pod
  Nobody,       \* no policy
  Cooldown,     \* Cooldown[p]: spec.timing.cooldown, in ticks
  Window,       \* Window[p]: spec.timing.stabilizationWindow, in ticks
  MaxAge,       \* bound: ages, no shorter than any cooldown or window
  MaxExternal,  \* bound: resizes and recreations by somebody else
  MaxFaults,    \* bound: faults of the kinds in Faults
  Faults        \* a subset of {"patch", "lost", "crash", "stale"}

NoHash == "none"
NoTime == -1

ASSUME LifecycleAssumption ==
  /\ Levels # {} /\ NoHash \notin Levels
  /\ Policies # {} /\ Nobody \notin Policies
  /\ Cooldown \in [Policies -> Nat] /\ Window \in [Policies -> Nat]
  /\ MaxAge \in Nat
  /\ \A p \in Policies : Cooldown[p] <= MaxAge /\ Window[p] <= MaxAge
  /\ MaxExternal \in Nat /\ MaxFaults \in Nat
  /\ Faults \subseteq {"patch", "lost", "crash", "stale"}

VARIABLES
  server,    \* the pod on the API server
  cache,     \* the pod in the informer cache
  lagging,   \* the cache has an older resourceVersion than the server
  pc,        \* "idle", "listed", "apply", "retry" or "annotate"
  by,        \* the policy that is being reconciled
  pod,       \* the copy of the pod this run works on
  outdated,  \* its resourceVersion is older than the server's
  target,    \* res.Desired and its hash
  decided,   \* age of t, the time of the decision
  external,  \* resizes and recreations by somebody else so far
  faults,    \* faults so far
  resized,   \* history: age of t of the last resize by the operator
  streak,    \* history: the levels evaluated last, and for how long
  asked      \* history: age of the first evaluation that asked for a level

podVars == <<server, cache, lagging, outdated>>
runVars == <<pc, by, pod, target, decided>>
evalVars == <<streak, asked>>
vars == <<podVars, runVars, external, faults, resized, evalVars>>

NoPod == [level |-> CHOOSE l \in Levels : TRUE, last |-> NoTime,
          applied |-> NoHash, pending |-> NoHash, since |-> NoTime]

Older(age) == IF age = NoTime \/ age = MaxAge THEN age ELSE age + 1
OlderPod(p) == [p EXCEPT !.last = Older(@), !.since = Older(@)]

Init ==
  /\ server \in [level : Levels, last : {NoTime}, applied : {NoHash},
                 pending : {NoHash}, since : {NoTime}]
  /\ cache = server /\ lagging = FALSE
  /\ pc = "idle" /\ by = Nobody /\ pod = NoPod /\ outdated = FALSE
  /\ target = NoPod.level /\ decided = 0
  /\ external = 0 /\ faults = 0
  /\ resized = NoTime
  /\ streak = [level |-> server.level, changing |-> NoHash,
               age |-> MaxAge, changingAge |-> 0]
  /\ asked = [l \in Levels |-> NoTime]

-----------------------------------------------------------------------------
(* The cluster.                                                            *)

\* Somebody else sets the requests, or the kubelet updates the status: every
\* write of the pod gives it a new resourceVersion.
ExternalWrite(l) ==
  /\ external < MaxExternal
  /\ external' = external + 1
  /\ server' = [server EXCEPT !.level = l]
  /\ lagging' = TRUE
  /\ outdated' = (pc # "idle")
  /\ UNCHANGED <<cache, runVars, faults, resized, evalVars>>

\* The pod is deleted and created again under its name: the new one has a new
\* UID and no annotations, and the operator has never resized it.
Recreate(l) ==
  /\ external < MaxExternal
  /\ external' = external + 1
  /\ server' = [NoPod EXCEPT !.level = l]
  /\ resized' = NoTime
  /\ lagging' = TRUE
  /\ outdated' = (pc # "idle")
  /\ UNCHANGED <<cache, runVars, faults, evalVars>>

CacheSync ==
  /\ lagging
  /\ cache' = server /\ lagging' = FALSE
  /\ UNCHANGED <<server, outdated, runVars, external, faults, resized,
                 evalVars>>

Tick ==
  /\ server' = OlderPod(server) /\ cache' = OlderPod(cache)
  /\ pod' = OlderPod(pod)
  /\ decided' = IF pc \in {"idle", "listed"} THEN 0 ELSE Older(decided)
  /\ resized' = Older(resized)
  /\ streak' = [streak EXCEPT !.age = Older(@), !.changingAge = Older(@)]
  /\ asked' = [l \in Levels |-> Older(asked[l])]
  /\ UNCHANGED <<lagging, outdated, pc, by, target, external, faults>>

Fault(kind) ==
  /\ kind \in Faults
  /\ faults < MaxFaults
  /\ faults' = faults + 1

-----------------------------------------------------------------------------
(* A reconcile, as far as it concerns the pod.                             *)

\* The local variables of processOne are gone.
Return ==
  /\ pc' = "idle" /\ by' = Nobody
  /\ pod' = NoPod /\ outdated' = FALSE
  /\ target' = NoPod.level /\ decided' = 0

\* Mutant: the early return for "no cooldown" is inverted.
SkipByCooldownInverted(q, p) ==
  Cooldown[q] <= 0 /\ p.last # NoTime /\ p.last < Cooldown[q]

shouldSkipByCooldown(q, p) ==
  Cooldown[q] > 0 /\ p.last # NoTime /\ p.last < Cooldown[q]

\* The list is read from the informer cache, which may lag.
ListPods(q) ==
  /\ pc = "idle"
  /\ IF lagging THEN Fault("stale") ELSE UNCHANGED faults
  /\ ~shouldSkipByCooldown(q, cache)
  /\ pc' = "listed" /\ by' = q
  /\ pod' = cache /\ outdated' = lagging
  /\ UNCHANGED <<server, cache, lagging, target, decided, external, resized,
                 evalVars>>

\* maxPodsPerRun, the budget, missing metrics or a QoS change: no decision.
SkipPod ==
  /\ pc = "listed"
  /\ Return
  /\ UNCHANGED <<server, cache, lagging, external, faults, resized,
                 evalVars>>

\* Mutant: the age of the pending hash is not compared.
StabilizationIgnoresAge(p, hash) ==
  Window[by] > 0 => p.applied # hash /\ p.pending = hash /\ p.since # NoTime

stabilizationAllows(p, hash) ==
  Window[by] > 0 =>
    /\ p.applied # hash
    /\ p.pending = hash
    /\ p.since # NoTime /\ p.since >= Window[by]

\* History: which levels the runs have evaluated without interruption.
Evaluated(l) ==
  LET changes == l # pod.level
  IN /\ streak' = [level |-> l,
                   age |-> IF l = streak.level THEN streak.age ELSE 0,
                   changing |-> IF changes THEN l ELSE streak.changing,
                   changingAge |-> IF changes /\ l # streak.changing
                                   THEN 0 ELSE streak.changingAge]
     /\ asked' = [asked EXCEPT ![l] = IF changes /\ @ = NoTime THEN 0 ELSE @]

\* ComputeDesired finds nothing to change for the usage it is given: the
\* pending hash stays.
NoChange ==
  /\ pc = "listed"
  /\ Evaluated(pod.level)
  /\ Return
  /\ UNCHANGED <<server, cache, lagging, external, faults, resized>>

\* Mutant: a new pending hash keeps the old time.
PendingKeepsTime(p, hash) ==
  IF p.pending # hash
  THEN [server EXCEPT !.pending = hash,
                      !.since = IF @ = NoTime THEN 0 ELSE @]
  ELSE server

\* ensurePending: the patch is computed from the copy, applied to the server.
Pending(p, hash) ==
  IF p.pending # hash THEN [server EXCEPT !.pending = hash, !.since = 0]
  ELSE IF p.since = NoTime THEN [server EXCEPT !.since = 0]
  ELSE server

\* It asks for level l, which is not stable for this policy.
NotStable(l) ==
  /\ pc = "listed"
  /\ l # pod.level
  /\ ~stabilizationAllows(pod, l)
  /\ Evaluated(l)
  /\ \/ /\ server' = Pending(pod, l)
        /\ lagging' = (lagging \/ server' # server)
        /\ UNCHANGED faults
     \/ Fault("patch") /\ UNCHANGED <<server, lagging>>
  /\ Return
  /\ UNCHANGED <<cache, external, resized>>

Decide(l) ==
  /\ pc = "listed"
  /\ l # pod.level
  /\ stabilizationAllows(pod, l)
  /\ Evaluated(l)
  /\ target' = l /\ decided' = 0
  /\ pc' = "apply"
  /\ UNCHANGED <<podVars, by, pod, external, faults, resized>>

\* UpdateResize with the current resourceVersion takes effect.
Resize ==
  /\ pc \in {"apply", "retry"}
  /\ ~outdated
  /\ server' = [server EXCEPT !.level = target]
  /\ lagging' = TRUE
  /\ resized' = decided

Apply ==
  /\ Resize
  /\ pc' = "annotate"
  /\ UNCHANGED <<cache, outdated, by, pod, target, decided, external,
                 faults, evalVars>>

\* The answer is lost or times out: no annotation is written.
ApplyLost ==
  /\ Resize
  /\ Fault("lost")
  /\ Return
  /\ UNCHANGED <<cache, external, evalVars>>

\* A conflict: the pod is read again for its resourceVersion and its UID, the
\* desired resources stay.
Conflict ==
  /\ pc = "apply"
  /\ outdated
  /\ outdated' = FALSE
  /\ pc' = "retry"
  /\ UNCHANGED <<server, cache, lagging, by, pod, target, decided, external,
                 faults, resized, evalVars>>

\* The retry meets another conflict.
ConflictAgain ==
  /\ pc = "retry"
  /\ outdated
  /\ Return
  /\ UNCHANGED <<server, cache, lagging, external, faults, resized,
                 evalVars>>

\* Mutant: pending-since is left behind.
AnnotatedKeepsSince(p) ==
  [p EXCEPT !.last = decided, !.applied = target, !.pending = NoHash]

\* Mutant: the hash of the current pod is written instead of the desired.
AnnotatedOldHash(p) ==
  [p EXCEPT !.last = decided, !.applied = pod.level, !.pending = NoHash,
            !.since = NoTime]

\* The annotations of a resize; last-resize-time is the time of the decision.
Annotated(p) ==
  [p EXCEPT !.last = decided, !.applied = target,
            !.pending = NoHash, !.since = NoTime]

Annotate ==
  /\ pc = "annotate"
  /\ \/ server' = Annotated(server) /\ lagging' = TRUE /\ UNCHANGED faults
     \/ Fault("patch") /\ UNCHANGED <<server, lagging>>
  /\ Return
  /\ UNCHANGED <<cache, external, resized, evalVars>>

Crash ==
  /\ pc # "idle"
  /\ Fault("crash")
  /\ Return
  /\ UNCHANGED <<server, cache, lagging, external, resized, evalVars>>

Evaluate == NoChange \/ \E l \in Levels : NotStable(l) \/ Decide(l)

RunStep ==
  \/ \E q \in Policies : ListPods(q)
  \/ SkipPod \/ Evaluate
  \/ Apply \/ Conflict \/ ConflictAgain \/ Annotate

Next ==
  \/ \E l \in Levels : ExternalWrite(l) \/ Recreate(l)
  \/ CacheSync
  \/ Tick
  \/ RunStep
  \/ ApplyLost
  \/ Crash

Spec == Init /\ [][Next]_vars

(***************************************************************************)
(* Reconciles repeat (module ControllerLoop), the watch delivers, time     *)
(* passes.  A pod that is never decided on because others take the slots   *)
(* or the budget makes no progress: liveness assumes it gets its turn.     *)
(***************************************************************************)
FairSpec ==
  /\ Spec
  /\ WF_vars(CacheSync) /\ WF_vars(Tick)
  /\ WF_vars(\E q \in Policies : ListPods(q)) /\ SF_vars(Evaluate)
  /\ WF_vars(Apply \/ Conflict \/ ConflictAgain \/ Annotate)

-----------------------------------------------------------------------------
(* Properties.                                                             *)

Ages == NoTime..MaxAge
PodCopies == [level : Levels, last : Ages, applied : Levels \cup {NoHash},
              pending : Levels \cup {NoHash}, since : Ages]

\* Every variable keeps its type; a pending hash has a time on every copy.
TypeOK ==
  /\ target \in Levels /\ by \in Policies \cup {Nobody}
  /\ server \in PodCopies /\ cache \in PodCopies /\ pod \in PodCopies
  /\ lagging \in BOOLEAN /\ outdated \in BOOLEAN
  /\ pc \in {"idle", "listed", "apply", "retry", "annotate"}
  /\ pc = "idle" <=> by = Nobody
  /\ decided \in 0..MaxAge /\ resized \in Ages
  /\ external \in 0..MaxExternal /\ faults \in 0..MaxFaults
  /\ streak \in [level : Levels, changing : Levels \cup {NoHash},
                 age : 0..MaxAge, changingAge : 0..MaxAge]
  /\ asked \in [Levels -> Ages]
  /\ \A p \in {server, cache, pod} : p.pending = NoHash <=> p.since = NoTime

\* cooldown: a policy resizes the pod only when its cooldown is over since the
\* decision on the last resize, also on one by another policy.  It is kept as
\* long as every patch arrives and the cache is in step, also when somebody
\* else writes or recreates the pod and the resize meets a conflict.
CooldownWithoutFaults ==
  [][Resize /\ server.level # target /\ faults = 0
       => resized = NoTime \/ resized >= Cooldown[by]]_vars

\* stabilizationWindow: the target a resize is decided on has been the result
\* of every evaluation for at least the window.
TargetStable ==
  [][\A l \in Levels : Decide(l) =>
       streak.level = l /\ streak.age >= Window[by]]_vars

\* The weaker promise: no evaluation within the window asked for a resize to
\* another target, not one by another policy either (evaluations that found
\* nothing to change do not count; every policy has a window, every patch
\* arrives and the cache is in step).
NoOtherTarget ==
  [][\A l \in Levels : Decide(l) /\ faults = 0 /\ Window[by] > 0 =>
       streak.changing = l /\ streak.changingAge >= Window[by]]_vars

\* What is left of it whatever fails: a target is never applied on first
\* sight, an evaluation asked for it at least the window before.
NeverOnFirstSight ==
  [][\A l \in Levels : Decide(l) /\ Window[by] > 0 =>
       asked[l] >= Window[by]]_vars

\* last-applied-hash names the requests the pod has, so it never stands in the
\* way of a change that is asked for, whichever policies resized the pod to
\* whichever levels before (failures and foreign writes may leave a hash of
\* other requests behind).
NeverBlocked ==
  [][\A l \in Levels : NotStable(l) /\ faults = 0 /\ external = 0 =>
       pod.applied # l]_vars

\* If from some time on every evaluation, by whichever policy, comes to the
\* same level, the pod gets it and keeps it.
Converges ==
  \A l \in Levels : <>[](streak.level = l) => <>[](server.level = l)

=============================================================================
