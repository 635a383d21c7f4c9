--------------------------- MODULE ControllerLoop ---------------------------
(***************************************************************************)
(* The life of one InPlacePodResize policy in the controller: watch events *)
(* filtered by GenerationChangedPredicate, the work queue with its delayed *)
(* requeue, the early returns of Reconcile with their conditions, the      *)
(* deferred status patch, and restarts of the operator.                    *)
(*                                                                         *)
(* Reconcile reads the policy from the informer cache, which lags behind   *)
(* the API server, and patches the difference between the status it read   *)
(* and the status it computed.  What a full run does to pods is module     *)
(* ReconcileRun; here it takes time and reports.                           *)
(***************************************************************************)
EXTENDS Integers, Sequences

CONSTANTS
  MaxGen,      \* bound: generations of the policy
  Kinds,       \* the kinds of spec that occur, a subset of SpecKinds
  Interval,    \* spec.timing.interval, in ticks
  MaxElapsed,  \* bound: ticks a reconcile may take
  MaxFaults    \* bound: failed calls and crashes

SpecKinds == {"valid", "disabled", "badNamespaces", "unsafe", "badPods"}

ASSUME LoopAssumption ==
  /\ MaxGen \in Nat \ {0}
  /\ Kinds \subseteq SpecKinds /\ Kinds # {}
  /\ Interval \in Nat \ {0}
  /\ MaxElapsed \in Nat
  /\ MaxFaults \in Nat

VARIABLES
  specs,    \* the spec of each generation there has been
  server,   \* the policy on the API server; its gen is 0 when it is absent
  cache,    \* the policy in the informer cache
  up,       \* the operator runs and leads
  queued,   \* the key is in the work queue
  dirty,    \* the key was added while it was being processed
  timer,    \* ticks until the delayed add; NoTimer if there is none
  pc,       \* "idle", "get", "evaluate", "patch" or "return"
  seen,     \* the copy of the policy Reconcile works on (ipr before changes)
  result,   \* ipr with its new status
  after,    \* the RequeueAfter of the result
  elapsed,  \* ticks from the start of Reconcile to the end of the run
  faults    \* failures so far

clusterVars == <<specs, server, cache>>
queueVars == <<queued, dirty, timer>>
runVars == <<pc, seen, result, after, elapsed>>
vars == <<clusterVars, queueVars, runVars, up, faults>>

NoTimer == -1
NoCond == [reason |-> "none", gen |-> 0]
Absent == [gen |-> 0, observed |-> 0,
           active |-> NoCond, support |-> NoCond, metrics |-> NoCond]

Init ==
  /\ specs \in {<<kind>> : kind \in Kinds}
  /\ server = [Absent EXCEPT !.gen = 1]
  /\ cache = Absent
  /\ up = TRUE
  /\ queued = FALSE /\ dirty = FALSE /\ timer = NoTimer
  /\ pc = "idle"
  /\ seen = Absent /\ result = Absent
  /\ after = 0 /\ elapsed = 0 /\ faults = 0

-----------------------------------------------------------------------------
(* The users of the cluster and the watch.                                 *)

\* A spec is updated: the API server increments the generation.
UpdateSpec(kind) ==
  /\ server.gen \in 1..MaxGen - 1
  /\ server' = [server EXCEPT !.gen = @ + 1]
  /\ specs' = Append(specs, kind)
  /\ UNCHANGED <<cache, queueVars, runVars, up, faults>>

DeletePolicy ==
  /\ server.gen > 0
  /\ server' = Absent
  /\ UNCHANGED <<specs, cache, queueVars, runVars, up, faults>>

\* The key goes to the queue, or waits until its processing is done.
Enqueue ==
  /\ queued' = (queued \/ pc = "idle")
  /\ dirty' = (dirty \/ pc # "idle")

\* Mutant: the predicate only lets creations and deletions pass.
PassesFilterCreateOnly(old, new) == old.gen = 0 \/ new.gen = 0

\* GenerationChangedPredicate: creations and deletions pass, and updates that
\* change the generation; status patches do not.
PassesFilter(old, new) == old.gen # new.gen

WatchEvent ==
  /\ up
  /\ cache # server
  /\ cache' = server
  /\ IF PassesFilter(cache, server) THEN Enqueue
                                    ELSE UNCHANGED <<queued, dirty>>
  /\ UNCHANGED <<specs, server, timer, runVars, up, faults>>

-----------------------------------------------------------------------------
(* The work queue.                                                         *)

TimerFires ==
  /\ up
  /\ timer = 0
  /\ timer' = NoTimer
  /\ Enqueue
  /\ UNCHANGED <<clusterVars, runVars, up, faults>>

StartReconcile ==
  /\ up
  /\ pc = "idle" /\ queued
  /\ queued' = FALSE
  /\ pc' = "get"
  /\ UNCHANGED <<clusterVars, dirty, timer, seen, result, after, elapsed, up,
                 faults>>

\* AddAfter keeps the earlier of two delayed adds.
AddAfter(d) == IF timer = NoTimer \/ d < timer THEN d ELSE timer

\* The key is done with; it is queued again if it was added meanwhile.  The
\* local variables of Reconcile are gone, but seen.gen keeps what was read.
Done(again) ==
  /\ pc' = "idle"
  /\ queued' = (dirty \/ again) /\ dirty' = FALSE
  /\ seen' = [Absent EXCEPT !.gen = seen.gen]
  /\ result' = Absent /\ after' = 0 /\ elapsed' = 0

\* ctrl.Result{RequeueAfter: 0} forgets the key.
ReturnResult ==
  /\ pc = "return"
  /\ timer' = IF after > 0 THEN AddAfter(after) ELSE timer
  /\ Done(FALSE)
  /\ UNCHANGED <<clusterVars, up, faults>>

-----------------------------------------------------------------------------
(* Reconcile.                                                              *)

GetNotFound ==
  /\ pc = "get"
  /\ cache.gen = 0
  /\ Done(FALSE)
  /\ UNCHANGED <<clusterVars, timer, up, faults>>

\* The error is returned: the key is added again, after a back-off that starts
\* at milliseconds and is shorter than a tick here.
GetFailed ==
  /\ pc = "get"
  /\ faults < MaxFaults
  /\ faults' = faults + 1
  /\ Done(TRUE)
  /\ UNCHANGED <<clusterVars, timer, up>>

GetPolicy ==
  /\ pc = "get"
  /\ cache.gen > 0
  /\ seen' = cache /\ result' = cache
  /\ pc' = "evaluate"
  /\ UNCHANGED <<clusterVars, queueVars, after, elapsed, up, faults>>

Cond(reason) == [reason |-> reason, gen |-> seen.gen]

\* Mutant: an early return without RequeueAfter.
ReturnEarlyForgets(status) ==
  /\ result' = status
  /\ after' = 0
  /\ pc' = "patch" /\ elapsed' = 0
  /\ UNCHANGED <<clusterVars, queueVars, seen, up, faults>>

\* Early returns all requeue after the interval.
ReturnEarly(status) ==
  /\ result' = status
  /\ after' = Interval
  /\ pc' = "patch" /\ elapsed' = 0
  /\ UNCHANGED <<clusterVars, queueVars, seen, up, faults>>

EvaluateDisabled ==
  /\ pc = "evaluate"
  /\ specs[seen.gen] = "disabled"
  /\ ReturnEarly([seen EXCEPT !.active = Cond("Disabled")])

EvaluateUnsupported ==
  /\ pc = "evaluate"
  /\ specs[seen.gen] # "disabled"
  /\ ReturnEarly([seen EXCEPT !.active = Cond("Enabled"),
                              !.support = Cond("Unsupported")])

\* nsselector.Compile, the UnsafeConfig test and LabelSelectorAsSelector.
InvalidReason(kind) ==
  CASE kind = "badNamespaces" -> "InvalidNamespaceSelector"
    [] kind = "unsafe" -> "UnsafeConfig"
    [] kind = "badPods" -> "InvalidPodSelector"

\* Supported and Unknown are the same to the loop: "Usable".
EvaluateInvalid ==
  /\ pc = "evaluate"
  /\ specs[seen.gen] \in {"badNamespaces", "unsafe", "badPods"}
  /\ ReturnEarly([seen EXCEPT
                    !.active = Cond(InvalidReason(specs[seen.gen])),
                    !.support = Cond("Usable")])

\* Mutant: a run longer than the interval is not considered.
RequeueAfterUnchecked == Interval - elapsed

RequeueAfter == IF elapsed >= Interval THEN 0 ELSE Interval - elapsed

\* The whole run: pods are listed, evaluated and resized.  It always sets the
\* MetricsAvailable condition (which reason is module ReconcileRun's matter),
\* and an Unsupported or Forbidden answer to a resize ends it as Unsupported.
EvaluateRun(support) ==
  /\ pc = "evaluate"
  /\ specs[seen.gen] = "valid"
  /\ result' = [seen EXCEPT !.active = Cond("Enabled"),
                            !.support = Cond(support),
                            !.metrics = Cond("Reported")]
  /\ after' = RequeueAfter
  /\ pc' = "patch" /\ elapsed' = 0
  /\ UNCHANGED <<clusterVars, queueVars, seen, up, faults>>

Conditions(obj) == <<obj.active, obj.support, obj.metrics>>

\* Mutant: observedGeneration is the generation found when patching.
PatchedLatest(obj) ==
  [obj EXCEPT !.observed = obj.gen, !.active = result.active,
              !.support = result.support, !.metrics = result.metrics]

\* Mutant: observedGeneration is not written.
PatchedConditions(obj) ==
  [obj EXCEPT !.active = result.active, !.support = result.support,
              !.metrics = result.metrics]

\* Mutant: the status is written as a whole, Update in place of Patch, and only
\* a full run sets observedGeneration.
PatchedWhole(obj) ==
  [result EXCEPT
     !.gen = obj.gen,
     !.observed = IF result.active.reason = "Enabled" THEN seen.gen ELSE @]

\* The JSON merge patch of client.MergeFrom carries the fields that differ
\* from the copy Reconcile read; conditions is one list and goes as a whole.
Patched(obj) ==
  LET new == [result EXCEPT !.observed = seen.gen]
      withObserved == IF new.observed # seen.observed
                      THEN [obj EXCEPT !.observed = new.observed] ELSE obj
  IN IF Conditions(new) # Conditions(seen)
     THEN [withObserved EXCEPT !.active = new.active, !.support = new.support,
                               !.metrics = new.metrics]
     ELSE withObserved

PatchStatus ==
  /\ pc = "patch"
  /\ server' = IF server.gen > 0 THEN Patched(server) ELSE server
  /\ pc' = "return"
  /\ UNCHANGED <<specs, cache, queueVars, seen, result, after, elapsed, up,
                 faults>>

\* The error is only logged.
PatchStatusFailed ==
  /\ pc = "patch"
  /\ faults < MaxFaults
  /\ faults' = faults + 1
  /\ pc' = "return"
  /\ UNCHANGED <<clusterVars, queueVars, seen, result, after, elapsed, up>>

-----------------------------------------------------------------------------
(* Time, crashes.                                                          *)

\* elapsed is computed before the deferred status patch.
Measured == pc \in {"get", "evaluate"}

\* A tick; a timer that has expired fires before the next one.
Tick ==
  /\ timer # 0
  /\ timer # NoTimer \/ Measured
  /\ Measured => elapsed < MaxElapsed
  /\ timer' = IF timer > 0 THEN timer - 1 ELSE timer
  /\ elapsed' = IF Measured THEN elapsed + 1 ELSE elapsed
  /\ UNCHANGED <<clusterVars, queued, dirty, pc, seen, result, after, up,
                 faults>>

Crash ==
  /\ up
  /\ faults < MaxFaults
  /\ faults' = faults + 1
  /\ up' = FALSE
  /\ queued' = FALSE /\ dirty' = FALSE /\ timer' = NoTimer
  /\ pc' = "idle"
  /\ seen' = Absent /\ result' = Absent /\ after' = 0 /\ elapsed' = 0
  /\ UNCHANGED clusterVars

\* The informer lists again: an existing policy is a creation.
Restart ==
  /\ ~up
  /\ up' = TRUE
  /\ cache' = server
  /\ queued' = (server.gen > 0)
  /\ UNCHANGED <<specs, server, dirty, timer, runVars, faults>>

\* The policy is gone and nothing is left to do.
Terminated ==
  /\ server.gen = 0 /\ cache.gen = 0
  /\ pc = "idle" /\ ~queued /\ timer = NoTimer
  /\ UNCHANGED vars

ReconcileStep ==
  \/ StartReconcile
  \/ GetNotFound
  \/ GetPolicy
  \/ EvaluateDisabled
  \/ EvaluateUnsupported
  \/ EvaluateInvalid
  \/ \E s \in {"Usable", "Unsupported"} : EvaluateRun(s)
  \/ PatchStatus
  \/ ReturnResult

Next ==
  \/ \E kind \in Kinds : UpdateSpec(kind)
  \/ DeletePolicy
  \/ WatchEvent
  \/ TimerFires
  \/ ReconcileStep
  \/ GetFailed
  \/ PatchStatusFailed
  \/ Tick
  \/ Crash
  \/ Restart
  \/ Terminated

Spec == Init /\ [][Next]_vars

(***************************************************************************)
(* Events are delivered, the worker of the controller runs, time passes    *)
(* and a crashed operator is restarted by its Deployment.                  *)
(***************************************************************************)
FairSpec ==
  /\ Spec
  /\ WF_vars(WatchEvent) /\ WF_vars(TimerFires)
  /\ WF_vars(ReconcileStep) /\ WF_vars(Tick) /\ WF_vars(Restart)

-----------------------------------------------------------------------------
(* Properties.                                                             *)

Conds == [reason : {"none", "Enabled", "Disabled", "InvalidNamespaceSelector",
                    "UnsafeConfig", "InvalidPodSelector", "Usable",
                    "Unsupported", "Reported"},
          gen : 0..MaxGen]
Policies == [gen : 0..MaxGen, observed : 0..MaxGen,
             active : Conds, support : Conds, metrics : Conds]

\* Every variable keeps its type.
TypeOK ==
  /\ specs \in Seq(Kinds) /\ Len(specs) \in 1..MaxGen
  /\ server \in Policies /\ cache \in Policies
  /\ seen \in Policies /\ result \in Policies
  /\ up \in BOOLEAN /\ queued \in BOOLEAN /\ dirty \in BOOLEAN
  /\ timer \in NoTimer..Interval
  /\ pc \in {"idle", "get", "evaluate", "patch", "return"}
  /\ after \in 0..Interval /\ elapsed \in 0..MaxElapsed
  /\ faults \in 0..MaxFaults

\* What a status says of generation observedGeneration is what the spec of
\* that generation deserves, although it was computed from a cached copy,
\* patched as a difference, and the spec may have changed twice meanwhile.
StatusHonest ==
  server.observed > 0 =>
    LET kind == specs[server.observed]
        reason == server.active.reason
    IN /\ server.active.gen = server.observed
       /\ reason = "Disabled" <=> kind = "disabled"
       /\ kind = "valid" => reason = "Enabled"
       /\ kind \notin {"valid", "disabled"} =>
            \/ reason = InvalidReason(kind)
            \/ server.support.reason = "Unsupported"

\* No lost wake-up: a policy whose newest spec the operator has not read yet
\* is queued, being read, or its event is on the way, also when the spec is
\* changed in the middle of a reconcile.
NoLostUpdate ==
  up /\ server.gen > 0 /\ cache = server /\ seen.gen # server.gen
    => queued \/ dirty \/ pc = "get"

\* The status never goes back to an older generation, nor ahead of the spec,
\* although each patch is computed from a copy that may be behind it.
StatusMovesForward ==
  [][server'.gen > 0 => /\ server.observed <= server'.observed
                        /\ server'.observed <= server'.gen]_server

\* A policy that is not being reconciled has its next reconcile to come: its
\* key is queued, a timer runs, or the event of its newest spec is on the way.
NotForgotten ==
  up /\ server.gen > 0 /\ pc = "idle"
    => queued \/ timer # NoTimer \/ cache.gen # server.gen

\* A policy that exists is reconciled again and again.
RunsAgain == pc = "idle" ~> (pc # "idle" \/ server.gen = 0)

\* No reconcile ever takes as long as the interval.
RunsAreShort == [](elapsed < Interval)

\* With short reconciles it is, whatever is deleted, fails or crashes.
RunsAgainIfShort == RunsAreShort => RunsAgain

\* With short reconciles no return path of Reconcile forgets the policy: each
\* leaves a requeue or an event behind, whatever fails, crashes or interleaves.
NeverForgotten == RunsAreShort => []NotForgotten

\* A new spec is eventually reported as observed: failed patches, restarts
\* and a lagging cache only delay it.
StatusCatchesUp ==
  RunsAreShort =>
    server.observed # server.gen ~> server.gen \in {0, server.observed}

=============================================================================
