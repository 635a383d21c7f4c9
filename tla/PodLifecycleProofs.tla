------------------------ MODULE PodLifecycleProofs --------------------------
(***************************************************************************)
(* Theorems about PodLifecycle, for any levels, any number of policies     *)
(* with any cooldowns and windows, and any number of faults and foreign    *)
(* writes.                                                                 *)
(*                                                                         *)
(* AskedInv relates every copy of the annotations, however stale, to the   *)
(* history of evaluations; CooldownInv and StreakInv relate the server's   *)
(* copy to the history as long as no patch is lost and no cache was stale; *)
(* HashInv relates its two halves, the requests and the hash of the last   *)
(* resize.                                                                 *)
(***************************************************************************)
EXTENDS PodLifecycle, TLAPS

\* Who writes a pending hash has asked for it, no later than it says.
AskedInv ==
  \A p \in {server, cache, pod} :
    p.pending # NoHash => asked[p.pending] >= p.since

\* The cache is older than the server only if it lags.
CacheInv == ~lagging => cache = server

\* last-resize-time is the time of the last resize, except while it is being
\* written; who passed the cooldown test has not been overtaken.
CooldownInv ==
  faults = 0 =>
    /\ pc # "annotate" => resized \in {NoTime, server.last}
    /\ pc = "annotate" => resized \in {NoTime, decided}
    /\ pc \in {"listed", "apply", "retry"} =>
         resized = NoTime \/ resized >= Cooldown[by]

\* The pending annotations of copy p say what was asked for last, and when.
Remembered(p) ==
  p.pending # NoHash =>
    streak.changing = p.pending /\ streak.changingAge >= p.since

StreakInv ==
  faults = 0 =>
    /\ Remembered(server)
    /\ pc = "listed" => Remembered(pod)

-----------------------------------------------------------------------------
(* Ages and copies of the pod.                                             *)

\* An age keeps its type as time passes, and no time stays no time.
LEMMA OlderType ==
  ASSUME NEW a \in Ages
  PROVE  /\ Older(a) \in Ages /\ Older(a) >= a
         /\ Older(a) = NoTime <=> a = NoTime
BY LifecycleAssumption DEF Ages, Older, NoTime

\* Time does not turn round which of two events was earlier.
LEMMA OlderMonotone ==
  ASSUME NEW a \in Ages, NEW b \in Ages, a >= b, b # NoTime
  PROVE  Older(a) >= Older(b)
BY LifecycleAssumption DEF Ages, Older, NoTime

\* A copy of the pod keeps all but its ages as time passes.
LEMMA OlderPodType ==
  ASSUME NEW p \in PodCopies
  PROVE  /\ OlderPod(p) \in PodCopies
         /\ OlderPod(p).pending = p.pending
         /\ OlderPod(p).last = Older(p.last)
         /\ OlderPod(p).since = Older(p.since)
<1>1. Older(p.last) \in Ages /\ Older(p.since) \in Ages
  BY OlderType DEF PodCopies
<1> QED BY <1>1 DEF OlderPod, PodCopies

\* The copy between two runs.
LEMMA NoPodType ==
  /\ NoPod \in PodCopies
  /\ NoPod.pending = NoHash /\ NoPod.since = NoTime /\ NoPod.last = NoTime
  /\ NoPod.level \in Levels
<1>1. \E l \in Levels : TRUE
  BY LifecycleAssumption
<1>2. (CHOOSE l \in Levels : TRUE) \in Levels
  BY <1>1
<1>3. NoTime \in Ages
  BY LifecycleAssumption DEF Ages, NoTime
<1> QED BY <1>2, <1>3 DEF NoPod, PodCopies

\* A pending hash has a time on a copy.
Timed(p) == p.pending = NoHash <=> p.since = NoTime

\* What ensurePending writes.
LEMMA PendingType ==
  ASSUME TypeOK, NEW l \in Levels
  PROVE  /\ Pending(pod, l) \in PodCopies /\ Timed(Pending(pod, l))
         /\ Pending(pod, l).last = server.last
         /\ IF pod.pending = l THEN Pending(pod, l) = server
            ELSE /\ Pending(pod, l).pending = l
                 /\ Pending(pod, l).since = 0
<1>1. 0 \in Ages /\ 0 # NoTime /\ l # NoHash
  BY LifecycleAssumption DEF Ages, NoTime
<1>2. server \in PodCopies /\ Timed(server) /\ Timed(pod)
  BY DEF TypeOK, Timed
<1>3. CASE pod.pending = l
  BY <1>1, <1>2, <1>3 DEF Pending, Timed
<1>4. CASE pod.pending # l
  BY <1>1, <1>2, <1>4 DEF Pending, Timed, PodCopies
<1> QED BY <1>3, <1>4

\* What is written after a resize.
LEMMA AnnotatedType ==
  ASSUME TypeOK
  PROVE  /\ Annotated(server) \in PodCopies
         /\ Annotated(server).pending = NoHash
         /\ Annotated(server).since = NoTime
         /\ Annotated(server).last = decided
<1>1. decided \in Ages /\ NoTime \in Ages
  BY LifecycleAssumption DEF TypeOK, Ages, NoTime
<1> QED BY <1>1 DEF TypeOK, Annotated, PodCopies

-----------------------------------------------------------------------------
(* Types.                                                                  *)

\* Nothing is written on the pod before the first run.
LEMMA InitType == Init => TypeOK
<1> SUFFICES ASSUME Init PROVE TypeOK
  OBVIOUS
<1>1. NoTime \in Ages /\ 0 \in 0..MaxAge /\ MaxAge \in 0..MaxAge
      /\ 0 \in 0..MaxExternal /\ 0 \in 0..MaxFaults
  BY LifecycleAssumption DEF Ages, NoTime
<1>2. server \in PodCopies /\ server.pending = NoHash /\ server.since = NoTime
  BY <1>1 DEF Init, PodCopies
<1>3. streak \in [level : Levels, changing : Levels \cup {NoHash},
                 age : 0..MaxAge, changingAge : 0..MaxAge]
  BY <1>1 DEF Init
<1>4. asked \in [Levels -> Ages]
  BY <1>1 DEF Init
<1> QED BY <1>1, <1>2, <1>3, <1>4, NoPodType DEF Init, TypeOK

\* The history of evaluations keeps its type.
LEMMA EvaluatedType ==
  ASSUME TypeOK, NEW l \in Levels, Evaluated(l)
  PROVE  /\ streak' \in [level : Levels, changing : Levels \cup {NoHash},
                         age : 0..MaxAge, changingAge : 0..MaxAge]
         /\ asked' \in [Levels -> Ages]
<1>1. 0 \in 0..MaxAge /\ 0 \in Ages
  BY LifecycleAssumption DEF Ages, NoTime
<1>2. asked' \in [Levels -> Ages]
  BY <1>1 DEF Evaluated, TypeOK
<1>3. streak' \in [level : Levels, changing : Levels \cup {NoHash},
                  age : 0..MaxAge, changingAge : 0..MaxAge]
  <2>1. /\ streak.changing \in Levels \cup {NoHash}
        /\ streak.age \in 0..MaxAge /\ streak.changingAge \in 0..MaxAge
    BY DEF TypeOK
  <2> QED BY <1>1, <2>1 DEF Evaluated
<1> QED BY <1>2, <1>3

\* A run that is over leaves no local state behind.
LEMMA ReturnType ==
  ASSUME Return
  PROVE  /\ pc' = "idle" /\ by' = Nobody /\ outdated' = FALSE
         /\ pod' \in PodCopies
         /\ pod'.pending = NoHash /\ pod'.since = NoTime
         /\ target' \in Levels /\ decided' \in 0..MaxAge
BY NoPodType, LifecycleAssumption DEF Return

\* Every step keeps the types.
LEMMA TypeStep == TypeOK /\ [Next]_vars => TypeOK'
<1> SUFFICES ASSUME TypeOK, [Next]_vars PROVE TypeOK'
  OBVIOUS
<1> USE DEF podVars, runVars, evalVars
<1>1. ASSUME NEW l \in Levels, ExternalWrite(l) PROVE TypeOK'
  <2>1. external' \in 0..MaxExternal
    BY <1>1, LifecycleAssumption DEF ExternalWrite, TypeOK
  <2>2. server' \in PodCopies /\ server'.pending = server.pending
        /\ server'.since = server.since
    BY <1>1 DEF ExternalWrite, TypeOK, PodCopies
  <2> QED BY <1>1, <2>1, <2>2 DEF ExternalWrite, TypeOK
<1>2. ASSUME NEW l \in Levels, Recreate(l) PROVE TypeOK'
  <2>1. external' \in 0..MaxExternal /\ NoTime \in Ages
    BY <1>2, LifecycleAssumption DEF Recreate, TypeOK, Ages, NoTime
  <2>2. server' \in PodCopies /\ server'.pending = NoHash
        /\ server'.since = NoTime
    BY <1>2, NoPodType DEF Recreate, TypeOK, PodCopies
  <2> QED BY <1>2, <2>1, <2>2 DEF Recreate, TypeOK
<1>3. CASE CacheSync
  BY <1>3 DEF CacheSync, TypeOK
<1>4. CASE Tick
  <2>1. /\ decided \in Ages /\ decided # NoTime
        /\ streak.age \in Ages /\ streak.age # NoTime
        /\ streak.changingAge \in Ages /\ streak.changingAge # NoTime
    BY LifecycleAssumption DEF TypeOK, Ages, NoTime
  <2>2. \A a \in Ages : a # NoTime => Older(a) \in 0..MaxAge
    BY OlderType, LifecycleAssumption DEF Ages, NoTime
  <2>3. decided' \in 0..MaxAge
    BY <1>4, <2>1, <2>2, LifecycleAssumption DEF Tick
  <2>4. streak' \in [level : Levels, changing : Levels \cup {NoHash},
                    age : 0..MaxAge, changingAge : 0..MaxAge]
    BY <1>4, <2>1, <2>2 DEF Tick, TypeOK
  <2>5. asked' \in [Levels -> Ages] /\ resized' \in Ages
    BY <1>4, OlderType DEF Tick, TypeOK
  <2>6. /\ server' \in PodCopies /\ cache' \in PodCopies
        /\ pod' \in PodCopies
        /\ server'.pending = NoHash <=> server'.since = NoTime
        /\ cache'.pending = NoHash <=> cache'.since = NoTime
        /\ pod'.pending = NoHash <=> pod'.since = NoTime
    <3>1. \A p \in PodCopies : p.since \in Ages
      BY DEF PodCopies
    <3> QED BY <1>4, <3>1, OlderPodType, OlderType DEF Tick, TypeOK
  <2> QED BY <1>4, <2>3, <2>4, <2>5, <2>6 DEF Tick, TypeOK
<1>5. ASSUME NEW q \in Policies, ListPods(q) PROVE TypeOK'
  <2>1. faults' \in 0..MaxFaults
    BY <1>5, LifecycleAssumption DEF ListPods, Fault, TypeOK
  <2> QED BY <1>5, <2>1, LifecycleAssumption DEF ListPods, TypeOK
<1>6. CASE SkipPod
  BY <1>6, ReturnType DEF SkipPod, TypeOK
<1>7. CASE NoChange
  <2>1. pod.level \in Levels
    BY DEF TypeOK, PodCopies
  <2> QED
    BY <1>7, <2>1, EvaluatedType, ReturnType DEF NoChange, TypeOK
<1>8. ASSUME NEW l \in Levels, NotStable(l) PROVE TypeOK'
  <2>1. faults' \in 0..MaxFaults
    BY <1>8, LifecycleAssumption DEF NotStable, Fault, TypeOK
  <2>2. server' \in PodCopies
        /\ (server'.pending = NoHash <=> server'.since = NoTime)
    BY <1>8, PendingType DEF NotStable, Timed, TypeOK
  <2>3. lagging' \in BOOLEAN
    BY <1>8 DEF NotStable, TypeOK
  <2> QED
    BY <1>8, <2>1, <2>2, <2>3, EvaluatedType, ReturnType
    DEF NotStable, TypeOK
<1>9. ASSUME NEW l \in Levels, Decide(l) PROVE TypeOK'
  BY <1>9, EvaluatedType, LifecycleAssumption DEF Decide, TypeOK
<1>10. ASSUME Resize
       PROVE  /\ server' \in PodCopies /\ server'.pending = server.pending
              /\ server'.since = server.since /\ resized' \in Ages
  BY <1>10, LifecycleAssumption DEF Resize, TypeOK, PodCopies, Ages, NoTime
<1>11. CASE Apply
  BY <1>10, <1>11 DEF Apply, Resize, TypeOK
<1>12. CASE ApplyLost
  <2>1. faults' \in 0..MaxFaults
    BY <1>12, LifecycleAssumption DEF ApplyLost, Fault, TypeOK
  <2> QED
    BY <1>10, <1>12, <2>1, ReturnType DEF ApplyLost, Resize, TypeOK
<1>13. CASE Conflict
  BY <1>13 DEF Conflict, TypeOK
<1>14. CASE ConflictAgain
  BY <1>14, ReturnType DEF ConflictAgain, TypeOK
<1>15. CASE Annotate
  <2>1. faults' \in 0..MaxFaults
    BY <1>15, LifecycleAssumption DEF Annotate, Fault, TypeOK
  <2>2. server' \in PodCopies
        /\ (server'.pending = NoHash <=> server'.since = NoTime)
    BY <1>15, AnnotatedType DEF Annotate, TypeOK
  <2> QED
    BY <1>15, <2>1, <2>2, ReturnType DEF Annotate, TypeOK
<1>16. CASE Crash
  <2>1. faults' \in 0..MaxFaults
    BY <1>16, LifecycleAssumption DEF Crash, Fault, TypeOK
  <2> QED BY <1>16, <2>1, ReturnType DEF Crash, TypeOK
<1>17. CASE UNCHANGED vars
  BY <1>17 DEF vars, TypeOK
<1> QED
  BY <1>1, <1>2, <1>3, <1>4, <1>5, <1>6, <1>7, <1>8, <1>9, <1>11, <1>12,
     <1>13, <1>14, <1>15, <1>16, <1>17 DEF Next, RunStep, Evaluate

\* Every variable keeps its type, and a pending hash always has its time: the
\* branch of ensurePending for a missing pending-since is never needed.
THEOREM TypeCorrect == Spec => []TypeOK
BY InitType, TypeStep, PTL DEF Spec

-----------------------------------------------------------------------------
(* Never on first sight.                                                   *)

\* An evaluation that asks for a level is remembered, and no older one is
\* forgotten.
LEMMA EvaluatedAsks ==
  ASSUME TypeOK, NEW l \in Levels, Evaluated(l)
  PROVE  /\ \A m \in Levels : asked'[m] >= asked[m]
         /\ l # pod.level => asked'[l] >= 0
<1>1. \A m \in Levels : asked[m] \in Int /\ asked[m] >= NoTime
  BY LifecycleAssumption DEF TypeOK, Ages, NoTime
<1> QED BY <1>1 DEF Evaluated, TypeOK, NoTime

\* A copy that was right stays right when older evaluations are kept.
LEMMA AskedKept ==
  ASSUME TypeOK, TypeOK', NEW p \in PodCopies,
         p.pending # NoHash => asked[p.pending] >= p.since,
         \A m \in Levels : asked'[m] >= asked[m]
  PROVE  p.pending # NoHash => asked'[p.pending] >= p.since
<1>1. p.pending # NoHash => p.pending \in Levels
  BY DEF PodCopies
<1>2. \A m \in Levels : asked[m] \in Int /\ asked'[m] \in Int
  BY LifecycleAssumption DEF TypeOK, Ages, NoTime
<1>3. p.since \in Int
  BY LifecycleAssumption DEF PodCopies, Ages, NoTime
<1> QED BY <1>1, <1>2, <1>3

\* Every step keeps AskedInv: a crash, a lost patch or a stale cache can bring
\* back an old annotation, never one that nobody asked for.
LEMMA AskedStep == TypeOK /\ TypeOK' /\ AskedInv /\ [Next]_vars => AskedInv'
<1> SUFFICES ASSUME TypeOK, TypeOK', AskedInv, [Next]_vars PROVE AskedInv'
  OBVIOUS
<1> DEFINE Fine(p) == p.pending # NoHash => asked[p.pending] >= p.since
<1> DEFINE FineNext(p) == p.pending # NoHash => asked'[p.pending] >= p.since
<1>1. Fine(server) /\ Fine(cache) /\ Fine(pod)
  BY DEF AskedInv
<1>2. FineNext(server') /\ FineNext(cache') /\ FineNext(pod') => AskedInv'
  BY DEF AskedInv
<1>3. FineNext(NoPod)
  BY NoPodType
<1>4. ASSUME NEW l \in Levels, Evaluated(l)
      PROVE  FineNext(server) /\ FineNext(cache) /\ FineNext(pod)
  BY <1>1, <1>4, EvaluatedAsks, AskedKept DEF TypeOK
<1>5. ASSUME NEW l \in Levels, ExternalWrite(l) PROVE AskedInv'
  <2>1. server'.pending = server.pending /\ server'.since = server.since
    BY <1>5 DEF ExternalWrite, TypeOK, PodCopies
  <2> QED BY <1>1, <1>2, <1>5, <2>1 DEF ExternalWrite, runVars, evalVars
<1>6. ASSUME NEW l \in Levels, Recreate(l) PROVE AskedInv'
  <2>1. server'.pending = NoHash
    BY <1>6, NoPodType DEF Recreate, PodCopies
  <2> QED BY <1>1, <1>2, <1>6, <2>1 DEF Recreate, runVars, evalVars
<1>7. CASE CacheSync
  BY <1>1, <1>2, <1>7 DEF CacheSync, runVars, evalVars
<1>8. CASE Tick
  <2>1. ASSUME NEW p \in PodCopies, Fine(p),
               p.pending = NoHash <=> p.since = NoTime
        PROVE  FineNext(OlderPod(p))
    <3> SUFFICES ASSUME p.pending # NoHash
                 PROVE  asked'[p.pending] >= Older(p.since)
      BY OlderPodType
    <3>1. p.pending \in Levels /\ p.since \in Ages
      BY DEF PodCopies
    <3>2. /\ asked[p.pending] \in Ages
          /\ asked'[p.pending] = Older(asked[p.pending])
      BY <1>8, <3>1 DEF Tick, TypeOK
    <3> QED BY <2>1, <3>1, <3>2, OlderMonotone
  <2> QED BY <1>1, <1>2, <1>8, <2>1 DEF Tick, TypeOK
<1>9. ASSUME NEW q \in Policies, ListPods(q) PROVE AskedInv'
  BY <1>1, <1>2, <1>9 DEF ListPods, evalVars
<1>10. CASE NoChange
  <2>1. pod.level \in Levels
    BY DEF TypeOK, PodCopies
  <2> QED BY <1>2, <1>3, <1>4, <1>10, <2>1 DEF NoChange, Return
<1>11. ASSUME NEW l \in Levels, NotStable(l) PROVE AskedInv'
  <2>1. FineNext(Pending(pod, l))
    BY <1>4, <1>11, PendingType, EvaluatedAsks DEF NotStable
  <2> QED BY <1>2, <1>3, <1>4, <1>11, <2>1 DEF NotStable, Return
<1>12. ASSUME NEW l \in Levels, Decide(l) PROVE AskedInv'
  BY <1>2, <1>4, <1>12 DEF Decide, podVars
<1>13. ASSUME Resize
       PROVE  server'.pending = server.pending /\ server'.since = server.since
  BY <1>13 DEF Resize, TypeOK, PodCopies
<1>14. CASE Apply
  BY <1>1, <1>2, <1>13, <1>14 DEF Apply, evalVars
<1>15. CASE ApplyLost
  BY <1>1, <1>2, <1>3, <1>13, <1>15 DEF ApplyLost, Return, evalVars
<1>16. CASE Annotate
  BY <1>1, <1>2, <1>3, <1>16, AnnotatedType DEF Annotate, Return, evalVars
<1>17. CASE SkipPod \/ ConflictAgain \/ Crash
  BY <1>1, <1>2, <1>3, <1>17
  DEF SkipPod, ConflictAgain, Crash, Return, evalVars
<1>18. CASE Conflict \/ UNCHANGED vars
  BY <1>1, <1>2, <1>18 DEF Conflict, vars, podVars, runVars, evalVars
<1> QED
  BY <1>5, <1>6, <1>7, <1>8, <1>9, <1>10, <1>11, <1>12, <1>14, <1>15, <1>16,
     <1>17, <1>18 DEF Next, RunStep, Evaluate

\* Whatever patch, answer or process is lost and however stale the cache: a
\* resize is decided on only if an evaluation asked for its target at least
\* the window before.
THEOREM NeverOnFirstSightCorrect == Spec => NeverOnFirstSight
<1> DEFINE A == \A l \in Levels : Decide(l) /\ Window[by] > 0 =>
                  asked[l] >= Window[by]
<1>1. Init => TypeOK /\ AskedInv
  BY InitType, NoPodType DEF Init, AskedInv
<1>2. TypeOK /\ AskedInv /\ [Next]_vars => TypeOK' /\ AskedInv'
  BY TypeStep, AskedStep
<1>3. TypeOK /\ AskedInv => A
  <2> SUFFICES ASSUME TypeOK, AskedInv, NEW l \in Levels, Decide(l),
                      Window[by] > 0
               PROVE  asked[l] >= Window[by]
    OBVIOUS
  <2>1. pod.pending = l /\ pod.since >= Window[by]
    BY DEF Decide, stabilizationAllows
  <2>2. asked[l] >= pod.since
    BY <2>1, LifecycleAssumption DEF AskedInv
  <2>3. by \in Policies
    BY DEF Decide, TypeOK
  <2>4. asked[l] \in Int /\ pod.since \in Int /\ Window[by] \in Int
    BY <2>3, LifecycleAssumption DEF TypeOK, PodCopies, Ages, NoTime
  <2> QED BY <2>1, <2>2, <2>4
<1> QED BY <1>1, <1>2, <1>3, PTL DEF Spec, NeverOnFirstSight

-----------------------------------------------------------------------------
(* The cooldown.                                                           *)

\* Every write of the pod makes the cache lag; time passes for both.
LEMMA CacheStep == CacheInv /\ [Next]_vars => CacheInv'
<1> SUFFICES ASSUME CacheInv, [Next]_vars PROVE CacheInv'
  OBVIOUS
<1> USE DEF CacheInv, podVars, evalVars, runVars
<1>1. ASSUME NEW l \in Levels, ExternalWrite(l) \/ Recreate(l) PROVE CacheInv'
  BY <1>1 DEF ExternalWrite, Recreate
<1>2. CASE CacheSync \/ Tick \/ SkipPod \/ NoChange
  BY <1>2 DEF CacheSync, Tick, SkipPod, NoChange
<1>3. ASSUME NEW q \in Policies, ListPods(q) PROVE CacheInv'
  BY <1>3 DEF ListPods
<1>4. ASSUME NEW l \in Levels, NotStable(l) \/ Decide(l) PROVE CacheInv'
  BY <1>4 DEF NotStable, Decide
<1>5. CASE Apply \/ ApplyLost
  BY <1>5 DEF Apply, ApplyLost, Resize
<1>6. CASE Conflict \/ ConflictAgain \/ Annotate \/ Crash \/ UNCHANGED vars
  BY <1>6 DEF Conflict, ConflictAgain, Annotate, Crash, vars
<1> QED BY <1>1, <1>2, <1>3, <1>4, <1>5, <1>6 DEF Next, RunStep, Evaluate

\* A history without faults goes back to the beginning.
LEMMA NoFaultBefore ==
  ASSUME TypeOK, [Next]_vars, faults' = 0
  PROVE  faults = 0 /\ ~ApplyLost /\ ~Crash
<1>1. faults' = faults \/ faults' = faults + 1
  BY DEF Next, ExternalWrite, Recreate, CacheSync, Tick, RunStep, ListPods,
         SkipPod, Evaluate, NoChange, NotStable, Decide, Apply, Conflict,
         ConflictAgain, Annotate, ApplyLost, Crash, Fault, vars
<1>2. faults = 0
  BY <1>1 DEF TypeOK
<1> QED BY <1>2 DEF ApplyLost, Crash, Fault

\* Every step keeps CooldownInv.  A conflict does not repeat the cooldown test,
\* which is sound: policies are reconciled one at a time, so nobody else has
\* resized the pod since.
LEMMA CooldownStep ==
  TypeOK /\ TypeOK' /\ CacheInv /\ CooldownInv /\ [Next]_vars => CooldownInv'
<1> SUFFICES ASSUME TypeOK, TypeOK', CacheInv, CooldownInv, [Next]_vars,
                    faults' = 0
             PROVE  CooldownInv'
  BY DEF CooldownInv
<1>1. faults = 0 /\ ~ApplyLost /\ ~Crash
  BY NoFaultBefore
<1> USE <1>1 DEF runVars, podVars, evalVars
<1>2. ASSUME NEW l \in Levels, ExternalWrite(l) PROVE CooldownInv'
  <2>1. server'.last = server.last
    BY <1>2 DEF ExternalWrite, TypeOK, PodCopies
  <2> QED BY <1>2, <2>1 DEF ExternalWrite, CooldownInv
<1>3. ASSUME NEW l \in Levels, Recreate(l) PROVE CooldownInv'
  BY <1>3 DEF Recreate, CooldownInv
<1>4. CASE CacheSync
  BY <1>4 DEF CacheSync, CooldownInv
<1>5. CASE Tick
  <2>1. server'.last = Older(server.last)
    BY <1>5, OlderPodType DEF Tick, TypeOK
  <2>2. resized' = Older(resized) /\ (resized' = NoTime <=> resized = NoTime)
    BY <1>5, OlderType DEF Tick, TypeOK
  <2>3. pc = "annotate" => decided' = Older(decided)
    BY <1>5 DEF Tick
  <2>4. ASSUME pc \in {"listed", "apply", "retry"}
        PROVE  resized' = NoTime \/ resized' >= Cooldown[by]
    <3>1. by \in Policies
      BY <2>4 DEF TypeOK
    <3>2. Cooldown[by] \in Int /\ resized \in Int /\ resized' \in Int
          /\ resized' >= resized
      BY <2>2, <3>1, OlderType, LifecycleAssumption DEF TypeOK, Ages, NoTime
    <3> QED BY <2>2, <2>4, <3>2 DEF CooldownInv
  <2> QED BY <1>5, <2>1, <2>2, <2>3, <2>4 DEF Tick, CooldownInv
<1>6. ASSUME NEW q \in Policies, ListPods(q) PROVE CooldownInv'
  <2>1. ~lagging /\ cache = server
    BY <1>6 DEF ListPods, Fault, CacheInv
  <2>2. resized \in {NoTime, server.last}
    BY <1>6 DEF ListPods, CooldownInv
  <2>3. server.last \in Int /\ server.last >= NoTime /\ Cooldown[q] \in Nat
    BY LifecycleAssumption DEF TypeOK, PodCopies, Ages, NoTime
  <2>4. resized = NoTime \/ resized >= Cooldown[q]
    BY <1>6, <2>1, <2>2, <2>3 DEF ListPods, shouldSkipByCooldown, NoTime
  <2> QED BY <1>6, <2>2, <2>4 DEF ListPods, CooldownInv
<1>7. ASSUME NEW l \in Levels, NotStable(l) PROVE CooldownInv'
  <2>1. server'.last = server.last
    BY <1>7, PendingType DEF NotStable
  <2> QED BY <1>7, <2>1 DEF NotStable, Return, CooldownInv
<1>8. ASSUME NEW l \in Levels, Decide(l) PROVE CooldownInv'
  BY <1>8 DEF Decide, CooldownInv
<1>9. CASE Apply
  BY <1>9 DEF Apply, Resize, CooldownInv
<1>10. CASE Conflict
  BY <1>10 DEF Conflict, CooldownInv
<1>11. CASE SkipPod \/ NoChange \/ ConflictAgain
  BY <1>11 DEF SkipPod, NoChange, ConflictAgain, Return, CooldownInv
<1>12. CASE Annotate
  <2>1. server'.last = decided
    BY <1>12, AnnotatedType DEF Annotate, Fault
  <2> QED BY <1>12, <2>1 DEF Annotate, Return, CooldownInv
<1>13. CASE UNCHANGED vars
  BY <1>13 DEF vars, CooldownInv
<1> QED
  BY <1>1, <1>2, <1>3, <1>4, <1>5, <1>6, <1>7, <1>8, <1>9, <1>10, <1>11,
     <1>12, <1>13 DEF Next, RunStep, Evaluate

\* The cooldown is kept as long as every patch arrives and the cache is in
\* step, for any number of policies and whatever others write to the pod.
THEOREM CooldownCorrect == Spec => CooldownWithoutFaults
<1> DEFINE IInv == TypeOK /\ CacheInv /\ CooldownInv
<1> DEFINE A == Resize /\ server.level # target /\ faults = 0 =>
                  resized = NoTime \/ resized >= Cooldown[by]
<1>1. Init => IInv
  BY InitType DEF Init, CacheInv, CooldownInv
<1>2. IInv /\ [Next]_vars => IInv'
  BY TypeStep, CacheStep, CooldownStep
<1>3. IInv => A
  BY DEF CooldownInv, Resize
<1> QED BY <1>1, <1>2, <1>3, PTL DEF Spec, CooldownWithoutFaults

-----------------------------------------------------------------------------
(* The stabilization window.                                               *)

\* Every policy has a stabilization window.  A policy without one resizes
\* to what it likes at once, and when that fails twice with a conflict the
\* pending hash of another policy stays.
AllWindows == \A p \in Policies : Window[p] > 0

\* An evaluation that repeats what was asked for last, or finds nothing to
\* change, leaves the memory alone.
LEMMA SameQuestion ==
  ASSUME TypeOK, NEW l \in Levels, Evaluated(l),
         l = pod.level \/ l = streak.changing
  PROVE  /\ streak'.changing = streak.changing
         /\ streak'.changingAge = streak.changingAge
BY DEF Evaluated, TypeOK

\* Every step keeps StreakInv.
LEMMA StreakStep ==
  ASSUME AllWindows
  PROVE  TypeOK /\ TypeOK' /\ CacheInv /\ StreakInv /\ [Next]_vars
           => StreakInv'
<1> SUFFICES ASSUME TypeOK, TypeOK', CacheInv, StreakInv, [Next]_vars,
                    faults' = 0
             PROVE  StreakInv'
  BY DEF StreakInv
<1>1. faults = 0 /\ ~ApplyLost /\ ~Crash
  BY NoFaultBefore
<1>2. Remembered(server) /\ (pc = "listed" => Remembered(pod))
  BY <1>1 DEF StreakInv
<1> USE DEF runVars, podVars, evalVars
<1>3. ASSUME NEW l \in Levels, ExternalWrite(l) PROVE StreakInv'
  <2>1. server'.pending = server.pending /\ server'.since = server.since
    BY <1>3 DEF ExternalWrite, TypeOK, PodCopies
  <2> QED BY <1>2, <1>3, <2>1 DEF ExternalWrite, StreakInv, Remembered
<1>4. ASSUME NEW l \in Levels, Recreate(l) PROVE StreakInv'
  <2>1. server'.pending = NoHash
    BY <1>4, NoPodType DEF Recreate, PodCopies
  <2> QED BY <1>2, <1>4, <2>1 DEF Recreate, StreakInv, Remembered
<1>5. CASE CacheSync
  BY <1>2, <1>5 DEF CacheSync, StreakInv, Remembered
<1>6. CASE Tick
  <2>1. /\ streak'.changing = streak.changing
        /\ streak'.changingAge = Older(streak.changingAge)
    BY <1>6 DEF Tick, TypeOK
  <2>2. streak.changingAge \in Ages
    BY LifecycleAssumption DEF TypeOK, Ages, NoTime
  <2>3. ASSUME NEW p \in PodCopies, Remembered(p),
               p.pending = NoHash <=> p.since = NoTime,
               p.pending # NoHash
        PROVE  /\ streak'.changing = OlderPod(p).pending
               /\ streak'.changingAge >= OlderPod(p).since
    <3>1. p.since \in Ages
      BY DEF PodCopies
    <3> QED BY <2>1, <2>2, <2>3, <3>1, OlderPodType, OlderMonotone
         DEF Remembered
  <2> QED BY <1>2, <1>6, <2>3, OlderPodType
       DEF Tick, StreakInv, Remembered, TypeOK
<1>7. ASSUME NEW q \in Policies, ListPods(q) PROVE StreakInv'
  <2>1. cache = server
    BY <1>1, <1>7 DEF ListPods, Fault, CacheInv
  <2> QED BY <1>2, <1>7, <2>1 DEF ListPods, StreakInv, Remembered
<1>8. CASE NoChange
  <2>1. pod.level \in Levels
    BY DEF TypeOK, PodCopies
  <2>2. /\ streak'.changing = streak.changing
        /\ streak'.changingAge = streak.changingAge
    BY <1>8, <2>1, SameQuestion DEF NoChange
  <2> QED BY <1>2, <1>8, <2>2 DEF NoChange, Return, StreakInv, Remembered
<1>9. ASSUME NEW l \in Levels, NotStable(l) PROVE StreakInv'
  <2>1. server' = Pending(pod, l) /\ pc' = "idle" /\ Evaluated(l)
        /\ l # pod.level /\ Remembered(pod)
    BY <1>1, <1>2, <1>9 DEF NotStable, Fault, Return
  <2>2. CASE pod.pending = l
    <3>1. l = streak.changing
      BY <2>1, <2>2, LifecycleAssumption DEF Remembered
    <3> QED BY <1>2, <2>1, <2>2, <3>1, SameQuestion, PendingType
         DEF StreakInv, Remembered
  <2>3. CASE pod.pending # l
    <3>1. streak'.changing = l /\ streak'.changingAge \in Nat
      BY <2>1, LifecycleAssumption DEF Evaluated, TypeOK
    <3> QED BY <2>1, <2>3, <3>1, PendingType DEF StreakInv, Remembered
  <2> QED BY <2>2, <2>3
<1>10. ASSUME NEW l \in Levels, Decide(l) PROVE StreakInv'
  <2>1. by \in Policies /\ pc' = "apply" /\ Evaluated(l) /\ UNCHANGED server
    BY <1>10 DEF Decide, TypeOK
  <2>2. pod.pending = l
    BY <1>10, <2>1 DEF AllWindows, Decide, stabilizationAllows
  <2>3. l = streak.changing
    BY <1>2, <1>10, <2>2, LifecycleAssumption DEF Decide, Remembered
  <2> QED BY <1>2, <2>1, <2>3, SameQuestion DEF StreakInv, Remembered
<1>11. CASE Apply
  <2>1. server'.pending = server.pending /\ server'.since = server.since
    BY <1>11 DEF Apply, Resize, TypeOK, PodCopies
  <2> QED BY <1>2, <1>11, <2>1 DEF Apply, StreakInv, Remembered
<1>12. CASE Annotate
  <2>1. server'.pending = NoHash
    BY <1>1, <1>12, AnnotatedType DEF Annotate, Fault
  <2> QED BY <1>12, <2>1 DEF Annotate, Return, StreakInv, Remembered
<1>13. CASE SkipPod \/ Conflict \/ ConflictAgain
  BY <1>2, <1>13
  DEF SkipPod, Conflict, ConflictAgain, Return, StreakInv, Remembered
<1>14. CASE UNCHANGED vars
  BY <1>2, <1>14 DEF vars, StreakInv, Remembered
<1> QED
  BY <1>1, <1>3, <1>4, <1>5, <1>6, <1>7, <1>8, <1>9, <1>10, <1>11, <1>12,
     <1>13, <1>14 DEF Next, RunStep, Evaluate

\* When every policy has a stabilization window, every patch arrives and the
\* cache is in step, no evaluation within the window asked for a resize to
\* another target than the one decided on.
THEOREM NoOtherTargetCorrect ==
  ASSUME AllWindows
  PROVE  Spec => NoOtherTarget
<1> DEFINE IInv == TypeOK /\ CacheInv /\ StreakInv
<1> DEFINE A == \A l \in Levels : Decide(l) /\ faults = 0 /\ Window[by] > 0 =>
                  streak.changing = l /\ streak.changingAge >= Window[by]
<1>1. Init => IInv
  BY InitType DEF Init, CacheInv, StreakInv, Remembered
<1>2. IInv /\ [Next]_vars => IInv'
  BY TypeStep, CacheStep, StreakStep
<1>3. IInv => A
  <2> SUFFICES ASSUME IInv, NEW l \in Levels, Decide(l), faults = 0,
                      Window[by] > 0
               PROVE  streak.changing = l /\ streak.changingAge >= Window[by]
    OBVIOUS
  <2>1. pod.pending = l /\ pod.since >= Window[by] /\ Remembered(pod)
    BY DEF Decide, stabilizationAllows, StreakInv
  <2>2. streak.changing = l /\ streak.changingAge >= pod.since
    BY <2>1, LifecycleAssumption DEF Remembered
  <2>3. by \in Policies
    BY DEF Decide, TypeOK
  <2>4. streak.changingAge \in Int /\ pod.since \in Int /\ Window[by] \in Int
    BY <2>3, LifecycleAssumption DEF TypeOK, PodCopies, Ages, NoTime
  <2> QED BY <2>1, <2>2, <2>4
<1> QED BY <1>1, <1>2, <1>3, PTL DEF Spec, NoOtherTarget

-----------------------------------------------------------------------------
(* The hash of the last resize.                                            *)

\* last-applied-hash is the hash of the requests that copy p has.
Current(p) == p.applied \in {NoHash, p.level}

\* It is, except while it is being written, and on the copy of a run.
HashInv ==
  faults = 0 /\ external = 0 =>
    /\ pc # "annotate" => Current(server)
    /\ pc = "annotate" => server.level = target
    /\ pc = "listed" => Current(pod)

\* Every step keeps HashInv.
LEMMA HashStep ==
  TypeOK /\ TypeOK' /\ CacheInv /\ HashInv /\ [Next]_vars => HashInv'
<1> SUFFICES ASSUME TypeOK, TypeOK', CacheInv, HashInv, [Next]_vars,
                    faults' = 0, external' = 0
             PROVE  HashInv'
  BY DEF HashInv
<1>1. faults = 0 /\ ~ApplyLost /\ ~Crash
  BY NoFaultBefore
<1>2. /\ external = 0
      /\ \A l \in Levels : ~ExternalWrite(l) /\ ~Recreate(l)
  <2>1. external \in Nat
    BY DEF TypeOK
  <2>2. \A l \in Levels : ~ExternalWrite(l) /\ ~Recreate(l)
    BY <2>1 DEF ExternalWrite, Recreate
  <2> QED BY <2>2
       DEF Next, CacheSync, Tick, RunStep, ListPods, SkipPod, Evaluate,
           NoChange, NotStable, Decide, Apply, Conflict, ConflictAgain,
           Annotate, ApplyLost, Crash, vars
<1> USE <1>1, <1>2 DEF runVars, podVars, evalVars
<1>3. CASE CacheSync
  BY <1>3 DEF CacheSync, HashInv, Current
<1>4. CASE Tick
  <2>1. \A p \in PodCopies : /\ OlderPod(p).level = p.level
                             /\ OlderPod(p).applied = p.applied
    BY DEF OlderPod, PodCopies
  <2>2. /\ server'.level = server.level /\ server'.applied = server.applied
        /\ pod'.level = pod.level /\ pod'.applied = pod.applied
    BY <1>4, <2>1 DEF Tick, TypeOK
  <2> QED BY <1>4, <2>2 DEF Tick, HashInv, Current
<1>5. ASSUME NEW q \in Policies, ListPods(q) PROVE HashInv'
  <2>1. cache = server
    BY <1>5 DEF ListPods, Fault, CacheInv, TypeOK
  <2> QED BY <1>5, <2>1 DEF ListPods, HashInv, Current
<1>6. ASSUME NEW l \in Levels, NotStable(l) PROVE HashInv'
  <2>1. /\ server'.level = server.level /\ server'.applied = server.applied
    BY <1>6 DEF NotStable, Pending, TypeOK, PodCopies
  <2> QED BY <1>6, <2>1 DEF NotStable, Return, HashInv, Current
<1>7. ASSUME NEW l \in Levels, Decide(l) PROVE HashInv'
  BY <1>7 DEF Decide, HashInv, Current
<1>8. CASE Apply
  <2>1. server'.level = target
    BY <1>8 DEF Apply, Resize, TypeOK, PodCopies
  <2> QED BY <1>8, <2>1 DEF Apply, HashInv
<1>9. CASE Conflict
  BY <1>9 DEF Conflict, HashInv, Current
<1>10. CASE SkipPod \/ NoChange \/ ConflictAgain
  BY <1>10 DEF SkipPod, NoChange, ConflictAgain, Return, HashInv, Current
<1>11. CASE Annotate
  <2>1. server' = Annotated(server) /\ server.level = target
    BY <1>11 DEF Annotate, Fault, TypeOK, HashInv
  <2>2. server'.level = target /\ server'.applied = target
    BY <2>1 DEF Annotated, TypeOK, PodCopies
  <2> QED BY <1>11, <2>2 DEF Annotate, Return, HashInv, Current
<1>12. CASE UNCHANGED vars
  BY <1>12 DEF vars, HashInv, Current
<1> QED
  BY <1>3, <1>4, <1>5, <1>6, <1>7, <1>8, <1>9, <1>10, <1>11, <1>12
  DEF Next, RunStep, Evaluate

\* Without failures and foreign writes last-applied-hash never blocks a change
\* that is asked for, for any number of policies and levels.
THEOREM NeverBlockedCorrect == Spec => NeverBlocked
<1> DEFINE IInv == TypeOK /\ CacheInv /\ HashInv
<1> DEFINE A == \A l \in Levels : NotStable(l) /\ faults = 0 /\ external = 0
                  => pod.applied # l
<1>1. Init => IInv
  BY InitType DEF Init, CacheInv, HashInv, Current
<1>2. IInv /\ [Next]_vars => IInv'
  BY TypeStep, CacheStep, HashStep
<1>3. IInv => A
  BY LifecycleAssumption DEF HashInv, Current, NotStable
<1> QED BY <1>1, <1>2, <1>3, PTL DEF Spec, NeverBlocked

=============================================================================
