------------------------ MODULE ControllerLoopProofs ------------------------
(***************************************************************************)
(* Theorems about ControllerLoop, for any number of generations of any     *)
(* kinds, any interval and any number of faults.                           *)
(*                                                                         *)
(* GenInv orders the generations of the copies of a policy, WakeInv says   *)
(* who will look at a generation that has not been read, HonestInv relates *)
(* the statuses of the copies (a patch is a difference, and what it leaves *)
(* alone must already be right on the API server), and KeptInv says what   *)
(* brings the next reconcile about.                                        *)
(***************************************************************************)
EXTENDS ControllerLoop, TLAPS

\* A policy is never created again; every copy has a generation there was.  A
\* copy is read only by an operator that is up, and only of a policy.
GenInv ==
  /\ server.gen \in {0, Len(specs)}
  /\ cache.gen <= Len(specs) /\ seen.gen <= Len(specs)
  /\ pc = "evaluate" => seen.gen > 0

\* The work queue never holds a key that is being processed, and a generation
\* that is in the cache has been read or will be.
WakeInv ==
  /\ pc # "idle" => up /\ ~queued
  /\ up /\ cache.gen > 0 /\ seen.gen # cache.gen
       => queued \/ dirty \/ pc = "get"

\* The Active condition (and the other one, if it ends a reconcile first) is
\* what a spec of this kind deserves.
Deserved(kind, active, support) ==
  /\ active.reason = "Disabled" <=> kind = "disabled"
  /\ kind = "valid" => active.reason = "Enabled"
  /\ kind \notin {"valid", "disabled"} =>
       active.reason = InvalidReason(kind) \/ support.reason = "Unsupported"

\* A copy whose status is right for the generation it names.
Honest(obj) ==
  /\ obj.observed <= Len(specs) /\ obj.active.gen = obj.observed
  /\ obj.observed > 0 =>
       Deserved(specs[obj.observed], obj.active, obj.support)

\* Statuses only move forward, through the cache and the copy of a run.
HonestInv ==
  /\ Honest(server) /\ Honest(cache)
  /\ server.gen > 0 => /\ cache.observed <= server.observed
                       /\ server.observed <= cache.gen
  /\ pc \in {"evaluate", "patch"} =>
       /\ seen.gen > 0 /\ Honest(seen)
       /\ server.gen > 0 => /\ seen.observed <= server.observed
                            /\ server.observed <= seen.gen
                            /\ seen.gen <= cache.gen
  /\ pc = "patch" =>
       /\ result.active.gen = seen.gen
       /\ Deserved(specs[seen.gen], result.active, result.support)

-----------------------------------------------------------------------------
(* Types.                                                                  *)

\* A policy that is not there.
LEMMA AbsentType ==
  /\ Absent \in Policies
  /\ Absent.gen = 0 /\ Absent.observed = 0 /\ Absent.active.gen = 0
BY LoopAssumption DEF Absent, Policies, Conds, NoCond

\* A new generation leaves the specs of the older ones alone.
LEMMA AppendSpec ==
  ASSUME TypeOK, NEW kind \in Kinds
  PROVE  /\ Append(specs, kind) \in Seq(Kinds)
         /\ Len(Append(specs, kind)) = Len(specs) + 1
         /\ \A i \in 1..Len(specs) : Append(specs, kind)[i] = specs[i]
BY DEF TypeOK

\* The conditions that Reconcile sets.
LEMMA CondType ==
  ASSUME TypeOK,
         NEW reason \in {"Enabled", "Disabled", "InvalidNamespaceSelector",
                        "UnsafeConfig", "InvalidPodSelector", "Usable",
                        "Unsupported", "Reported"}
  PROVE  Cond(reason) \in Conds /\ Cond(reason).reason = reason
         /\ Cond(reason).gen = seen.gen
<1>1. seen.gen \in 0..MaxGen
  BY DEF TypeOK, Policies
<1> QED BY <1>1 DEF Cond, Conds

\* What is patched is a policy of the same generation.
LEMMA PatchedType ==
  ASSUME TypeOK
  PROVE  Patched(server) \in Policies /\ Patched(server).gen = server.gen
<1> DEFINE new == [result EXCEPT !.observed = seen.gen]
<1> DEFINE withObserved == IF new.observed # seen.observed
                           THEN [server EXCEPT !.observed = new.observed]
                           ELSE server
<1>1. /\ new.observed = seen.gen /\ new.observed \in 0..MaxGen
      /\ new.active \in Conds /\ new.support \in Conds /\ new.metrics \in Conds
  BY DEF TypeOK, Policies
<1> HIDE DEF new
<1>2. withObserved \in Policies /\ withObserved.gen = server.gen
  BY <1>1 DEF TypeOK, Policies
<1> HIDE DEF withObserved
<1>3. Patched(server) =
        IF Conditions(new) # Conditions(seen)
        THEN [withObserved EXCEPT !.active = new.active,
                                  !.support = new.support,
                                  !.metrics = new.metrics]
        ELSE withObserved
  BY DEF Patched, new, withObserved
<1>4. [withObserved EXCEPT !.active = new.active, !.support = new.support,
                           !.metrics = new.metrics] \in Policies
      /\ [withObserved EXCEPT !.active = new.active, !.support = new.support,
                              !.metrics = new.metrics].gen = server.gen
  BY <1>1, <1>2 DEF Policies
<1> QED BY <1>2, <1>3, <1>4

\* The policy has been created, nobody has seen it.
LEMMA InitType == Init => TypeOK /\ GenInv
<1> SUFFICES ASSUME Init PROVE TypeOK /\ GenInv
  OBVIOUS
<1>1. specs \in Seq(Kinds) /\ Len(specs) = 1
  <2>1. PICK kind \in Kinds : specs = <<kind>>
    BY DEF Init
  <2> QED BY <2>1
<1>2. server \in Policies /\ server.gen = 1
  BY AbsentType, LoopAssumption DEF Init, Policies
<1>3. TypeOK
  <2>1. /\ 1 \in 1..MaxGen /\ timer \in NoTimer..Interval
        /\ after \in 0..Interval /\ elapsed \in 0..MaxElapsed
        /\ faults \in 0..MaxFaults
    BY LoopAssumption DEF Init, NoTimer
  <2> QED BY <1>1, <1>2, <2>1, AbsentType DEF Init, TypeOK
<1>4. GenInv
  BY <1>1, <1>2, AbsentType DEF Init, GenInv
<1> QED BY <1>3, <1>4

\* Every step keeps the types and the order of generations.
LEMMA TypeStep ==
  TypeOK /\ GenInv /\ [Next]_vars => TypeOK' /\ GenInv'
<1> SUFFICES ASSUME TypeOK, GenInv, [Next]_vars PROVE TypeOK' /\ GenInv'
  OBVIOUS
<1> USE DEF clusterVars, queueVars, runVars
<1>0. /\ Len(specs) \in Nat \ {0} /\ server.gen \in Nat /\ cache.gen \in Nat
      /\ seen.gen \in Nat
  BY DEF TypeOK, Policies
<1>1. ASSUME NEW kind \in Kinds, UpdateSpec(kind) PROVE TypeOK' /\ GenInv'
  <2>1. server.gen = Len(specs) /\ Len(specs) \in 1..MaxGen - 1
    BY <1>1 DEF UpdateSpec, GenInv
  <2>2. server' \in Policies /\ server'.gen = server.gen + 1
    <3>1. server.gen + 1 \in 0..MaxGen
      BY <1>0, <2>1, LoopAssumption
    <3> QED BY <1>1, <3>1 DEF UpdateSpec, TypeOK, Policies
  <2>3. specs' \in Seq(Kinds) /\ Len(specs') = Len(specs) + 1
    BY <1>1, AppendSpec DEF UpdateSpec
  <2>4. Len(specs') \in 1..MaxGen
    BY <2>1, <2>3, LoopAssumption
  <2>5. TypeOK'
    BY <1>1, <2>2, <2>3, <2>4 DEF UpdateSpec, TypeOK
  <2>6. GenInv'
    BY <1>0, <1>1, <2>1, <2>2, <2>3 DEF UpdateSpec, GenInv
  <2> QED BY <2>5, <2>6
<1>2. CASE DeletePolicy
  BY <1>2, AbsentType DEF DeletePolicy, TypeOK, GenInv
<1>3. CASE WatchEvent
  <2>1. TypeOK'
    BY <1>3 DEF WatchEvent, Enqueue, TypeOK
  <2>2. GenInv'
    BY <1>0, <1>3 DEF WatchEvent, GenInv
  <2> QED BY <2>1, <2>2
<1>4. CASE TimerFires
  BY <1>4, LoopAssumption DEF TimerFires, Enqueue, TypeOK, GenInv, NoTimer
<1>5. CASE StartReconcile
  BY <1>5 DEF StartReconcile, TypeOK, GenInv
<1>6. ASSUME NEW again \in BOOLEAN, Done(again), UNCHANGED <<clusterVars, up>>,
             timer' \in NoTimer..Interval, faults' \in 0..MaxFaults
      PROVE  TypeOK' /\ GenInv'
  <2>1. seen' \in Policies /\ seen'.gen = seen.gen
    BY <1>6, AbsentType DEF Done, TypeOK, Policies
  <2>2. queued' \in BOOLEAN /\ after' \in 0..Interval
        /\ elapsed' \in 0..MaxElapsed
    BY <1>6, LoopAssumption DEF Done
  <2>3. TypeOK'
    BY <1>6, <2>1, <2>2, AbsentType DEF Done, TypeOK
  <2>4. GenInv'
    BY <1>6, <2>1 DEF Done, GenInv
  <2> QED BY <2>3, <2>4
<1>7. CASE ReturnResult
  <2>1. timer' \in NoTimer..Interval
    BY <1>7, LoopAssumption DEF ReturnResult, AddAfter, TypeOK, NoTimer
  <2> QED BY <1>6, <1>7, <2>1 DEF ReturnResult, TypeOK
<1>8. CASE GetNotFound
  BY <1>6, <1>8 DEF GetNotFound, TypeOK
<1>9. CASE GetFailed
  <2>1. faults' \in 0..MaxFaults
    BY <1>9, LoopAssumption DEF GetFailed, TypeOK
  <2> QED BY <1>6, <1>9, <2>1 DEF GetFailed, TypeOK
<1>10. CASE GetPolicy
  BY <1>10 DEF GetPolicy, TypeOK, GenInv
<1>11. ASSUME NEW status \in Policies, ReturnEarly(status)
       PROVE  TypeOK' /\ GenInv'
  BY <1>11, LoopAssumption DEF ReturnEarly, TypeOK, GenInv
<1>12. CASE EvaluateDisabled
  <2>1. [seen EXCEPT !.active = Cond("Disabled")] \in Policies
    BY CondType DEF TypeOK, Policies
  <2> QED BY <1>11, <1>12, <2>1 DEF EvaluateDisabled
<1>13. CASE EvaluateUnsupported
  <2>1. [seen EXCEPT !.active = Cond("Enabled"),
                     !.support = Cond("Unsupported")] \in Policies
    BY CondType DEF TypeOK, Policies
  <2> QED BY <1>11, <1>13, <2>1 DEF EvaluateUnsupported
<1>14. CASE EvaluateInvalid
  <2>1. InvalidReason(specs[seen.gen]) \in
          {"InvalidNamespaceSelector", "UnsafeConfig", "InvalidPodSelector"}
    BY <1>14 DEF EvaluateInvalid, InvalidReason
  <2>2. [seen EXCEPT !.active = Cond(InvalidReason(specs[seen.gen])),
                     !.support = Cond("Usable")] \in Policies
    BY <2>1, CondType DEF TypeOK, Policies
  <2> QED BY <1>11, <1>14, <2>2 DEF EvaluateInvalid
<1>15. ASSUME NEW s \in {"Usable", "Unsupported"}, EvaluateRun(s)
       PROVE  TypeOK' /\ GenInv'
  <2>1. [seen EXCEPT !.active = Cond("Enabled"), !.support = Cond(s),
                     !.metrics = Cond("Reported")] \in Policies
    BY CondType DEF TypeOK, Policies
  <2>2. RequeueAfter \in 0..Interval
    BY LoopAssumption DEF RequeueAfter, TypeOK
  <2> QED BY <1>15, <2>1, <2>2, LoopAssumption DEF EvaluateRun, TypeOK, GenInv
<1>16. CASE PatchStatus
  BY <1>16, PatchedType DEF PatchStatus, TypeOK, GenInv
<1>17. CASE PatchStatusFailed
  BY <1>17, LoopAssumption DEF PatchStatusFailed, TypeOK, GenInv
<1>18. CASE Tick
  <2>1. timer' \in NoTimer..Interval /\ elapsed' \in 0..MaxElapsed
    BY <1>18, LoopAssumption DEF Tick, TypeOK, NoTimer
  <2> QED BY <1>18, <2>1 DEF Tick, TypeOK, GenInv
<1>19. CASE Crash
  <2>1. /\ timer' \in NoTimer..Interval /\ faults' \in 0..MaxFaults
        /\ after' \in 0..Interval /\ elapsed' \in 0..MaxElapsed
    BY <1>19, LoopAssumption DEF Crash, TypeOK, NoTimer
  <2>2. TypeOK'
    BY <1>19, <2>1, AbsentType DEF Crash, TypeOK
  <2>3. GenInv'
    BY <1>0, <1>19, AbsentType DEF Crash, GenInv
  <2> QED BY <2>2, <2>3
<1>20. CASE Restart
  BY <1>20 DEF Restart, TypeOK, GenInv, Policies
<1>21. CASE UNCHANGED vars
  BY <1>21 DEF vars, TypeOK, GenInv
<1> QED
  BY <1>1, <1>2, <1>3, <1>4, <1>5, <1>7, <1>8, <1>9, <1>10, <1>12, <1>13,
     <1>14, <1>15, <1>16, <1>17, <1>18, <1>19, <1>20, <1>21
  DEF Next, ReconcileStep, Terminated

\* Every variable keeps its type.
THEOREM TypeCorrect == Spec => []TypeOK
<1>1. TypeOK /\ GenInv /\ [Next]_vars => TypeOK' /\ GenInv'
  BY TypeStep
<1> QED BY <1>1, InitType, PTL DEF Spec

-----------------------------------------------------------------------------
(* No lost wake-up.                                                        *)

\* Every step keeps WakeInv: an event that arrives during a reconcile marks
\* the key dirty, and the end of the reconcile queues it again.
LEMMA WakeStep == TypeOK /\ WakeInv /\ [Next]_vars => WakeInv'
<1> SUFFICES ASSUME TypeOK, WakeInv, [Next]_vars PROVE WakeInv'
  OBVIOUS
<1> USE DEF WakeInv, clusterVars, queueVars, runVars
<1>1. ASSUME NEW kind \in Kinds, UpdateSpec(kind) PROVE WakeInv'
  BY <1>1 DEF UpdateSpec
<1>2. CASE DeletePolicy
  BY <1>2 DEF DeletePolicy
<1>3. CASE WatchEvent
  BY <1>3 DEF WatchEvent, PassesFilter, Enqueue, TypeOK
<1>4. CASE TimerFires
  BY <1>4 DEF TimerFires, Enqueue, TypeOK
<1>5. CASE StartReconcile
  BY <1>5 DEF StartReconcile
<1>6. ASSUME NEW again, Done(again) PROVE seen'.gen = seen.gen
  BY <1>6, AbsentType DEF Done, Policies
<1>7. CASE ReturnResult
  BY <1>6, <1>7 DEF ReturnResult, Done, TypeOK
<1>8. CASE GetNotFound
  BY <1>6, <1>8 DEF GetNotFound, Done
<1>9. CASE GetFailed
  BY <1>6, <1>9 DEF GetFailed, Done
<1>10. CASE GetPolicy
  BY <1>10 DEF GetPolicy
<1>11. CASE EvaluateDisabled \/ EvaluateUnsupported \/ EvaluateInvalid
  BY <1>11
  DEF EvaluateDisabled, EvaluateUnsupported, EvaluateInvalid, ReturnEarly
<1>12. ASSUME NEW s \in {"Usable", "Unsupported"}, EvaluateRun(s)
       PROVE  WakeInv'
  BY <1>12 DEF EvaluateRun
<1>13. CASE PatchStatus \/ PatchStatusFailed
  BY <1>13 DEF PatchStatus, PatchStatusFailed
<1>14. CASE Tick
  BY <1>14 DEF Tick
<1>15. CASE Crash
  BY <1>15 DEF Crash
<1>16. CASE Restart
  BY <1>16 DEF Restart
<1>17. CASE UNCHANGED vars
  BY <1>17 DEF vars
<1> HIDE DEF WakeInv, clusterVars, queueVars, runVars
<1> QED
  BY <1>1, <1>2, <1>3, <1>4, <1>5, <1>7, <1>8, <1>9, <1>10, <1>11, <1>12,
     <1>13, <1>14, <1>15, <1>16, <1>17 DEF Next, ReconcileStep, Terminated

\* A policy whose newest spec has not been read is queued, about to be queued
\* or being read, in whichever order events and reconciles come.
THEOREM NoLostUpdateCorrect == Spec => []NoLostUpdate
<1>1. Init => TypeOK /\ GenInv /\ WakeInv
  BY InitType, AbsentType DEF Init, WakeInv
<1>2. TypeOK /\ GenInv /\ WakeInv /\ [Next]_vars
        => TypeOK' /\ GenInv' /\ WakeInv'
  BY TypeStep, WakeStep
<1>3. WakeInv => NoLostUpdate
  BY DEF WakeInv, NoLostUpdate
<1> QED BY <1>1, <1>2, <1>3, PTL DEF Spec

-----------------------------------------------------------------------------
(* An honest status.                                                       *)

\* The patch of a reconcile makes the status right for the generation it read:
\* either all conditions are sent, or the API server has seen a status for
\* this generation already.
LEMMA PatchedHonest ==
  ASSUME TypeOK, GenInv, HonestInv, pc = "patch", server.gen > 0
  PROVE  /\ Honest(Patched(server)) /\ Patched(server).observed = seen.gen
         /\ Patched(server).gen = server.gen
<1> DEFINE new == [result EXCEPT !.observed = seen.gen]
<1> DEFINE withObserved == IF new.observed # seen.observed
                           THEN [server EXCEPT !.observed = new.observed]
                           ELSE server
<1> DEFINE full == [withObserved EXCEPT !.active = new.active,
                                        !.support = new.support,
                                        !.metrics = new.metrics]
<1>1. /\ seen.gen \in Nat /\ seen.gen > 0 /\ seen.gen <= Len(specs)
      /\ server.observed \in Nat /\ seen.observed \in Nat
      /\ seen.observed <= server.observed /\ server.observed <= seen.gen
      /\ seen.active.gen = seen.observed
      /\ result.active.gen = seen.gen
      /\ Deserved(specs[seen.gen], result.active, result.support)
  BY DEF HonestInv, Honest, GenInv, TypeOK, Policies
<1>2. /\ new.observed = seen.gen /\ new.active = result.active
      /\ new.support = result.support
  BY DEF TypeOK, Policies
<1>3. Patched(server) = IF Conditions(new) # Conditions(seen) THEN full
                        ELSE withObserved
  BY DEF Patched
<1> HIDE DEF new
<1>4. /\ withObserved.observed = seen.gen /\ withObserved.gen = server.gen
      /\ DOMAIN withObserved =
           {"gen", "observed", "active", "support", "metrics"}
  <2>1. CASE new.observed # seen.observed
    BY <1>2, <2>1 DEF TypeOK, Policies
  <2>2. CASE new.observed = seen.observed
    BY <1>1, <1>2, <2>2 DEF TypeOK, Policies
  <2> QED BY <2>1, <2>2
<1>5. CASE Conditions(new) # Conditions(seen)
  <2> HIDE DEF withObserved
  <2>1. /\ full.observed = seen.gen /\ full.gen = server.gen
        /\ full.active = result.active /\ full.support = result.support
    BY <1>2, <1>4
  <2> QED BY <1>1, <1>3, <1>5, <2>1 DEF Honest
<1>6. CASE Conditions(new) = Conditions(seen)
  <2>1. seen.observed = seen.gen
    BY <1>1, <1>2, <1>6 DEF Conditions
  <2>2. withObserved = server /\ server.observed = seen.gen
    BY <1>1, <1>2, <2>1
  <2> QED BY <1>3, <1>6, <2>2 DEF HonestInv
<1> QED BY <1>5, <1>6

\* The conditions Reconcile sets are what the spec it has read deserves.
LEMMA EvaluatedDeserved ==
  ASSUME TypeOK, GenInv, pc = "evaluate",
         \/ EvaluateDisabled \/ EvaluateUnsupported \/ EvaluateInvalid
         \/ \E s \in {"Usable", "Unsupported"} : EvaluateRun(s)
  PROVE  /\ result'.active.gen = seen.gen
         /\ Deserved(specs[seen.gen], result'.active, result'.support)
         /\ pc' = "patch" /\ UNCHANGED <<clusterVars, seen>>
<1>1. specs[seen.gen] \in SpecKinds
  BY LoopAssumption DEF TypeOK, GenInv, Policies
<1> USE DEF Deserved
<1>2. CASE EvaluateDisabled
  <2>1. result' = [seen EXCEPT !.active = Cond("Disabled")]
        /\ specs[seen.gen] = "disabled"
    BY <1>2 DEF EvaluateDisabled, ReturnEarly
  <2>2. result'.active = Cond("Disabled")
    BY <2>1 DEF TypeOK, Policies
  <2> QED BY <1>2, <2>1, <2>2, CondType DEF EvaluateDisabled, ReturnEarly
<1>3. CASE EvaluateUnsupported
  <2>1. result' = [seen EXCEPT !.active = Cond("Enabled"),
                               !.support = Cond("Unsupported")]
        /\ specs[seen.gen] # "disabled"
    BY <1>3 DEF EvaluateUnsupported, ReturnEarly
  <2>2. result'.active = Cond("Enabled")
        /\ result'.support = Cond("Unsupported")
    BY <2>1 DEF TypeOK, Policies
  <2> QED BY <1>3, <2>1, <2>2, CondType DEF EvaluateUnsupported, ReturnEarly
<1>4. CASE EvaluateInvalid
  <2>1. result' = [seen EXCEPT
                     !.active = Cond(InvalidReason(specs[seen.gen])),
                     !.support = Cond("Usable")]
        /\ specs[seen.gen] \in {"badNamespaces", "unsafe", "badPods"}
    BY <1>4 DEF EvaluateInvalid, ReturnEarly
  <2>2. result'.active = Cond(InvalidReason(specs[seen.gen]))
    BY <2>1 DEF TypeOK, Policies
  <2>3. InvalidReason(specs[seen.gen]) \in
          {"InvalidNamespaceSelector", "UnsafeConfig", "InvalidPodSelector"}
    BY <2>1 DEF InvalidReason
  <2> QED BY <1>4, <2>1, <2>2, <2>3, CondType DEF EvaluateInvalid, ReturnEarly
<1>5. ASSUME NEW s \in {"Usable", "Unsupported"}, EvaluateRun(s)
      PROVE  /\ result'.active.gen = seen.gen
             /\ Deserved(specs[seen.gen], result'.active, result'.support)
             /\ pc' = "patch" /\ UNCHANGED <<clusterVars, seen>>
  <2>1. result'.active = Cond("Enabled") /\ specs[seen.gen] = "valid"
    BY <1>5 DEF EvaluateRun, TypeOK, Policies
  <2> QED BY <1>5, <2>1, CondType DEF EvaluateRun
<1> QED BY <1>2, <1>3, <1>4, <1>5

\* Every step keeps HonestInv.
LEMMA HonestStep ==
  TypeOK /\ GenInv /\ HonestInv /\ [Next]_vars => HonestInv'
<1> SUFFICES ASSUME TypeOK, GenInv, HonestInv, [Next]_vars PROVE HonestInv'
  OBVIOUS
<1>0. /\ Len(specs) \in Nat /\ server.gen \in Nat /\ cache.gen \in Nat
      /\ seen.gen \in Nat /\ server.observed \in Nat
      /\ cache.observed \in Nat /\ seen.observed \in Nat
  BY DEF TypeOK, Policies
<1> USE DEF clusterVars, queueVars, runVars
<1>1. ASSUME NEW kind \in Kinds, UpdateSpec(kind) PROVE HonestInv'
  <2>1. Len(specs') = Len(specs) + 1
        /\ \A i \in 1..Len(specs) : specs'[i] = specs[i]
    BY <1>1, AppendSpec DEF UpdateSpec
  <2>2. /\ server'.gen = server.gen + 1 /\ server'.observed = server.observed
        /\ server'.active = server.active /\ server'.support = server.support
    BY <1>1 DEF UpdateSpec, TypeOK, Policies
  <2>3. Honest(server)' /\ Honest(cache)'
    BY <1>0, <1>1, <2>1, <2>2 DEF UpdateSpec, HonestInv, Honest
  <2>4. pc \in {"evaluate", "patch"} => Honest(seen)'
    BY <1>0, <1>1, <2>1 DEF UpdateSpec, HonestInv, Honest
  <2>5. pc = "patch" => specs'[seen.gen] = specs[seen.gen]
    BY <1>0, <2>1 DEF GenInv, HonestInv
  <2>6. server.gen > 0 /\ UNCHANGED <<cache, seen, result, pc>>
    BY <1>1 DEF UpdateSpec
  <2> QED BY <2>2, <2>3, <2>4, <2>5, <2>6 DEF HonestInv
<1>2. CASE DeletePolicy
  <2>1. Honest(server)' /\ server'.gen = 0
    BY <1>0, <1>2, AbsentType DEF DeletePolicy, Honest
  <2> QED BY <1>2, <2>1 DEF DeletePolicy, HonestInv, Honest
<1>3. CASE WatchEvent \/ Restart
  <2>1. cache' = server /\ UNCHANGED <<specs, server, seen, result, pc>>
    BY <1>3 DEF WatchEvent, Restart
  <2>2. server.gen > 0 => cache.gen <= server.gen
    BY DEF GenInv
  <2>3. server.gen > 0 => server.observed <= server.gen
    BY <1>0, <2>2 DEF HonestInv
  <2>4. server.gen > 0 /\ seen.gen <= cache.gen => seen.gen <= server.gen
    BY <1>0, <2>2
  <2> QED BY <1>0, <2>1, <2>3, <2>4 DEF HonestInv, Honest
<1>4. CASE GetPolicy
  BY <1>0, <1>4 DEF GetPolicy, HonestInv, Honest
<1>5. CASE \/ EvaluateDisabled \/ EvaluateUnsupported \/ EvaluateInvalid
           \/ \E s \in {"Usable", "Unsupported"} : EvaluateRun(s)
  <2>1. pc = "evaluate"
    BY <1>5 DEF EvaluateDisabled, EvaluateUnsupported, EvaluateInvalid,
                EvaluateRun
  <2> QED BY <1>5, <2>1, EvaluatedDeserved DEF HonestInv, Honest
<1>6. CASE PatchStatus
  <2>1. CASE server.gen > 0
    <3>1. /\ Honest(Patched(server)) /\ Patched(server).observed = seen.gen
          /\ server' = Patched(server) /\ pc' = "return"
          /\ UNCHANGED <<specs, cache>>
      BY <1>6, <2>1, PatchedHonest DEF PatchStatus
    <3>2. /\ seen.gen <= cache.gen /\ server.observed <= seen.gen
          /\ cache.observed <= server.observed
      BY <1>6, <2>1 DEF PatchStatus, HonestInv
    <3> QED BY <1>0, <3>1, <3>2 DEF HonestInv, Honest
  <2>2. CASE ~(server.gen > 0)
    BY <1>6, <2>2 DEF PatchStatus, HonestInv, Honest
  <2> QED BY <2>1, <2>2
<1>7. CASE TimerFires \/ StartReconcile \/ Tick
  BY <1>7 DEF TimerFires, StartReconcile, Tick, HonestInv, Honest
<1>8. CASE ReturnResult \/ GetNotFound \/ GetFailed
  BY <1>8 DEF ReturnResult, GetNotFound, GetFailed, Done, HonestInv, Honest
<1>9. CASE PatchStatusFailed \/ Crash
  BY <1>9 DEF PatchStatusFailed, Crash, HonestInv, Honest
<1>10. CASE UNCHANGED vars
  BY <1>10 DEF vars, HonestInv, Honest
<1> QED
  BY <1>1, <1>2, <1>3, <1>4, <1>5, <1>6, <1>7, <1>8, <1>9, <1>10
  DEF Next, ReconcileStep, Terminated

\* The new policy has no status.
LEMMA InitHonest == Init => HonestInv
<1> SUFFICES ASSUME Init PROVE HonestInv
  OBVIOUS
<1>1. /\ server.observed = 0 /\ server.active.gen = 0
      /\ cache = Absent /\ pc = "idle" /\ Len(specs) \in Nat
  BY InitType, AbsentType DEF Init, Policies, TypeOK
<1> QED BY <1>1, AbsentType DEF HonestInv, Honest

\* The status never claims for a generation what its spec does not deserve,
\* although patches are differences computed from a cache that lags.
THEOREM StatusHonestCorrect == Spec => []StatusHonest
<1> DEFINE IInv == TypeOK /\ GenInv /\ HonestInv
<1>1. Init => IInv
  BY InitHonest, InitType
<1>2. IInv /\ [Next]_vars => IInv'
  BY TypeStep, HonestStep
<1>3. IInv => StatusHonest
  BY DEF HonestInv, Honest, Deserved, StatusHonest
<1> QED BY <1>1, <1>2, <1>3, PTL DEF Spec

\* A patch takes the status to the generation that the reconcile read, which is
\* no older than the one it named and no newer than the spec.
THEOREM StatusMovesForwardCorrect == Spec => StatusMovesForward
<1> DEFINE IInv == TypeOK /\ GenInv /\ HonestInv
<1>1. Init => IInv
  BY InitHonest, InitType
<1>2. IInv /\ [Next]_vars => IInv'
  BY TypeStep, HonestStep
<1>3. IInv /\ [Next]_vars
        => [server'.gen > 0 => /\ server.observed <= server'.observed
                               /\ server'.observed <= server'.gen]_server
  <2> SUFFICES ASSUME IInv, [Next]_vars, server' # server, server'.gen > 0
               PROVE  /\ server.observed <= server'.observed
                      /\ server'.observed <= server'.gen
    OBVIOUS
  <2>0. /\ server.gen \in Nat /\ server.observed \in Nat
        /\ cache.gen \in Nat /\ seen.gen \in Nat /\ Len(specs) \in Nat
    BY DEF TypeOK, Policies
  <2>1. ASSUME NEW kind \in Kinds, UpdateSpec(kind)
        PROVE  /\ server'.observed = server.observed
               /\ server'.gen = server.gen + 1 /\ server.gen > 0
    BY <2>1 DEF UpdateSpec, TypeOK, Policies
  <2>2. server.gen > 0 => server.observed <= server.gen
    BY <2>0 DEF HonestInv, GenInv
  <2>3. CASE PatchStatus
    <3>1. server.gen > 0
      BY <2>3 DEF PatchStatus
    <3>2. server'.observed = seen.gen /\ server'.gen = server.gen
      BY <2>3, <3>1, PatchedHonest DEF PatchStatus
    <3>3. server.observed <= seen.gen /\ seen.gen <= server.gen
      BY <2>0, <2>3, <3>1 DEF PatchStatus, HonestInv, GenInv
    <3> QED BY <3>2, <3>3
  <2>4. ~DeletePolicy
    BY AbsentType DEF DeletePolicy
  <2>5. ~UNCHANGED vars
    BY DEF vars, clusterVars
  <2>6. \/ \E kind \in Kinds : UpdateSpec(kind)
        \/ PatchStatus
    BY <2>4, <2>5
    DEF Next, ReconcileStep, Terminated, clusterVars, WatchEvent, TimerFires,
        StartReconcile, GetNotFound, GetPolicy, GetFailed, EvaluateDisabled,
        EvaluateUnsupported, EvaluateInvalid, EvaluateRun, ReturnEarly,
        ReturnResult, PatchStatusFailed, Tick, Crash, Restart
  <2> QED BY <2>0, <2>1, <2>2, <2>3, <2>6
<1> QED BY <1>1, <1>2, <1>3, PTL DEF Spec, StatusMovesForward

-----------------------------------------------------------------------------
(* The next reconcile.                                                     *)

\* What brings the next reconcile about, at every point of this one: while a
\* reconcile is under way, the RequeueAfter it is going to return.
KeptInv ==
  /\ dirty => pc # "idle"
  /\ up /\ server.gen > 0 =>
       \/ cache.gen # server.gen
       \/ queued \/ dirty \/ timer # NoTimer
       \/ pc \in {"get", "evaluate"}
       \/ pc \in {"patch", "return"} /\ after > 0

\* A reconcile that is shorter than the interval keeps KeptInv, and so does
\* everything else.
LEMMA KeptStep ==
  TypeOK /\ GenInv /\ WakeInv /\ KeptInv /\ elapsed < Interval /\ [Next]_vars
    => KeptInv'
<1> SUFFICES ASSUME TypeOK, GenInv, WakeInv, KeptInv, elapsed < Interval,
                    [Next]_vars
             PROVE  KeptInv'
  OBVIOUS
<1> USE DEF KeptInv, clusterVars, queueVars, runVars
<1>0. /\ Len(specs) \in Nat /\ server.gen \in Nat /\ cache.gen \in Nat
      /\ elapsed \in Nat /\ after \in Nat /\ timer \in Int /\ Interval \in Nat
      /\ Interval > 0
  BY LoopAssumption DEF TypeOK, Policies, NoTimer
<1>1. ASSUME NEW kind \in Kinds, UpdateSpec(kind) PROVE KeptInv'
  <2>1. server'.gen = server.gen + 1 /\ server.gen > 0
    BY <1>1 DEF UpdateSpec, TypeOK, Policies
  <2>2. cache.gen <= server.gen
    BY <1>0, <2>1 DEF GenInv
  <2> QED BY <1>0, <1>1, <2>1, <2>2 DEF UpdateSpec
<1>2. CASE DeletePolicy
  BY <1>2, AbsentType DEF DeletePolicy
<1>3. CASE WatchEvent
  BY <1>3 DEF WatchEvent, PassesFilter, Enqueue
<1>4. CASE TimerFires
  BY <1>4 DEF TimerFires, Enqueue
<1>5. CASE StartReconcile
  BY <1>5 DEF StartReconcile
<1>6. CASE ReturnResult
  <2>1. after > 0 => timer' # NoTimer
    BY <1>0, <1>6 DEF ReturnResult, AddAfter, NoTimer
  <2>2. timer # NoTimer => timer' # NoTimer
    BY <1>0, <1>6 DEF ReturnResult, AddAfter, NoTimer
  <2>3. ~queued
    BY <1>6 DEF ReturnResult, WakeInv
  <2> QED BY <1>6, <2>1, <2>2, <2>3 DEF ReturnResult, Done
<1>7. CASE GetNotFound
  BY <1>7 DEF GetNotFound, Done
<1>8. CASE GetFailed
  BY <1>8 DEF GetFailed, Done
<1>9. CASE GetPolicy
  BY <1>9 DEF GetPolicy
<1>10. CASE EvaluateDisabled \/ EvaluateUnsupported \/ EvaluateInvalid
  BY <1>0, <1>10
  DEF EvaluateDisabled, EvaluateUnsupported, EvaluateInvalid, ReturnEarly
<1>11. ASSUME NEW s \in {"Usable", "Unsupported"}, EvaluateRun(s)
       PROVE  KeptInv'
  <2>1. after' > 0
    BY <1>0, <1>11 DEF EvaluateRun, RequeueAfter
  <2> QED BY <1>11, <2>1 DEF EvaluateRun
<1>12. CASE PatchStatus
  <2>1. server'.gen = server.gen
    BY <1>12, PatchedType DEF PatchStatus
  <2> QED BY <1>12, <2>1 DEF PatchStatus
<1>13. CASE PatchStatusFailed
  BY <1>13 DEF PatchStatusFailed
<1>14. CASE Tick
  BY <1>0, <1>14 DEF Tick, NoTimer
<1>15. CASE Crash
  BY <1>15 DEF Crash
<1>16. CASE Restart
  BY <1>16 DEF Restart
<1>17. CASE UNCHANGED vars
  BY <1>17 DEF vars
<1> HIDE DEF KeptInv, clusterVars, queueVars, runVars
<1> QED
  BY <1>1, <1>2, <1>3, <1>4, <1>5, <1>6, <1>7, <1>8, <1>9, <1>10, <1>11,
     <1>12, <1>13, <1>14, <1>15, <1>16, <1>17
  DEF Next, ReconcileStep, Terminated

\* As long as no reconcile takes as long as the interval, a policy that is not
\* being reconciled always has its next reconcile to come.
THEOREM NeverForgottenCorrect == Spec => NeverForgotten
<1> DEFINE IInv == TypeOK /\ GenInv /\ WakeInv /\ KeptInv
           Short == elapsed < Interval
<1>1. Init => IInv
  <2> SUFFICES ASSUME Init PROVE WakeInv /\ KeptInv
    BY InitType
  <2>1. server.gen = 1 /\ cache.gen = 0 /\ dirty = FALSE
    BY AbsentType, LoopAssumption DEF Init, Policies
  <2> QED BY <2>1, AbsentType DEF KeptInv, WakeInv, Init
<1>2. IInv /\ Short /\ [Next]_vars => IInv'
  BY TypeStep, WakeStep, KeptStep
<1>3. IInv => NotForgotten
  BY DEF KeptInv, NotForgotten
<1> HIDE DEF IInv, NotForgotten
<1> QED BY <1>1, <1>2, <1>3, PTL DEF Spec, NeverForgotten, RunsAreShort

=============================================================================
