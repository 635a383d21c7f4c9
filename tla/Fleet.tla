------------------------------- MODULE Fleet --------------------------------
(***************************************************************************)
(* All policies of a cluster: one worker of the controller reconciles them *)
(* one after the other, and they share one Prober (module Prober).  A run  *)
(* checks the capability, selects its pods (module Selection) and sends    *)
(* resizes, several at a time.  The first answer that says Unsupported or  *)
(* Forbidden marks the Prober for everybody, then the reports, and at last *)
(* cancels the run, step by step while the other workers go on.  A patch   *)
(* of the policy's status ends the reconcile.                              *)
(*                                                                         *)
(* Meanwhile the cluster changes: pods come and go, an upgrade or a roll-  *)
(* back changes what pods/resize offers, admission starts or stops to      *)
(* refuse pods, discovery and status patches fail, the operator restarts.  *)
(* Policies and pods are read from caches, which may be behind the API     *)
(* server: the variable of such an object is the sequence of its versions  *)
(* from the one that was read last to the one the API server has.  A read  *)
(* finds one of them, and those before it are gone: what a watch delivers  *)
(* between two reads is seen by nobody.                                    *)
(*                                                                         *)
(* What a worker decides on for a pod is the matter of modules             *)
(* ReconcileRun and PodLifecycle: here it sends a resize or leaves the pod *)
(* alone.                                                                  *)
(***************************************************************************)
EXTENDS Selection, Prober, Sequences

CONSTANTS
  Policies,    \* the InPlacePodResize objects
  TTL,         \* TTL[p]: capabilityCheckInterval, in ticks
  Starts,      \* how the policies are specified and the cluster is at first
  Pods,        \* names of pods
  Namespace,   \* Namespace[q] of a pod
  Labelled,    \* the pods with the label that a pod selector may ask for
  Nobody,      \* no policy is being reconciled
  MaxInFlight, \* the workers of a run
  MaxChanges,  \* bound: changes of what the API server offers and refuses
  MaxFaults,   \* bound: failed discoveries, lists and patches, restarts
  MaxLag       \* bound: how many versions behind a copy of a policy may be

Specs == [enabled : BOOLEAN, matchType : {"none", "Glob", "Regexp"},
          include : SUBSET Patterns, exclude : SUBSET Patterns,
          podSelector : PodSelectors]

ASSUME FleetAssumption ==
  /\ Nobody \notin Policies
  /\ TTL \in [Policies -> 1..MaxTTL]
  /\ Starts \subseteq [spec : [Policies -> Specs], forbidden : SUBSET Pods,
                       offers : Discoveries \ {"error"}]
  /\ Namespace \in [Pods -> Namespaces] /\ Labelled \subseteq Pods
  /\ MaxInFlight \in Nat \ {0}
  /\ MaxChanges \in Nat /\ MaxFaults \in Nat /\ MaxLag \in Nat

VARIABLES
  spec,      \* the specs; module ControllerLoop is about their changes
  offers,    \* what the API server offers: "update", "otherVerbs", "nothing"
  forbidden, \* the pods whose resize admission refuses
  lives,     \* versions of the pods: "absent", "pending", "running" or
             \* "deleting", by pod
  due,       \* the policies in the work queue
  cur,       \* the policy that is being reconciled
  pc,        \* "idle", "list", "work" or "patch"
  seen,      \* the state of the capability this run works with
  todo,      \* candidates not yet handed to a worker
  sent,      \* pods whose resize is on its way
  resent,    \* pods whose resize is on its way again, after a conflict
  refused,   \* pods whose worker is in fatalOnce.Do: one does it, others wait
  fatal,     \* how far fatalOnce is: "no", "marked", "reported", "cancelled"
  read,      \* the InPlaceResizeSupported condition of the copy read
  cond,      \* the same condition in memory
  supports,  \* versions of that condition, by policy
  gauge,     \* the capability gauges of a policy that are 1
  changes,   \* changes so far
  faults,    \* faults so far
  calm,      \* history: ticks since discovery failed, pods/resize was not
             \* offered or a refusal marked the Prober
  missed     \* history: the policies whose last status patch failed, or left
             \* the condition out because of an outdated copy

serverVars == <<offers, forbidden, lives, changes>>
workVars == <<todo, sent, resent, refused>>
runVars == <<cur, pc, seen, workVars, fatal, read, cond>>
reports == <<supports, gauge, missed>>
vars == <<spec, serverVars, cap, due, runVars, reports, faults, calm>>

Lives == {"absent", "pending", "running", "deleting"}
States == {"Supported", "Unsupported", "Unknown"}

\* What the API server has, and what is left of the versions when the n-th is
\* read from the cache.
Actual(versions) == versions[Len(versions)]
Since(versions, n) == SubSeq(versions, n, Len(versions))

Init ==
  /\ \E start \in Starts : /\ spec = start.spec
                          /\ offers = start.offers
                          /\ forbidden = start.forbidden
  /\ lives = <<[q \in Pods |-> "running"]>>
  /\ cap = NewProber
  /\ due = Policies
  /\ cur = Nobody /\ pc = "idle" /\ seen = "Unknown"
  /\ todo = {} /\ sent = {} /\ resent = {} /\ refused = {}
  /\ fatal = "no" /\ read = "none" /\ cond = "none"
  /\ supports = [p \in Policies |-> <<"none">>]
  /\ gauge = [p \in Policies |-> {}]
  /\ changes = 0 /\ faults = 0
  /\ calm = 0 /\ missed = {}

-----------------------------------------------------------------------------
(* The cluster.                                                            *)

\* An upgrade or a rollback of the API server.
OffersChange(o) ==
  /\ changes < MaxChanges
  /\ changes' = changes + 1
  /\ offers' = o /\ o # offers
  /\ calm' = 0
  /\ UNCHANGED <<spec, forbidden, lives, cap, due, runVars, reports, faults>>

\* A quota, an admission policy or a role changes.
AdmissionChanges(q) ==
  /\ changes < MaxChanges
  /\ changes' = changes + 1
  /\ forbidden' = IF q \in forbidden THEN forbidden \ {q}
                                     ELSE forbidden \cup {q}
  /\ UNCHANGED <<spec, offers, lives, cap, due, runVars, reports, faults,
                 calm>>

\* Pods are created, start, are deleted and vanish.
PodChanges(q, l) ==
  /\ changes < MaxChanges
  /\ changes' = changes + 1
  /\ <<Actual(lives)[q], l>> \in
       {<<"absent", "pending">>, <<"pending", "running">>,
        <<"running", "deleting">>, <<"running", "absent">>}
  /\ lives' = Append(lives, [Actual(lives) EXCEPT ![q] = l])
  /\ UNCHANGED <<spec, offers, forbidden, cap, due, runVars, reports, faults,
                 calm>>

\* A tick is the interval of the policies: each one is due again when all had
\* their turn, the one that is being reconciled when it is done.  That a run
\* shorter than its interval comes back is shown in ControllerLoop.
Tick ==
  /\ due = {}
  /\ due' = Policies
  /\ cap' = OlderCap
  /\ calm' = IF offers # "update" THEN 0
             ELSE IF calm = MaxTTL THEN calm ELSE calm + 1
  /\ UNCHANGED <<spec, serverVars, runVars, reports, faults>>

Fault ==
  /\ faults < MaxFaults
  /\ faults' = faults + 1

-----------------------------------------------------------------------------
(* The start and the end of a reconcile.                                   *)

\* The policy is taken from the queue and its n-th version read.
Begin(p, n) ==
  /\ pc = "idle" /\ p \in due
  /\ n \in DOMAIN supports[p]
  /\ due' = due \ {p}
  /\ cur' = p
  /\ read' = supports[p][n]
  /\ supports' = [supports EXCEPT ![p] = Since(@, n)]

\* InitPolicyMetrics sets the gauge of "unknown" and leaves the others.
GaugeInitialised(p) == gauge[p] \cup {"Unknown"}

\* The gauge of the state is set and the two others are cleared.
ObserveCapability(state) == {state}

CheckDisabled(p, n) ==
  /\ ~spec[p].enabled
  /\ Begin(p, n)
  /\ cond' = read' /\ pc' = "patch"
  /\ gauge' = [gauge EXCEPT ![p] = GaugeInitialised(p)]
  /\ UNCHANGED <<spec, serverVars, cap, seen, workVars, fatal, missed, faults,
                 calm>>

\* Supported, asked by policy p while discovery says d.  A policy goes on if
\* resizing is not Unsupported and its selectors can be used.
CheckWith(p, n, d) ==
  LET new == Supported(TTL[p], d)
      goesOn == State(new) # "Unsupported" /\ ActiveReason(spec[p]) = "Enabled"
  IN /\ spec[p].enabled
     /\ Begin(p, n)
     /\ cap' = new /\ seen' = State(new) /\ cond' = State(new)
     /\ gauge' = [gauge EXCEPT ![p] = ObserveCapability(State(new))]
     /\ pc' = IF goesOn THEN "list" ELSE "patch"
     /\ UNCHANGED <<spec, serverVars, workVars, fatal, missed>>

Check(p, n) == CheckWith(p, n, offers) /\ UNCHANGED <<faults, calm>>

\* Discovery is asked and fails.
CheckFails(p, n) ==
  /\ ~Trusted(TTL[p])
  /\ Fault
  /\ CheckWith(p, n, "error")
  /\ calm' = 0

Idle ==
  /\ cur' = Nobody /\ pc' = "idle" /\ seen' = "Unknown"
  /\ todo' = {} /\ sent' = {} /\ resent' = {} /\ refused' = {}
  /\ fatal' = "no" /\ read' = "none" /\ cond' = "none"

\* Mutant: the base of the patch is taken when everything is set already.
PatchComparesItself(whole) ==
  LET present == Actual(supports[cur])
  IN /\ pc = "patch"
     /\ ~whole
     /\ missed' = IF read # present THEN missed \cup {cur} ELSE missed \ {cur}
     /\ Idle
     /\ UNCHANGED <<spec, serverVars, cap, due, supports, gauge, faults, calm>>

\* The versions after a write, of which the oldest is forgotten at the bound.
Written(versions, c) ==
  LET all == Append(versions, c)
  IN IF c = Actual(versions) THEN versions
     ELSE IF Len(versions) > MaxLag THEN Tail(all) ELSE all

\* The deferred status patch is the difference between the copy read and the
\* one in memory.  The conditions are one list, which goes as a whole if
\* anything in it differs, this condition or another one.
PatchStatus(whole) ==
  LET present == Actual(supports[cur])
  IN /\ pc = "patch"
     /\ cond # read => whole
     /\ supports' = [supports EXCEPT ![cur] =
                       IF whole THEN Written(@, cond) ELSE @]
     /\ missed' = IF ~whole /\ read # present THEN missed \cup {cur}
                                              ELSE missed \ {cur}
     /\ Idle
     /\ UNCHANGED <<spec, serverVars, cap, due, gauge, faults, calm>>

\* It fails: the error is logged and forgotten.
PatchStatusFails ==
  /\ pc = "patch"
  /\ Fault
  /\ missed' = missed \cup {cur}
  /\ Idle
  /\ UNCHANGED <<spec, serverVars, cap, due, supports, gauge, calm>>

-----------------------------------------------------------------------------
(* The run.                                                                *)

\* The pods of a version, as objects.
PodObjects(life) ==
  [q \in {r \in Pods : life[r] # "absent"} |->
     [namespace |-> Namespace[q], labelled |-> q \in Labelled,
      deleting |-> life[q] = "deleting",
      phase |-> IF life[q] = "pending" THEN "Pending" ELSE "Running",
      scheduled |-> life[q] # "pending"]]

\* The list is the cache's, not the API server's.
ListPods(n) ==
  /\ pc = "list"
  /\ n \in DOMAIN lives
  /\ todo' = Candidates(spec[cur], PodObjects(lives[n]))
  /\ lives' = Since(lives, n)
  /\ pc' = "work"
  /\ UNCHANGED <<spec, offers, forbidden, changes, cap, due, cur, seen, sent,
                 resent, refused, fatal, read, cond, reports, faults, calm>>

ListPodsFails ==
  /\ pc = "list"
  /\ Fault
  /\ pc' = "patch"
  /\ UNCHANGED <<spec, serverVars, cap, due, cur, seen, workVars, fatal, read,
                 cond, reports, calm>>

\* runCtx, which every worker looks at and every request is bound to.
Cancelled == fatal = "cancelled"

\* A step of the workers that only moves pods between their sets.
WorkersOnly ==
  /\ pc = "work"
  /\ UNCHANGED <<spec, serverVars, cap, due, cur, pc, seen, fatal, read, cond,
                 reports, faults, calm>>

\* processOne returns before the resize; with the capability Unknown it always
\* does, counting the pod as failed.
Skip(q) ==
  /\ WorkersOnly
  /\ ~Cancelled
  /\ q \in todo
  /\ todo' = todo \ {q}
  /\ UNCHANGED <<sent, resent, refused>>

Send(q) ==
  /\ WorkersOnly
  /\ ~Cancelled
  /\ seen = "Supported"
  /\ q \in todo
  /\ Cardinality(sent \cup resent \cup refused) < MaxInFlight
  /\ todo' = todo \ {q} /\ sent' = sent \cup {q}
  /\ UNCHANGED <<resent, refused>>

\* The API server answers by what it finds when the request arrives.  A
\* missing subresource may be reported as such, without details, or with the
\* details of the request, which are those of a missing pod.  Conflicts and
\* lost answers are possible at any time.
ServerAnswers(q) ==
  LET life == Actual(lives)[q]
  IN {Status(409, "pods", TRUE), Status(500, "none", FALSE)} \cup
     CASE offers = "nothing" ->
            {Status(404, "pods/resize", TRUE), Status(404, "none", FALSE),
             Status(404, "pods", TRUE), Status(405, "pods/resize", TRUE)}
       [] offers = "otherVerbs" -> {Status(405, "pods/resize", TRUE)}
       [] offers = "update" /\ life = "absent" -> {Status(404, "pods", TRUE)}
       [] offers = "update" /\ life # "absent" /\ q \in forbidden ->
            {Status(403, "pods", TRUE)}
       [] OTHER -> {Status(200, "none", FALSE)}

\* A resize is done with: it took effect or failed for this pod only.
Answered(q, a) ==
  /\ WorkersOnly
  /\ q \in sent
  /\ UpdateResize(a) \notin Fatal
  /\ sent' = sent \ {q}
  /\ UNCHANGED <<todo, resent, refused>>

\* Mutant: the retry is not bound to the context of the run.
ResendAnyway(q) ==
  /\ WorkersOnly
  /\ q \in sent
  /\ sent' = sent \ {q} /\ resent' = resent \cup {q}
  /\ UNCHANGED <<todo, refused>>

\* After a conflict the pod is read again and the resize repeated.
Resend(q) ==
  /\ WorkersOnly
  /\ ~Cancelled
  /\ q \in sent
  /\ sent' = sent \ {q} /\ resent' = resent \cup {q}
  /\ UNCHANGED <<todo, refused>>

\* Any second answer ends the pod's turn: an error, be it a refusal, counts as
\* the conflict it came after.
AnsweredAgain(q) ==
  /\ WorkersOnly
  /\ q \in resent
  /\ resent' = resent \ {q}
  /\ UNCHANGED <<todo, sent, refused>>

-----------------------------------------------------------------------------
(* A refusal: fatalOnce, one step after the other.                         *)

\* The first refusal marks the Prober.
RefusedFatal(q, a) ==
  /\ q \in sent
  /\ UpdateResize(a) \in Fatal
  /\ fatal = "no"
  /\ sent' = sent \ {q} /\ refused' = refused \cup {q}
  /\ fatal' = "marked"
  /\ Mark(Refused) /\ calm' = 0
  /\ UNCHANGED <<spec, serverVars, due, cur, pc, seen, todo, resent, read,
                 cond, reports, faults>>

\* Mutant: the policy's gauge is not written.
ReportSilently ==
  /\ fatal = "marked"
  /\ fatal' = "reported"
  /\ cond' = State(Refused)
  /\ UNCHANGED <<spec, serverVars, cap, due, cur, pc, seen, workVars, read,
                 reports, faults, calm>>

\* Then the gauge and the condition in memory, which nobody else writes.
ReportRefused ==
  /\ fatal = "marked"
  /\ fatal' = "reported"
  /\ cond' = State(Refused)
  /\ gauge' = [gauge EXCEPT ![cur] = ObserveCapability(State(Refused))]
  /\ UNCHANGED <<spec, serverVars, cap, due, cur, pc, seen, workVars, read,
                 supports, missed, faults, calm>>

\* Then the run is cancelled, and those who waited for fatalOnce return.
CancelRun ==
  /\ fatal = "reported"
  /\ fatal' = "cancelled"
  /\ refused' = {}
  /\ UNCHANGED <<spec, serverVars, cap, due, cur, pc, seen, todo, sent, resent,
                 read, cond, reports, faults, calm>>

\* A further refusal waits for fatalOnce and does nothing.
RefusedAgain(q, a) ==
  /\ WorkersOnly
  /\ q \in sent
  /\ UpdateResize(a) \in Fatal
  /\ fatal # "no"
  /\ sent' = sent \ {q}
  /\ refused' = IF Cancelled THEN refused ELSE refused \cup {q}
  /\ UNCHANGED <<todo, resent>>

\* wg.Wait is over: nothing is left, or the run was cancelled.
Complete ==
  /\ pc = "work"
  /\ sent = {} /\ resent = {} /\ refused = {}
  /\ todo = {} \/ Cancelled
  /\ todo' = {} /\ pc' = "patch"
  /\ UNCHANGED <<spec, serverVars, cap, due, cur, seen, sent, resent, refused,
                 fatal, read, cond, reports, faults, calm>>

\* A new process: the Prober and the gauges start anew, the caches are filled
\* with what there is, the status of a run under way is not written.
Restart ==
  /\ Fault
  /\ cap' = NewProber
  /\ due' = Policies
  /\ Idle
  /\ lives' = <<Actual(lives)>>
  /\ supports' = [p \in Policies |-> <<Actual(supports[p])>>]
  /\ gauge' = [p \in Policies |-> {}] /\ missed' = {}
  /\ UNCHANGED <<spec, offers, forbidden, changes, calm>>

RunStep ==
  \/ \E n \in DOMAIN lives : ListPods(n)
  \/ \E q \in Pods : Skip(q) \/ Send(q) \/ Resend(q) \/ AnsweredAgain(q)
  \/ \E q \in Pods : \E a \in ServerAnswers(q) :
       Answered(q, a) \/ RefusedFatal(q, a) \/ RefusedAgain(q, a)
  \/ ReportRefused
  \/ CancelRun
  \/ Complete
  \/ \E whole \in BOOLEAN : PatchStatus(whole)

Next ==
  \/ \E o \in Discoveries \ {"error"} : OffersChange(o)
  \/ \E q \in Pods : AdmissionChanges(q)
  \/ \E q \in Pods, l \in Lives : PodChanges(q, l)
  \/ Tick
  \/ \E p \in Policies : \E n \in DOMAIN supports[p] :
       CheckDisabled(p, n) \/ Check(p, n) \/ CheckFails(p, n)
  \/ RunStep
  \/ ListPodsFails
  \/ PatchStatusFails
  \/ Restart

Spec == Init /\ [][Next]_vars

(***************************************************************************)
(* Time passes, a reconcile goes on, and the work queue is first in, first *)
(* out: a policy that is due again and again gets its turn.  Its cache may *)
(* be behind, but not each and every time.                                 *)
(***************************************************************************)
FairSpec ==
  /\ Spec
  /\ WF_vars(Tick) /\ WF_vars(RunStep)
  /\ \A p \in Policies :
       SF_vars(LET n == Len(supports[p]) IN CheckDisabled(p, n) \/ Check(p, n))

-----------------------------------------------------------------------------
(* Properties.                                                             *)

\* Every variable keeps its type; a reconcile has a policy, and every object
\* has a version.
TypeOK ==
  /\ spec \in [Policies -> Specs]
  /\ offers \in Discoveries \ {"error"} /\ forbidden \subseteq Pods
  /\ lives \in Seq([Pods -> Lives]) /\ Len(lives) > 0
  /\ cap \in Capabilities
  /\ cap.reason = "none" <=> cap.age = NeverChecked
  /\ due \subseteq Policies
  /\ pc \in {"idle", "list", "work", "patch"} /\ (pc = "idle" <=> cur = Nobody)
  /\ cur \in Policies \cup {Nobody} /\ seen \in States
  /\ todo \subseteq Pods /\ sent \subseteq Pods
  /\ resent \subseteq Pods /\ refused \subseteq Pods
  /\ fatal \in {"no", "marked", "reported", "cancelled"}
  /\ read \in States \cup {"none"} /\ cond \in States \cup {"none"}
  /\ supports \in [Policies -> Seq(States \cup {"none"})]
  /\ \A p \in Policies : Len(supports[p]) > 0
  /\ gauge \in [Policies -> SUBSET States]
  /\ changes \in 0..MaxChanges /\ faults \in 0..MaxFaults
  /\ calm \in 0..MaxTTL /\ missed \subseteq Policies

\* The Prober is marked only after a real refusal: the API server does not
\* offer the update, or admission refuses a pod.  A pod that vanished between
\* the list and its resize, a conflict or a lost answer never takes the
\* capability away from all policies.
MarkJustified ==
  [][cap' = Refused /\ cap' # cap =>
       \/ offers # "update"
       \/ \E q \in sent : q \in forbidden]_vars

\* The copy of the capability that a run works with is stale for no longer
\* than the run itself takes from its mark to its cancel: only then a resize
\* may be put on its way, for the first time or after a conflict, although the
\* Prober no longer says Supported.  No run that begins after a refusal, of any
\* policy, sends anything before discovery has found the capability again.
NoBlindRetry ==
  [][\A q \in Pods :
       q \in (sent' \ sent) \cup (resent' \ resent) =>
         \/ State(cap) = "Supported"
         \/ fatal \in {"marked", "reported"}]_vars

\* What happened to one policy, or to discovery, keeps another policy from
\* resizing no longer than its own capabilityCheckInterval.
RecoversInTime ==
  [][\A p \in Policies : \A n \in DOMAIN supports[p] :
       Check(p, n) /\ calm >= TTL[p] => State(cap') = "Supported"]_vars

\* The reference for the selection: the union of the included languages, or
\* everything, without the union of the excluded ones.
Permitted(s, q, life) ==
  LET lang(ps) == UNION {Language[Syntax(s)][p] :
                           p \in ps \ Malformed[Syntax(s)]}
      inside == IF s.include = {} THEN Namespaces ELSE lang(s.include)
  IN /\ Namespace[q] \in inside \ lang(s.exclude)
     /\ s.podSelector = "label" => q \in Labelled
     /\ s.include # {} \/ s.podSelector \in {"empty", "label"}
     /\ life[q] = "running"

\* A run works on exactly the pods its selectors mean that run by the version
\* of the pods it was given: none outside, and none is forgotten.
SelectsExactly ==
  [][\A n \in DOMAIN lives : ListPods(n) =>
       todo' = {q \in Pods : Permitted(spec[cur], q, lives[n])}]_vars

Support(p) == Actual(supports[p])

\* The gauges of an enabled policy that is not being reconciled say the same
\* as its condition on the API server, whatever ended its last run, be it a
\* refusal in the middle of it or a failed list.  A failed status patch and a
\* copy that was outdated are the only things that part them, and not for
\* longer than until the next patch of that policy that is neither.
ReportsAgree ==
  \A p \in Policies \ missed : spec[p].enabled /\ p # cur =>
    gauge[p] \in {{}, {Support(p)}}

\* When the capability has settled, the reports of all enabled policies come
\* to say it and stay, whatever patches failed and copies lagged before.
ReportsSettle ==
  \A state \in States :
    <>[](State(cap) = state) =>
      \A p \in Policies :
        <>[](spec[p].enabled => Support(p) = state /\ gauge[p] = {state})

\* The policies that take part in resizing.
Usable(p) == spec[p].enabled /\ ActiveReason(spec[p]) = "Enabled"

\* A policy none of whose own pods are refused can resize, from time to time
\* at least, in a cluster that offers pods/resize.
NotStarved ==
  \A p \in Policies :
    <>[](/\ Usable(p) /\ offers = "update"
         /\ \A q \in forbidden : ~Permitted(spec[p], q, Actual(lives)))
      => []<>(cur = p /\ seen = "Supported")

\* When the cluster offers pods/resize and refuses nothing any more, every
\* policy finds the capability again and keeps it.
Recovers ==
  <>[](offers = "update" /\ forbidden = {})
    => \A p \in Policies : <>[](Usable(p) => Support(p) = "Supported")

=============================================================================
