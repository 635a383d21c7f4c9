---------------------------- MODULE FleetProofs -----------------------------
(***************************************************************************)
(* Theorems about Fleet, for any set of policies with any intervals and    *)
(* selectors, any pods and any number of workers, changes and faults, and  *)
(* caches that are behind by any number of versions.                       *)
(*                                                                         *)
(* RunInv says what a run under way has in common with the Prober and with *)
(* the gauges; CalmInv relates the age of a capability that is not         *)
(* Supported to the time since something last spoke against it.            *)
(***************************************************************************)
EXTENDS Fleet, SequenceTheorems, TLAPS

\* Outside a run no worker does anything.  During one the copy of the
\* capability is not ahead of the Prober's until the run marks it, and while
\* that is under way some worker is in fatalOnce.  The gauge shows what the
\* status patch will report.
RunInv ==
  /\ pc # "work" => sent = {} /\ resent = {} /\ refused = {}
  /\ pc \in {"idle", "list"} => fatal = "no"
  /\ fatal \in {"marked", "reported"} => refused # {}
  /\ pc \in {"list", "work"} => Usable(cur)
  /\ pc \in {"list", "work"} /\ seen = "Supported" /\ fatal = "no"
       => State(cap) = "Supported"
  /\ sent # {} => seen = "Supported"
  /\ pc # "idle" => IF spec[cur].enabled THEN gauge[cur] = {cond}
                                         ELSE cond = read

\* A capability that is not Supported is at least as old as the calm.
CalmInv ==
  /\ offers # "update" => calm = 0
  /\ State(cap) # "Supported" => cap.age = NeverChecked \/ calm <= cap.age

IInv == TypeOK /\ RunInv /\ ReportsAgree /\ CalmInv

-----------------------------------------------------------------------------
(* Versions.                                                               *)

\* A read from the cache leaves the present version what it is.
LEMMA SinceType ==
  ASSUME NEW S, NEW v \in Seq(S), NEW n \in DOMAIN v
  PROVE  /\ Since(v, n) \in Seq(S) /\ Len(Since(v, n)) > 0
         /\ Actual(Since(v, n)) = Actual(v)
         /\ v[n] \in S
<1>1. n \in 1..Len(v) /\ Len(v) \in Nat /\ \A i \in 1..Len(v) : v[i] \in S
  BY LenProperties, ElementOfSeq
<1>2. \A i \in n..Len(v) : v[i] \in S
  BY <1>1
<1>3. /\ SubSeq(v, n, Len(v)) \in Seq(S)
      /\ Len(SubSeq(v, n, Len(v))) = Len(v) - n + 1
      /\ \A i \in 1..Len(v) - n + 1 :
           SubSeq(v, n, Len(v))[i] = v[n + i - 1]
  BY <1>1, <1>2, SubSeqProperties
<1>4. SubSeq(v, n, Len(v))[Len(v) - n + 1] = v[Len(v)]
  <2>1. Len(v) - n + 1 \in 1..Len(v) - n + 1
        /\ n + (Len(v) - n + 1) - 1 = Len(v)
    BY <1>1
  <2> QED BY <1>3, <2>1
<1> QED BY <1>1, <1>3, <1>4 DEF Since, Actual

\* A change appends a version, which is the present one then.
LEMMA AppendType ==
  ASSUME NEW S, NEW v \in Seq(S), NEW c \in S
  PROVE  /\ Append(v, c) \in Seq(S) /\ Len(Append(v, c)) > 0
         /\ Actual(Append(v, c)) = c
<1>1. Len(v) \in Nat
  BY LenProperties
<1> QED BY <1>1, AppendProperties DEF Actual

\* The present version is a value.
LEMMA ActualType ==
  ASSUME NEW S, NEW v \in Seq(S), Len(v) > 0
  PROVE  Actual(v) \in S /\ <<Actual(v)>> \in Seq(S)
         /\ Len(<<Actual(v)>>) > 0 /\ Actual(<<Actual(v)>>) = Actual(v)
<1>1. Actual(v) \in S
  BY LenProperties, ElementOfSeq DEF Actual
<1> QED BY <1>1 DEF Actual

\* A write makes the condition the present one, whatever is forgotten.
LEMMA WrittenType ==
  ASSUME NEW S, NEW v \in Seq(S), Len(v) > 0, NEW c \in S
  PROVE  /\ Written(v, c) \in Seq(S) /\ Len(Written(v, c)) > 0
         /\ Actual(Written(v, c)) = c
<1> DEFINE all == Append(v, c)
<1>1. all \in Seq(S) /\ Len(all) > 1 /\ all # <<>> /\ Actual(all) = c
      /\ Len(all) \in Nat
  BY AppendProperties, AppendType, LenProperties
<1> HIDE DEF all
<1>2. /\ Tail(all) \in Seq(S) /\ Len(Tail(all)) = Len(all) - 1
      /\ \A i \in 1..Len(Tail(all)) : Tail(all)[i] = all[i + 1]
  BY <1>1, HeadTailProperties
<1>3. Actual(Tail(all)) = c
  BY <1>1, <1>2 DEF Actual
<1>4. CASE c = Actual(v)
  BY <1>4 DEF Written
<1>5. CASE c # Actual(v)
  <2>1. Written(v, c) = Tail(all) \/ Written(v, c) = all
    BY <1>5 DEF Written, all
  <2>2. CASE Written(v, c) = Tail(all)
    <3>1. Len(Tail(all)) > 0
      BY <1>1, <1>2
    <3> QED BY <1>2, <1>3, <2>2, <3>1
  <2>3. CASE Written(v, c) = all
    <3>1. Len(all) > 0
      BY <1>1
    <3> QED BY <1>1, <2>3, <3>1
  <2> QED BY <2>1, <2>2, <2>3
<1> QED BY <1>4, <1>5

-----------------------------------------------------------------------------
(* Capabilities.                                                           *)

\* The three states of a capability.
LEMMA StateType == ASSUME NEW c PROVE State(c) \in States
BY DEF State, States

\* Supported returns a capability that has been checked, for any policy and
\* whatever discovery says.
LEMMA SupportedType ==
  ASSUME TypeOK, NEW ttl, NEW d \in Discoveries
  PROVE  /\ Supported(ttl, d) \in Capabilities
         /\ Supported(ttl, d).reason = "none"
              <=> Supported(ttl, d).age = NeverChecked
<1>1. CASE Trusted(ttl)
  BY <1>1 DEF Supported, TypeOK
<1>2. CASE ~Trusted(ttl)
  <2>1. DiscoveredReason(d) \in Reasons \ {"none"}
    BY DEF DiscoveredReason, Discoveries, Reasons
  <2>2. 0 \in NeverChecked..MaxTTL /\ 0 # NeverChecked
    BY ProberAssumption DEF NeverChecked
  <2>3. Supported(ttl, d) \in Capabilities
    BY <1>2, <2>1, <2>2 DEF Capabilities, Supported
  <2>4. Supported(ttl, d).reason # "none" /\ Supported(ttl, d).age = 0
    BY <1>2, <2>1 DEF Supported
  <2> QED BY <2>2, <2>3, <2>4
<1> QED BY <1>1, <1>2

\* Ageing keeps the reason and never makes a capability that was never checked
\* look checked.
LEMMA OlderType ==
  ASSUME TypeOK
  PROVE  /\ OlderCap \in Capabilities /\ OlderCap.reason = cap.reason
         /\ OlderCap.age = NeverChecked <=> cap.age = NeverChecked
         /\ OlderCap.age >= cap.age /\ OlderCap.age # 0
         /\ cap.age \in 0..MaxTTL - 1 => OlderCap.age = cap.age + 1
<1> DEFINE age == IF cap.age \in {NeverChecked, MaxTTL} THEN cap.age
                  ELSE cap.age + 1
<1>1. cap \in [reason : Reasons, age : NeverChecked..MaxTTL]
  BY DEF TypeOK, Capabilities
<1>2. OlderCap = [cap EXCEPT !.age = age]
  BY DEF OlderCap
<1>3. OlderCap \in [reason : Reasons, age : NeverChecked..MaxTTL]
      /\ OlderCap.reason = cap.reason /\ OlderCap.age = age
  BY <1>1, <1>2, ProberAssumption DEF NeverChecked
<1> QED BY <1>1, <1>3, ProberAssumption DEF Capabilities, NeverChecked

\* The capability a refused resize marks.
LEMMA RefusedType ==
  Refused \in Capabilities /\ Refused.age # NeverChecked
    /\ State(Refused) = "Unsupported"
BY ProberAssumption DEF Refused, Capabilities, Reasons, NeverChecked, State

-----------------------------------------------------------------------------
(* The inductive invariant.                                                *)

Conditions == States \cup {"none"}

\* The operator starts with nothing known and nothing under way.
LEMMA InitInv == Init => IInv
<1> SUFFICES ASSUME Init PROVE IInv
  OBVIOUS
<1>1. PICK start \in Starts : /\ spec = start.spec
                              /\ offers = start.offers
                              /\ forbidden = start.forbidden
  BY DEF Init
<1>2. TypeOK
  <2>1. cap \in Capabilities
        /\ cap.reason = "none" /\ cap.age = NeverChecked
    BY ProberAssumption
    DEF Init, NewProber, Capabilities, Reasons, NeverChecked
  <2>2. lives \in Seq([Pods -> Lives]) /\ Len(lives) > 0
    BY DEF Init, Lives
  <2>3. /\ supports \in [Policies -> Seq(Conditions)]
        /\ \A p \in Policies : Len(supports[p]) > 0
        /\ gauge \in [Policies -> SUBSET States]
    BY DEF Init, Conditions
  <2>4. changes \in 0..MaxChanges /\ faults \in 0..MaxFaults
        /\ calm \in 0..MaxTTL
    BY FleetAssumption, ProberAssumption DEF Init
  <2>5. /\ spec \in [Policies -> Specs]
        /\ offers \in Discoveries \ {"error"} /\ forbidden \subseteq Pods
    BY <1>1, FleetAssumption
  <2>6. seen \in States
    BY DEF Init, States
  <2> QED
    BY <2>1, <2>2, <2>3, <2>4, <2>5, <2>6 DEF Init, TypeOK, Conditions
<1>3. RunInv /\ ReportsAgree
  BY FleetAssumption DEF Init, RunInv, ReportsAgree
<1>4. CalmInv
  BY DEF Init, CalmInv, NewProber
<1> QED BY <1>2, <1>3, <1>4 DEF IInv

\* Changes of the cluster touch neither the Prober nor a run; what takes the
\* update away also ends the calm.
LEMMA ClusterPreserves ==
  ASSUME IInv,
         \/ \E o \in Discoveries \ {"error"} : OffersChange(o)
         \/ \E q \in Pods : AdmissionChanges(q)
         \/ \E q \in Pods, l \in Lives : PodChanges(q, l)
  PROVE  IInv'
<1> USE DEF IInv
<1>1. UNCHANGED <<spec, cap, due, runVars, reports, faults>>
  BY DEF OffersChange, AdmissionChanges, PodChanges
<1>2. RunInv' /\ ReportsAgree'
  BY <1>1 DEF RunInv, ReportsAgree, Support, Usable, runVars, workVars, reports
<1>3. changes' \in 0..MaxChanges
  <2>1. changes < MaxChanges /\ changes' = changes + 1
    BY DEF OffersChange, AdmissionChanges, PodChanges
  <2> QED BY <2>1, FleetAssumption DEF TypeOK
<1>4. ASSUME NEW o \in Discoveries \ {"error"}, OffersChange(o) PROVE IInv'
  <2>1. TypeOK'
    BY <1>1, <1>3, <1>4, ProberAssumption
    DEF OffersChange, TypeOK, runVars, workVars, reports
  <2>2. CalmInv'
    BY <1>4, ProberAssumption
    DEF OffersChange, CalmInv, TypeOK, Capabilities, NeverChecked
  <2> QED BY <1>2, <2>1, <2>2
<1>5. ASSUME NEW q \in Pods, AdmissionChanges(q) PROVE IInv'
  <2>1. TypeOK'
    BY <1>1, <1>3, <1>5
    DEF AdmissionChanges, TypeOK, runVars, workVars, reports
  <2>2. CalmInv'
    BY <1>5 DEF AdmissionChanges, CalmInv
  <2> QED BY <1>2, <2>1, <2>2
<1>6. ASSUME NEW q \in Pods, NEW l \in Lives, PodChanges(q, l) PROVE IInv'
  <2>1. Actual(lives) \in [Pods -> Lives]
    BY ActualType DEF TypeOK
  <2>2. lives' \in Seq([Pods -> Lives]) /\ Len(lives') > 0
    BY <1>6, <2>1, AppendType DEF PodChanges, TypeOK
  <2>3. TypeOK'
    BY <1>1, <1>3, <1>6, <2>2
    DEF PodChanges, TypeOK, runVars, workVars, reports
  <2>4. CalmInv'
    BY <1>6 DEF PodChanges, CalmInv
  <2> QED BY <1>2, <2>3, <2>4
<1> QED BY <1>4, <1>5, <1>6

\* Time: the capability ages with the calm, which therefore never overtakes it.
LEMMA TickPreserves == ASSUME IInv, Tick PROVE IInv'
<1> USE DEF IInv, serverVars, runVars, workVars, reports
<1>1. TypeOK'
  BY OlderType, FleetAssumption, ProberAssumption DEF Tick, TypeOK
<1>2. State(cap') = State(cap)
  BY OlderType DEF Tick, State
<1>3. RunInv' /\ ReportsAgree'
  BY <1>2 DEF Tick, RunInv, ReportsAgree, Support, Usable
<1>4. CalmInv'
  <2>1. ASSUME State(cap) # "Supported"
        PROVE  cap'.age = NeverChecked \/ calm' <= cap'.age
    BY <2>1, OlderType, ProberAssumption
    DEF Tick, CalmInv, TypeOK, Capabilities, NeverChecked
  <2> QED BY <1>2, <2>1 DEF CalmInv, Tick
<1> QED BY <1>1, <1>3, <1>4

\* A reconcile begins with an earlier or the present version of its policy,
\* and the present version stays what it is for all policies.
LEMMA BeginType ==
  ASSUME TypeOK, NEW p \in Policies, NEW n, Begin(p, n)
  PROVE  /\ supports' \in [Policies -> Seq(Conditions)]
         /\ \A r \in Policies :
             Len(supports'[r]) > 0 /\ Support(r)' = Support(r)
         /\ read' \in Conditions
         /\ due' \subseteq Policies
<1>1. /\ supports \in [Policies -> Seq(Conditions)]
      /\ \A r \in Policies : Len(supports[r]) > 0
      /\ due \subseteq Policies
  BY DEF TypeOK, Conditions
<1>2. /\ n \in DOMAIN supports[p] /\ read' = supports[p][n]
      /\ due' = due \ {p}
      /\ supports' = [supports EXCEPT ![p] = Since(supports[p], n)]
  BY DEF Begin
<1>3. /\ Since(supports[p], n) \in Seq(Conditions)
      /\ Len(Since(supports[p], n)) > 0
      /\ Actual(Since(supports[p], n)) = Actual(supports[p])
      /\ supports[p][n] \in Conditions
  BY <1>1, <1>2, SinceType
<1> QED BY <1>1, <1>2, <1>3 DEF Support

\* CheckDisabled leaves the condition as it was read.
LEMMA CheckDisabledPreserves ==
  ASSUME IInv, NEW p \in Policies, NEW n, CheckDisabled(p, n) PROVE IInv'
<1> USE DEF IInv, serverVars, workVars
<1>1. /\ supports' \in [Policies -> Seq(Conditions)]
      /\ \A r \in Policies : Len(supports'[r]) > 0 /\ Support(r)' = Support(r)
      /\ read' \in Conditions /\ due' \subseteq Policies
  BY BeginType DEF CheckDisabled
<1>2. /\ pc = "idle" /\ cur' = p /\ pc' = "patch" /\ cond' = read'
      /\ ~spec[p].enabled
      /\ gauge' = [gauge EXCEPT ![p] = GaugeInitialised(p)]
      /\ UNCHANGED <<spec, serverVars, cap, seen, workVars, fatal, missed,
                     faults, calm>>
  BY DEF CheckDisabled, Begin
<1>3. TypeOK'
  BY <1>1, <1>2, FleetAssumption
  DEF TypeOK, GaugeInitialised, States, Conditions
<1>4. RunInv'
  BY <1>2 DEF RunInv
<1>5. ReportsAgree'
  BY <1>1, <1>2, FleetAssumption DEF ReportsAgree, TypeOK
<1>6. CalmInv'
  BY <1>2 DEF CalmInv
<1> QED BY <1>3, <1>4, <1>5, <1>6

\* A check leaves the cache of the Prober and the copy of the run equal, and
\* gauge and condition in memory as well.  A capability that is not Supported
\* is new, or it was there before.
LEMMA CheckPreserves ==
  ASSUME IInv, NEW p \in Policies, NEW n, NEW d \in Discoveries,
         CheckWith(p, n, d), faults' \in 0..MaxFaults,
         calm' = 0 \/ (calm' = calm /\ d = offers)
  PROVE  IInv'
<1> DEFINE new == Supported(TTL[p], d)
<1> USE DEF IInv, serverVars, workVars
<1>1. new \in Capabilities /\ (new.reason = "none" <=> new.age = NeverChecked)
  BY SupportedType
<1>2. State(new) \in States
  BY StateType
<1>3. new = cap \/ (new.age = 0 /\ new.reason = DiscoveredReason(d))
  BY DEF Supported
<1>4. /\ supports' \in [Policies -> Seq(Conditions)]
      /\ \A r \in Policies : Len(supports'[r]) > 0 /\ Support(r)' = Support(r)
      /\ read' \in Conditions /\ due' \subseteq Policies
  BY BeginType DEF CheckWith
<1>5. /\ pc = "idle" /\ spec[p].enabled /\ cur' = p
      /\ cap' = new /\ seen' = State(new) /\ cond' = State(new)
      /\ gauge' = [gauge EXCEPT ![p] = {State(new)}]
      /\ UNCHANGED <<spec, serverVars, workVars, fatal, missed>>
  BY DEF CheckWith, Begin, ObserveCapability
<1>6. \/ ActiveReason(spec[p]) = "Enabled" /\ pc' = "list"
      \/ pc' = "patch"
  BY DEF CheckWith
<1> HIDE DEF new
<1>7. TypeOK'
  <2>1. calm' \in 0..MaxTTL
    BY ProberAssumption DEF TypeOK
  <2>2. cap' \in Capabilities
        /\ (cap'.reason = "none" <=> cap'.age = NeverChecked)
    BY <1>1, <1>5
  <2>3. gauge' \in [Policies -> SUBSET States]
    BY <1>2, <1>5 DEF TypeOK
  <2> QED
    BY <1>2, <1>4, <1>5, <1>6, <2>1, <2>2, <2>3, FleetAssumption
    DEF TypeOK, Conditions
<1>8. RunInv'
  BY <1>5, <1>6 DEF RunInv, TypeOK, Usable
<1>9. ReportsAgree'
  BY <1>4, <1>5, FleetAssumption DEF ReportsAgree, TypeOK
<1>10. CalmInv'
  <2>1. offers' # "update" => calm' = 0
    BY <1>5 DEF CalmInv
  <2>2. ASSUME State(new) # "Supported"
        PROVE  new.age = NeverChecked \/ calm' <= new.age
    <3>1. CASE new = cap
      BY <2>2, <3>1, ProberAssumption
      DEF CalmInv, TypeOK, Capabilities, NeverChecked
    <3>2. CASE new.age = 0 /\ new.reason = DiscoveredReason(d)
      <4>1. d # "update"
        BY <2>2, <3>2 DEF State, DiscoveredReason
      <4> QED BY <2>1, <3>2, <4>1, <1>5 DEF CalmInv
    <3> QED BY <1>3, <3>1, <3>2
  <2> QED BY <1>5, <2>1, <2>2 DEF CalmInv
<1> QED BY <1>7, <1>8, <1>9, <1>10

\* Whatever comes of the status patch, the reconcile is over.
LEMMA IdlePreserves ==
  ASSUME IInv, Idle, UNCHANGED <<spec, serverVars, cap, due, gauge, calm>>,
         faults' \in 0..MaxFaults, missed' \subseteq Policies,
         supports' \in [Policies -> Seq(Conditions)],
         \A p \in Policies : Len(supports'[p]) > 0,
         ReportsAgree'
  PROVE  IInv'
<1> USE DEF IInv, Idle, serverVars
<1>1. TypeOK'
  BY FleetAssumption DEF TypeOK, States, Conditions
<1>2. RunInv'
  BY DEF RunInv
<1>3. CalmInv'
  BY DEF CalmInv
<1> QED BY <1>1, <1>2, <1>3

\* A patch that is computed from the present version, or has the condition in
\* it, leaves the API server with what the gauge says; otherwise, and when it
\* fails, the policy is among the missed ones.
LEMMA PatchPreserves ==
  ASSUME IInv, (\E whole \in BOOLEAN : PatchStatus(whole)) \/ PatchStatusFails
  PROVE  IInv'
<1> USE DEF IInv
<1>1. pc = "patch" /\ cur \in Policies
  BY DEF PatchStatus, PatchStatusFails, TypeOK
<1>2. IF spec[cur].enabled THEN gauge[cur] = {cond} ELSE cond = read
  BY <1>1 DEF RunInv
<1>3. /\ supports \in [Policies -> Seq(Conditions)]
      /\ \A p \in Policies : Len(supports[p]) > 0
      /\ cond \in Conditions /\ missed \subseteq Policies
      /\ faults \in 0..MaxFaults
  BY DEF TypeOK, Conditions
<1>4. ASSUME NEW whole \in BOOLEAN, PatchStatus(whole) PROVE IInv'
  <2>1. /\ cond # read => whole
        /\ supports' = [supports EXCEPT ![cur] =
             IF whole THEN Written(supports[cur], cond) ELSE supports[cur]]
        /\ missed' = IF ~whole /\ read # Support(cur) THEN missed \cup {cur}
                                                      ELSE missed \ {cur}
        /\ Idle
        /\ UNCHANGED <<spec, serverVars, cap, due, gauge, faults, calm>>
    BY <1>4 DEF PatchStatus, Support
  <2>2. /\ Written(supports[cur], cond) \in Seq(Conditions)
        /\ Len(Written(supports[cur], cond)) > 0
        /\ Actual(Written(supports[cur], cond)) = cond
    BY <1>1, <1>3, WrittenType
  <2>3. /\ supports' \in [Policies -> Seq(Conditions)]
        /\ \A p \in Policies : Len(supports'[p]) > 0
        /\ \A p \in Policies \ {cur} : Support(p)' = Support(p)
        /\ Actual(supports'[cur]) = IF whole THEN cond ELSE Support(cur)
    BY <1>1, <1>3, <2>1, <2>2 DEF Support
  <2>4. missed' \subseteq Policies
    BY <1>1, <1>3, <2>1
  <2>5. ReportsAgree'
    <3> SUFFICES ASSUME NEW p \in Policies, p \notin missed', spec[p].enabled
                 PROVE  gauge[p] \in {{}, {Support(p)'}}
      BY <2>1 DEF ReportsAgree
    <3>1. CASE p = cur
      BY <1>1, <1>2, <2>1, <2>3, <3>1 DEF Support
    <3>2. CASE p # cur
      BY <2>1, <2>3, <3>2 DEF ReportsAgree
    <3> QED BY <3>1, <3>2
  <2> QED BY <1>3, <2>1, <2>3, <2>4, <2>5, IdlePreserves
<1>5. ASSUME PatchStatusFails PROVE IInv'
  <2>1. /\ missed' = missed \cup {cur} /\ Idle
        /\ UNCHANGED <<spec, serverVars, cap, due, supports, gauge, calm>>
    BY <1>5 DEF PatchStatusFails
  <2>2. faults' \in 0..MaxFaults
    BY <1>3, <1>5, FleetAssumption DEF PatchStatusFails, Fault
  <2>3. ReportsAgree'
    BY <2>1 DEF ReportsAgree, Support
  <2> QED BY <1>1, <1>3, <2>1, <2>2, <2>3, IdlePreserves
<1> QED BY <1>4, <1>5

\* Steps of the workers that move pods between their sets.
LEMMA WorkersPreserve ==
  ASSUME IInv, NEW q \in Pods, NEW a,
         Skip(q) \/ Send(q) \/ Resend(q) \/ AnsweredAgain(q)
           \/ Answered(q, a) \/ RefusedAgain(q, a)
  PROVE  IInv'
<1> USE DEF IInv
<1>1. /\ pc = "work"
      /\ UNCHANGED <<spec, serverVars, cap, due, cur, pc, seen, fatal, read,
                     cond, reports, faults, calm>>
  BY DEF Skip, Send, Resend, AnsweredAgain, Answered, RefusedAgain, WorkersOnly
<1>2. /\ todo' \subseteq todo
      /\ sent' \subseteq sent \cup {q}
      /\ resent' \subseteq resent \cup {q}
      /\ refused \subseteq refused' /\ refused' \subseteq refused \cup {q}
      /\ sent' # {} => seen = "Supported"
  BY DEF Skip, Send, Resend, AnsweredAgain, Answered, RefusedAgain, RunInv
<1>3. TypeOK'
  BY <1>1, <1>2 DEF TypeOK, serverVars, reports
<1>4. RunInv'
  BY <1>1, <1>2 DEF RunInv, Usable, reports
<1>5. ReportsAgree' /\ CalmInv'
  BY <1>1 DEF ReportsAgree, Support, CalmInv, serverVars, reports
<1> QED BY <1>3, <1>4, <1>5

\* The list, and its failure.
LEMMA ListPreserves ==
  ASSUME IInv, (\E n \in DOMAIN lives : ListPods(n)) \/ ListPodsFails
  PROVE  IInv'
<1> USE DEF IInv, serverVars, workVars, reports
<1>1. ASSUME NEW n \in DOMAIN lives, ListPods(n) PROVE IInv'
  <2>1. Candidates(spec[cur], PodObjects(lives[n])) \subseteq Pods
    BY DEF Candidates, PodObjects
  <2>2. lives' \in Seq([Pods -> Lives]) /\ Len(lives') > 0
    BY <1>1, SinceType DEF ListPods, TypeOK
  <2>3. TypeOK'
    BY <1>1, <2>1, <2>2 DEF ListPods, TypeOK
  <2>4. RunInv' /\ ReportsAgree' /\ CalmInv'
    BY <1>1 DEF ListPods, RunInv, ReportsAgree, Support, Usable, CalmInv
  <2> QED BY <2>3, <2>4
<1>2. ASSUME ListPodsFails PROVE IInv'
  <2>1. faults' \in 0..MaxFaults
    BY <1>2, FleetAssumption DEF ListPodsFails, Fault, TypeOK
  <2>2. TypeOK'
    BY <1>2, <2>1 DEF ListPodsFails, TypeOK
  <2>3. RunInv' /\ ReportsAgree' /\ CalmInv'
    BY <1>2 DEF ListPodsFails, RunInv, ReportsAgree, Support, Usable, CalmInv
  <2> QED BY <2>2, <2>3
<1> QED BY <1>1, <1>2

\* The first refusal: the Prober is marked, the copy of the run is stale, and
\* fatalOnce is under way.
LEMMA RefusedPreserves ==
  ASSUME IInv, NEW q \in Pods, NEW a, RefusedFatal(q, a) PROVE IInv'
<1> USE DEF IInv, serverVars, reports
<1>1. pc = "work"
  BY DEF RefusedFatal, RunInv, TypeOK
<1>2. /\ cap' = Refused /\ calm' = 0 /\ fatal' = "marked"
      /\ sent' \subseteq sent /\ refused' = refused \cup {q}
      /\ UNCHANGED <<spec, serverVars, due, cur, pc, seen, todo, resent, read,
                     cond, reports, faults>>
  BY DEF RefusedFatal, Mark
<1>3. TypeOK'
  BY <1>2, RefusedType, ProberAssumption DEF TypeOK, Refused
<1>4. RunInv'
  BY <1>1, <1>2 DEF RunInv, Usable
<1>5. ReportsAgree'
  BY <1>2 DEF ReportsAgree, Support
<1>6. CalmInv'
  BY <1>2 DEF CalmInv, Refused
<1> QED BY <1>3, <1>4, <1>5, <1>6

\* The rest of fatalOnce: gauge and condition change together, then the run is
\* cancelled.
LEMMA FatalPreserves ==
  ASSUME IInv, ReportRefused \/ CancelRun PROVE IInv'
<1> USE DEF IInv, serverVars, workVars, reports
<1>1. fatal \in {"marked", "reported"} /\ pc = "work" /\ cur \in Policies
  BY DEF ReportRefused, CancelRun, RunInv, TypeOK
<1>2. ASSUME ReportRefused PROVE IInv'
  <2>1. /\ cond' = "Unsupported" /\ fatal' = "reported"
        /\ gauge' = [gauge EXCEPT ![cur] = {"Unsupported"}]
        /\ UNCHANGED <<spec, serverVars, cap, due, cur, pc, seen, workVars,
                       read, supports, missed, faults, calm>>
    BY <1>2, RefusedType DEF ReportRefused, ObserveCapability
  <2>2. TypeOK'
    BY <1>1, <2>1 DEF TypeOK, States
  <2>3. RunInv'
    BY <1>1, <2>1 DEF RunInv, Usable, TypeOK
  <2>4. ReportsAgree' /\ CalmInv'
    BY <1>1, <2>1 DEF ReportsAgree, Support, CalmInv, TypeOK
  <2> QED BY <2>2, <2>3, <2>4
<1>3. ASSUME CancelRun PROVE IInv'
  <2>1. TypeOK'
    BY <1>3 DEF CancelRun, TypeOK
  <2>2. RunInv' /\ ReportsAgree' /\ CalmInv'
    BY <1>1, <1>3
    DEF CancelRun, RunInv, ReportsAgree, Support, Usable, CalmInv
  <2> QED BY <2>1, <2>2
<1> QED BY <1>2, <1>3

\* The workers are done; fatalOnce is not under way, or one would be in it.
LEMMA CompletePreserves == ASSUME IInv, Complete PROVE IInv'
<1> USE DEF IInv, Complete, serverVars, reports
<1>1. TypeOK'
  BY DEF TypeOK
<1>2. RunInv'
  BY DEF RunInv
<1>3. ReportsAgree' /\ CalmInv'
  BY DEF ReportsAgree, Support, CalmInv
<1> QED BY <1>1, <1>2, <1>3

\* A new process has no runs, no gauges and a Prober that was never asked, and
\* sees what there is.
LEMMA RestartPreserves == ASSUME IInv, Restart PROVE IInv'
<1> USE DEF IInv, Restart, Fault, Idle
<1>1. cap' \in Capabilities
      /\ cap'.reason = "none" /\ cap'.age = NeverChecked
  BY ProberAssumption DEF NewProber, Capabilities, Reasons, NeverChecked
<1>2. gauge' \in [Policies -> SUBSET States] /\ seen' \in States
  BY DEF States
<1>3. lives' \in Seq([Pods -> Lives]) /\ Len(lives') > 0
  BY ActualType DEF TypeOK
<1>4. ASSUME NEW p \in Policies
      PROVE  <<Actual(supports[p])>> \in Seq(Conditions)
             /\ Len(<<Actual(supports[p])>>) > 0
  BY ActualType DEF TypeOK, Conditions
<1>5. supports' \in [Policies -> Seq(Conditions)]
      /\ \A p \in Policies : Len(supports'[p]) > 0
  BY <1>4
<1>6. faults' \in 0..MaxFaults
  BY FleetAssumption DEF TypeOK
<1>7. TypeOK'
  BY <1>1, <1>2, <1>3, <1>5, <1>6, FleetAssumption DEF TypeOK, Conditions
<1>8. RunInv' /\ ReportsAgree'
  BY FleetAssumption DEF RunInv, ReportsAgree
<1>9. CalmInv'
  BY <1>1 DEF CalmInv
<1> QED BY <1>7, <1>8, <1>9

\* Every step keeps the invariant.
LEMMA StepInv == IInv /\ [Next]_vars => IInv'
<1> SUFFICES ASSUME IInv, [Next]_vars PROVE IInv'
  OBVIOUS
<1>1. ASSUME NEW p \in Policies, NEW n, Check(p, n) PROVE IInv'
  BY <1>1, CheckPreserves DEF Check, IInv, TypeOK
<1>2. ASSUME NEW p \in Policies, NEW n, CheckFails(p, n) PROVE IInv'
  <2>1. faults' \in 0..MaxFaults
    BY <1>2, FleetAssumption DEF CheckFails, Fault, IInv, TypeOK
  <2> QED BY <1>2, <2>1, CheckPreserves DEF CheckFails, Discoveries
<1>3. CASE RunStep
  BY <1>3, ListPreserves, WorkersPreserve, RefusedPreserves, FatalPreserves,
     CompletePreserves, PatchPreserves
  DEF RunStep
<1>4. CASE UNCHANGED vars
  <2> USE <1>4 DEF IInv, vars, serverVars, runVars, workVars, reports
  <2>1. TypeOK'
    BY DEF TypeOK
  <2>2. RunInv' /\ ReportsAgree' /\ CalmInv'
    BY DEF RunInv, ReportsAgree, Support, Usable, CalmInv
  <2> QED BY <2>1, <2>2
<1> QED
  BY <1>1, <1>2, <1>3, <1>4, ClusterPreserves, TickPreserves,
     CheckDisabledPreserves, ListPreserves, PatchPreserves, RestartPreserves
  DEF Next

\* The inductive invariant holds in every reachable state.
THEOREM InvariantCorrect == Spec => []IInv
<1>1. IInv /\ [Next]_vars => IInv'
  BY StepInv
<1> QED BY <1>1, InitInv, PTL DEF Spec

-----------------------------------------------------------------------------
(* The theorems.                                                           *)

\* Every variable keeps its type.
THEOREM TypeCorrect == Spec => []TypeOK
<1>1. IInv => TypeOK
  BY DEF IInv
<1> QED BY <1>1, InvariantCorrect, PTL

\* A resize is put on its way without the capability only between mark and
\* cancel of the run whose own refusal took it away, whichever policy it is.
THEOREM NoBlindRetryCorrect == Spec => NoBlindRetry
<1> DEFINE A == \A q \in Pods :
                  q \in (sent' \ sent) \cup (resent' \ resent) =>
                    \/ State(cap) = "Supported"
                    \/ fatal \in {"marked", "reported"}
<1>1. IInv /\ [Next]_vars => [A]_vars
  <2> SUFFICES ASSUME IInv, Next, NEW q \in Pods,
                      q \in (sent' \ sent) \cup (resent' \ resent)
               PROVE  \/ State(cap) = "Supported"
                      \/ fatal \in {"marked", "reported"}
    OBVIOUS
  <2>1. \E r \in Pods : Send(r) \/ Resend(r)
    BY DEF Next, RunStep, OffersChange, AdmissionChanges, PodChanges, Tick,
           CheckDisabled, Check, CheckFails, CheckWith, ListPods,
           ListPodsFails, Skip, Answered, AnsweredAgain, RefusedFatal,
           RefusedAgain, ReportRefused, CancelRun, Complete, PatchStatus,
           PatchStatusFails, Restart, Idle, WorkersOnly, runVars, workVars
  <2>2. pc = "work" /\ ~Cancelled /\ seen = "Supported"
    BY <2>1 DEF Send, Resend, WorkersOnly, IInv, RunInv
  <2> QED BY <2>2 DEF Cancelled, IInv, TypeOK, RunInv
<1> QED BY <1>1, InvariantCorrect, PTL DEF Spec, NoBlindRetry

\* Gauge and condition are parted by a failed status patch or an outdated copy
\* only, and the next patch that is neither brings them together.
THEOREM ReportsAgreeCorrect == Spec => []ReportsAgree
<1>1. IInv => ReportsAgree
  BY DEF IInv
<1> QED BY <1>1, InvariantCorrect, PTL

\* An answer that the API server gives to a resize while it offers the update
\* is fatal only if admission refuses the pod.
LEMMA FatalAnswers ==
  ASSUME NEW q \in Pods, NEW a \in ServerAnswers(q), offers = "update",
         UpdateResize(a) \in Fatal
  PROVE  q \in forbidden
<1> SUFFICES ASSUME q \notin forbidden PROVE FALSE
  OBVIOUS
<1>1. a \in {Status(409, "pods", TRUE), Status(500, "none", FALSE),
            Status(404, "pods", TRUE), Status(200, "none", FALSE)}
  BY DEF ServerAnswers
<1>2. /\ a.code \in {200, 404, 409, 500}
      /\ a.code = 404 => a.kind = "pods" /\ a.named
  BY <1>1 DEF Status
<1>3. ~isUnsupportedResizeErr(a) /\ a.code # 403
  BY <1>2 DEF isUnsupportedResizeErr, PodNotFound
<1>4. UpdateResize(a) \in {"none", "Conflict", "Other"}
  BY <1>3 DEF UpdateResize
<1> QED BY <1>4 DEF Fatal

\* The Prober is marked only when the update is not offered or a pod whose
\* resize is on its way is refused by admission.
THEOREM MarkJustifiedCorrect == Spec => MarkJustified
<1> DEFINE A == cap' = Refused /\ cap' # cap =>
                  offers # "update" \/ \E q \in sent : q \in forbidden
<1>1. IInv /\ [Next]_vars => [A]_vars
  <2> SUFFICES ASSUME IInv, Next, cap' = Refused, cap' # cap,
                      offers = "update"
               PROVE  \E q \in sent : q \in forbidden
    OBVIOUS
  <2>1. ASSUME NEW q \in Pods, NEW a \in ServerAnswers(q), RefusedFatal(q, a)
        PROVE  \E r \in sent : r \in forbidden
    BY <2>1, FatalAnswers DEF RefusedFatal
  <2>2. ~Tick
    BY OlderType DEF Tick, Refused, IInv
  <2>3. ASSUME NEW p \in Policies, NEW n, NEW d \in Discoveries,
               CheckWith(p, n, d)
        PROVE  FALSE
    <3>1. cap' = [reason |-> DiscoveredReason(d), age |-> 0]
      BY <2>3 DEF CheckWith, Supported
    <3>2. DiscoveredReason(d) # "ApplyFailed"
      BY DEF DiscoveredReason, Discoveries
    <3> QED BY <3>1, <3>2 DEF Refused
  <2>4. \A p \in Policies : \A n : ~Check(p, n) /\ ~CheckFails(p, n)
    BY <2>3 DEF Check, CheckFails, IInv, TypeOK, Discoveries
  <2>5. ~Restart
    BY DEF Restart, NewProber, Refused
  <2> QED
    BY <2>1, <2>2, <2>4, <2>5
    DEF Next, RunStep, OffersChange, AdmissionChanges, PodChanges,
        CheckDisabled, ListPods, ListPodsFails, Skip, Send, Resend,
        AnsweredAgain, Answered, RefusedAgain, WorkersOnly, ReportRefused,
        CancelRun, Complete, PatchStatus, PatchStatusFails
<1> QED BY <1>1, InvariantCorrect, PTL DEF Spec, MarkJustified

\* A check that comes after a calm as long as the policy's own interval finds
\* the capability: a cached one that is still trusted is younger than that.
THEOREM RecoversInTimeCorrect == Spec => RecoversInTime
<1> DEFINE A == \A p \in Policies :
                  \A n \in DOMAIN supports[p] :
                    Check(p, n) /\ calm >= TTL[p] => State(cap') = "Supported"
<1>1. IInv => A
  <2> SUFFICES ASSUME IInv, NEW p \in Policies, NEW n, Check(p, n),
                      calm >= TTL[p]
               PROVE  State(cap') = "Supported"
    OBVIOUS
  <2>1. TTL[p] \in 1..MaxTTL
    BY FleetAssumption
  <2>2. offers = "update"
    BY <2>1, ProberAssumption DEF IInv, CalmInv
  <2>3. cap' = Supported(TTL[p], offers)
    BY DEF Check, CheckWith
  <2>4. CASE Trusted(TTL[p])
    BY <2>1, <2>3, <2>4, ProberAssumption
    DEF Supported, Trusted, IInv, CalmInv, TypeOK, Capabilities, NeverChecked
  <2>5. CASE ~Trusted(TTL[p])
    BY <2>2, <2>3, <2>5 DEF Supported, DiscoveredReason, State
  <2> QED BY <2>4, <2>5
<1> QED BY <1>1, InvariantCorrect, PTL DEF RecoversInTime

-----------------------------------------------------------------------------
(* Selection.                                                              *)

\* The languages of a set of patterns, as in Permitted.
Languages(s, ps) ==
  UNION {Language[Syntax(s)][p] : p \in ps \ Malformed[Syntax(s)]}

\* The matchers of Compile accept the union of the included languages, or
\* everything, without the excluded ones.
LEMMA MatchIsUnion ==
  ASSUME NEW s \in Specs, Compiles(s), NEW ns \in Namespaces
  PROVE  Match(s, ns) <=>
           ns \in (IF s.include = {} THEN Namespaces
                   ELSE Languages(s, s.include)) \ Languages(s, s.exclude)
<1>1. \A ps : (\E p \in ps : MatchString(s, p, ns)) <=> ns \in Languages(s, ps)
  BY DEF MatchString, Languages
<1>2. ASSUME s.include = {} PROVE \E p \in Include(s) : MatchString(s, p, ns)
  <2>1. Syntax(s) \in {"Glob", "Regexp"}
    BY DEF Compiles, Syntaxes
  <2>2. CASE Syntax(s) = "Glob"
    BY <1>2, <2>2, SelectionAssumption DEF Include, MatchString
  <2>3. CASE Syntax(s) = "Regexp"
    BY <1>2, <2>3, SelectionAssumption DEF Include, MatchString
  <2> QED BY <2>1, <2>2, <2>3
<1>3. s.include # {} => Include(s) = s.include
  BY DEF Include
<1> QED BY <1>1, <1>2, <1>3 DEF Match

\* The list of a run is exactly what its selectors mean, read as languages.
THEOREM SelectsExactlyCorrect == Spec => SelectsExactly
<1> DEFINE A == \A n \in DOMAIN lives : ListPods(n) =>
                  todo' = {q \in Pods : Permitted(spec[cur], q, lives[n])}
<1>1. IInv => A
  <2> SUFFICES ASSUME IInv, NEW n \in DOMAIN lives, ListPods(n)
               PROVE  todo' = {q \in Pods : Permitted(spec[cur], q, lives[n])}
    OBVIOUS
  <2> DEFINE s == spec[cur]
             life == lives[n]
  <2>1. cur \in Policies /\ pc = "list"
    BY DEF IInv, TypeOK, ListPods
  <2>2. s \in Specs /\ life \in [Pods -> Lives]
    BY <2>1, SinceType DEF IInv, TypeOK
  <2>3. ActiveReason(s) = "Enabled"
    BY <2>1 DEF IInv, RunInv, Usable
  <2>4. /\ Compiles(s) /\ s.podSelector # "invalid"
        /\ ~(s.include = {} /\ s.podSelector = "nil")
    BY <2>3 DEF ActiveReason
  <2>5. s.include # {} \/ s.podSelector \in {"empty", "label"}
    BY <2>2, <2>4 DEF Specs, PodSelectors
  <2>6. todo' = Candidates(s, PodObjects(life))
    BY DEF ListPods
  <2> HIDE DEF s, life
  <2>7. ASSUME NEW q \in Pods
        PROVE  q \in Candidates(s, PodObjects(life)) <=> Permitted(s, q, life)
    <3>1. Namespace[q] \in Namespaces /\ life[q] \in Lives
      BY <2>2, FleetAssumption
    <3>2. Permitted(s, q, life) <=>
            /\ Match(s, Namespace[q])
            /\ s.podSelector = "label" => q \in Labelled
            /\ life[q] = "running"
      BY <2>2, <2>4, <2>5, <3>1, MatchIsUnion DEF Permitted, Languages
    <3>3. q \in DOMAIN PodObjects(life) <=> life[q] # "absent"
      BY DEF PodObjects
    <3>4. ASSUME life[q] # "absent"
          PROVE  /\ PodObjects(life)[q].namespace = Namespace[q]
                 /\ PodSelected(s, PodObjects(life)[q]) <=>
                      (s.podSelector = "label" => q \in Labelled)
                 /\ isEligiblePod(PodObjects(life)[q]) <=> life[q] = "running"
      BY <3>1, <3>4 DEF PodObjects, PodSelected, isEligiblePod, Lives
    <3> QED BY <3>2, <3>3, <3>4 DEF Candidates
  <2>8. Candidates(s, PodObjects(life)) \subseteq Pods
    BY DEF Candidates, PodObjects
  <2> QED BY <2>6, <2>7, <2>8 DEF s, life
<1> QED BY <1>1, InvariantCorrect, PTL DEF SelectsExactly

=============================================================================
