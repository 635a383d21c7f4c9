---------------------------- MODULE RunContract ----------------------------
(***************************************************************************)
(* What a reconcile run promises about the cluster, without workers, slots *)
(* or reservations: it resizes distinct pods one at a time, at most        *)
(* MaxPods of them, and keeps the sum of their increases within the        *)
(* budget of the policy.                                                   *)
(***************************************************************************)
EXTENDS Integers, FiniteSets

CONSTANTS Pods, MaxPods, Resources, MaxIncrease, Deltas

VARIABLES
  resized,   \* the pods resized so far
  total,     \* the sum of their deltas, by resource
  finished   \* the run has returned

rcVars == <<resized, total, finished>>

Init ==
  /\ resized = {}
  /\ total = [r \in Resources |-> 0]
  /\ finished = FALSE

WithinBudget(t) ==
  \A r \in Resources : MaxIncrease[r] > 0 => t[r] <= MaxIncrease[r]

Resize(p, d) ==
  /\ ~finished
  /\ p \notin resized
  /\ Cardinality(resized) < MaxPods
  /\ resized' = resized \cup {p}
  /\ total' = [r \in Resources |-> total[r] + d[r]]
  /\ WithinBudget(total')
  /\ UNCHANGED finished

Finish ==
  /\ ~finished
  /\ finished' = TRUE
  /\ UNCHANGED <<resized, total>>

Next == (\E p \in Pods, d \in Deltas : Resize(p, d)) \/ Finish

Spec == Init /\ [][Next]_rcVars

=============================================================================
