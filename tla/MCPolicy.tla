------------------------------ MODULE MCPolicy ------------------------------
(***************************************************************************)
(* Instances of Policy for TLC.  A step is 2 units, so that amounts on and *)
(* off a step both occur.                                                  *)
(***************************************************************************)
EXTENDS Policy

MCStep == [r \in Resources |-> 2]

Pair(cpu, memory) == [r \in Resources |-> IF r = "cpu" THEN cpu ELSE memory]
NoneSet == Pair(Unset, Unset)

\* Requests and limits of a container: without and with limits, with equal
\* ones, with limits off a step, and without anything.
MCResources ==
  {[req |-> Pair(4, 2), lim |-> NoneSet],
   [req |-> Pair(1, 2), lim |-> Pair(5, 4)],
   [req |-> Pair(4, 3), lim |-> Pair(4, 3)],
   [req |-> Pair(4, 2), lim |-> Pair(4, 5)],
   [req |-> Pair(Unset, 3), lim |-> Pair(Unset, 3)],
   [req |-> NoneSet, lim |-> NoneSet]}

\* Init containers have equal requests and limits, or none.
MCPods ==
  {[c \in Containers \cup Inits |-> IF c \in Inits THEN i ELSE f[c]] :
     f \in [Containers -> MCResources],
     i \in {[req |-> l, lim |-> l] : l \in {NoneSet, Pair(4, 2)}}}

MCUsages ==
  [Containers -> {Pair(2, 4), Pair(5, 1), NoMetrics}]

\* A policy with the given managed resources and bounds.
MCSpec(managed, mode, down, pct, min, max) ==
  [managed |-> managed, limitsMode |-> mode, allowDown |-> down,
   headroom |-> 20, up |-> pct, down |-> pct,
   min |-> min, max |-> max, minChange |-> Pair(pct \div 20, 0)]

MCPolicies(down, pcts) ==
  {MCSpec(managed, mode, down, pct, min, max) :
     managed \in {Resources, {"memory"}},
     mode \in {"Unchanged", "EqualRequests"},
     pct \in pcts, min \in {NoneSet, Pair(3, 3)}, max \in {Pair(5, 5)}}

MCAnyPolicy == MCPolicies(TRUE, {20}) \cup MCPolicies(FALSE, {0})

\* One policy without bounds and with allowDownscale.
MCDownscale == {MCSpec(Resources, "Unchanged", TRUE, 20, NoneSet, NoneSet)}

=============================================================================
