\* Increases and decreases in one run (allowDownscale).
CONSTANTS
  Pods = {p1, p2, p3}
  NoPod = NoPod
  MaxPods = 2
  MaxConcurrentPods = 4
  Resources <- MCResources
  MaxIncrease <- MCMaxIncrease
  Deltas <- MCBothWays
SPECIFICATION Spec
SYMMETRY PodSymmetry
INVARIANTS
  BudgetAtEnd
