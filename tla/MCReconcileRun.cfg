\* Three pods compete for two slots and a cpu budget of 3; the four workers
\* that maxConcurrentPods asks for are clamped to two.
CONSTANTS
  Pods = {p1, p2, p3}
  NoPod = NoPod
  MaxPods = 2
  MaxConcurrentPods = 4
  Resources <- MCResources
  MaxIncrease <- MCMaxIncrease
  Deltas <- MCIncreases
SPECIFICATION Spec
SYMMETRY PodSymmetry
INVARIANTS
  TypeOK
  SlotsConserved
  SkipImpliesProgress
  BudgetRespected
  NoneLeftOut
  ConditionTruthful
  BooksBalance
PROPERTIES
  CountedOnce
  MovesForward
  ImplementsContract
