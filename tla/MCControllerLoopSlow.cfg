\* A reconcile may take as long as the interval.
CONSTANTS
  MaxGen = 1
  Kinds <- MCTwoKinds
  Interval = 2
  MaxElapsed = 2
  MaxFaults = 0
SPECIFICATION FairSpec
PROPERTIES
  RunsAgain
