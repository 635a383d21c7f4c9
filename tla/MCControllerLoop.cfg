\* Three generations of any kind, reconciles longer than the interval.
CONSTANTS
  MaxGen = 3
  Kinds <- MCThreeKinds
  Interval = 1
  MaxElapsed = 2
  MaxFaults = 1
SPECIFICATION FairSpec
INVARIANTS
  TypeOK
  StatusHonest
  NoLostUpdate
PROPERTIES
  RunsAgainIfShort
  StatusCatchesUp
  NeverForgotten
  StatusMovesForward
