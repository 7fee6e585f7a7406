\* Up to four releases, times that repeat and step back.
SPECIFICATION Spec
CONSTANTS
  MaxReleases = 4
  Times = {1, 2}
  KeepReleases = 2
INVARIANTS
  ActiveSurvives
PROPERTIES
  ActiveStaysWhole
  PruneKeepsEnough
  LoopComputesKeepSet
CHECK_DEADLOCK FALSE
