\* A pruned release of which a part is left.
SPECIFICATION Spec
CONSTANTS
  MaxReleases = 4
  Times = {1, 2}
  KeepReleases = 2
PROPERTIES
  DefaultTargetWhole
CHECK_DEADLOCK FALSE
