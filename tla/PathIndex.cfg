\* Every index of at most four paths.
SPECIFICATION Spec
CONSTANTS
  Slash = 47
  IndexPaths <- ShortPaths
  IndexSize = 4
INVARIANTS
  RefusedExactlyOnOverlap
