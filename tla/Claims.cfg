\* A docroot with the platform's boundaries, which come and go.
SPECIFICATION Spec
CONSTANTS
  TreePaths <- RepositoryPaths
  LinkPaths <- RepositoryLinks
  BoundarySets <- Sticky
  RejectedSharedPaths <- Runtime
  SharedContainers <- Containers
  Hidden <- NotServed
INVARIANTS
  TypeOK
  ClaimsApart
  EveryFilePublishedOnce
  PlatformPathsKept
