\* Two deployments that overlap, one command at a time, one fault.
SPECIFICATION Spec
CONSTANTS
  site = site
  other = other
  flat = flat
  media = media
  gallery = gallery
  plugin = plugin
  nested = nested
  escaping = escaping
  refused = refused
  NoCommit = NoCommit
  NoMarker = NoMarker
  WordPress = WordPress
  Deployments = {site, other}
  PublicPaths <- SitePaths
  Rank <- SiteRank
  Commits = {flat, nested, media, escaping, refused}
  Repo <- TurnRepos
  ClaimsOf <- SiteClaims
  Resolves <- SiteResolves
  Rejected = {refused}
  Installed <- TurnInstalled
  SiteNode <- SharedDirs
  Keep = 2
  Maintained = {site}
  Mentions <- OwnMarker
  ForceModes = {FALSE, TRUE}
  RollbackIds = {1}
  MaxReleases = 3
  MaxActive = 1
  MaxFaults = 1
  CoreUpdates = FALSE
INVARIANTS
  TypeOK
  CurrentIsReal
  StoreInv
  ContainersSurvive
PROPERTIES
  SuccessPublishesExactly
  SuccessLeavesNoResidue
  SteadyClaimsStayVisible
  RemovalAfterSwitch
  RetentionBound
  FailureCleansUp
  LateFailureKeepsRelease
  ReleaseStoreSpec
  ForeignClaimsUntouched
CHECK_DEADLOCK FALSE
