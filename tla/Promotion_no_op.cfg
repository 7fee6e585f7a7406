\* A forced deploy is killed and cron follows.
SPECIFICATION Spec
CONSTANTS
  site = site
  other = other
  flat = flat
  media = media
  gallery = gallery
  plugin = plugin
  nested = nested
  escaping = escaping
  refused = refused
  NoCommit = NoCommit
  NoMarker = NoMarker
  WordPress = WordPress
  Deployments = {site}
  PublicPaths <- SitePaths
  Rank <- SiteRank
  Commits = {flat}
  Repo <- AllCommits
  ClaimsOf <- SiteClaims
  Resolves <- SiteResolves
  Rejected = {}
  Installed <- FlatInstalled
  SiteNode <- SiteDirs
  Keep = 2
  Maintained = {site}
  Mentions <- OwnMarker
  ForceModes = {FALSE, TRUE}
  RollbackIds = {}
  MaxReleases = 2
  MaxActive = 1
  MaxFaults = 1
  CoreUpdates = FALSE
PROPERTIES
  NoOpLeavesNoResidue
CHECK_DEADLOCK FALSE
