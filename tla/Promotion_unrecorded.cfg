\* A crash between an exchange and its record.
SPECIFICATION Spec
CONSTANTS
  site = site
  other = other
  flat = flat
  media = media
  gallery = gallery
  plugin = plugin
  nested = nested
  escaping = escaping
  refused = refused
  NoCommit = NoCommit
  NoMarker = NoMarker
  WordPress = WordPress
  Deployments = {site}
  PublicPaths <- SitePaths
  Rank <- SiteRank
  Commits = {flat}
  Repo <- AllCommits
  ClaimsOf <- SiteClaims
  Resolves <- SiteResolves
  Rejected = {}
  Installed <- NothingInstalled
  SiteNode <- SiteDirs
  Keep = 2
  Maintained = {site}
  Mentions <- OwnMarker
  ForceModes = {FALSE}
  RollbackIds = {}
  MaxReleases = 2
  MaxActive = 1
  MaxFaults = 1
  CoreUpdates = FALSE
INVARIANTS
  DisplacedIsRecorded
CHECK_DEADLOCK FALSE
