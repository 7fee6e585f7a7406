\* The id of one deployment begins with the id of the other.
SPECIFICATION Spec
CONSTANTS
  site = site
  other = other
  flat = flat
  media = media
  gallery = gallery
  plugin = plugin
  nested = nested
  escaping = escaping
  refused = refused
  NoCommit = NoCommit
  NoMarker = NoMarker
  WordPress = WordPress
  Deployments = {site, other}
  PublicPaths <- SitePaths
  Rank <- SiteRank
  Commits = {flat, nested, media}
  Repo <- OverlappingRepos
  ClaimsOf <- SiteClaims
  Resolves <- SiteResolves
  Rejected = {}
  Installed <- NothingInstalled
  SiteNode <- SiteDirs
  Keep = 2
  Maintained = {site, other}
  Mentions <- PrefixMarker
  ForceModes = {FALSE}
  RollbackIds = {}
  MaxReleases = 1
  MaxActive = 2
  MaxFaults = 0
  CoreUpdates = FALSE
PROPERTIES
  MarkersRespected
CHECK_DEADLOCK FALSE
