\* Two deployments that overlap in a part, at the same time.
SPECIFICATION Spec
CONSTANTS
  site = site
  other = other
  flat = flat
  media = media
  gallery = gallery
  plugin = plugin
  nested = nested
  escaping = escaping
  refused = refused
  NoCommit = NoCommit
  NoMarker = NoMarker
  WordPress = WordPress
  Deployments = {site, other}
  PublicPaths <- SitePaths
  Rank <- SiteRank
  Commits = {flat, media, gallery, refused}
  Repo <- PartlySharedRepos
  ClaimsOf <- SiteClaims
  Resolves <- SiteResolves
  Rejected = {refused}
  Installed <- NothingInstalled
  SiteNode <- SiteDirs
  Keep = 2
  Maintained = {site}
  Mentions <- OwnMarker
  ForceModes = {FALSE}
  RollbackIds = {}
  MaxReleases = 2
  MaxActive = 2
  MaxFaults = 1
  CoreUpdates = FALSE
PROPERTIES
  SuccessPublishesExactly
  SuccessLeavesNoResidue
  SteadyClaimsStayVisible
  StaysInTerritory
CHECK_DEADLOCK FALSE
