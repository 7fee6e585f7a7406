\* Cron deploys a new commit over an old one and over a file, with faults.
SPECIFICATION CronSpec
CONSTANTS
  site = site
  other = other
  flat = flat
  media = media
  gallery = gallery
  plugin = plugin
  nested = nested
  escaping = escaping
  refused = refused
  NoCommit = NoCommit
  NoMarker = NoMarker
  WordPress = WordPress
  Deployments = {site}
  PublicPaths <- SitePaths
  Rank <- SiteRank
  Commits = {media, nested}
  Repo <- CronRepo
  ClaimsOf <- SiteClaims
  Resolves <- SiteResolves
  Rejected = {}
  Installed <- MediaInstalled
  SiteNode <- SiteFiles
  Keep = 2
  Maintained = {site}
  Mentions <- OwnMarker
  ForceModes = {FALSE}
  RollbackIds = {}
  MaxReleases = 4
  MaxActive = 1
  MaxFaults = 2
  CoreUpdates = TRUE
PROPERTIES
  CronConverges
CHECK_DEADLOCK FALSE
