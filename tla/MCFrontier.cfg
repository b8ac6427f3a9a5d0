SPECIFICATION Spec
CONSTANTS
  None = None
  DenyHosts <- MCDeny
  PlatformHosts <- MCPlatforms
  MultiSuffixes <- MCSuffixes
  BadTlds <- MCTlds
  MaxRedirects = 5
  MaxLinks = 2
  MaxConnects = 2
  FallbackPaths <- MCFallback
  Url <- MCUrl
  FeedUrl <- MCFeedUrl
  Catalog <- MCCatalog
  Version <- MCVersion
  Site <- MCSite
  Source <- MCSource
  Webs <- MCWebs
  PriorityHosts <- MCDeny
  ProbeBatch = 2
  ProbeAttempts = 1
  MaxFrontier = 1
  MaxHosts = 1
  MinReferrers = 1
  MaxCycles = 1
  MaxEvents = 2
INVARIANTS
  LinksNotLost
  RemovedHasNoFindings
  OnlyAllowedContacted
PROPERTIES
  AdminDecisionStands
  AutomaticAdmissionAllowed
CHECK_DEADLOCK FALSE
