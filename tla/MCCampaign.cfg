SPECIFICATION FairSpec
CONSTANTS
  Files <- MCFiles
  Ignored = {"vendor.js"}
  ReadBy <- MCReadBy
  Hosts = {"c2"}
  HostClass <- MCHostClass
  Packages = {"pkg"}
  Stubs = {"loader"}
  Actors = {"lazarus group"}
  Origin <- MCOrigin
  NationTerms = {}
  DprkKeys = {"lazarus group"}
  CuratedHosts = {}
  Repos <- MCRepos
  h1 = h1
  h2 = h2
  Hunts = {h1, h2}
  Lines <- MCLines
  Mentions <- MCMentions
  Publishes <- MCPublishes
  Flagged = {}
  Relation <- MCRelation
  Added <- MCAdded
  Named <- MCNamed
  Fed <- MCFed
  Learning = {h2}
  Listed = {}
  Manifest = {"pkg"}
  Bundled = {}
  Sandboxed <- MCSandboxed
  Doubted = {"lure"}
  MaxCrashes = 1
INVARIANTS
  TypeOK
  AttributionTraced
  ConfirmedIsLearned
  NothingLeftBehind
  ClaimIsEarned
PROPERTIES
  CampaignNamed
