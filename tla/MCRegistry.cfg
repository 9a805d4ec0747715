SPECIFICATION Spec
CONSTANTS
  r1 = r1
  Repos = {r1}
  Owner <- OneOwner
  OsmArtifacts = {}
  KnownGood = {}
  Hunts = {h1}
  Serial = TRUE
  Options <- GoldRuns
  DiscoverableAs <- OnlyIntel
  Pinned = {}
  ToolNamed = {}
  SecurityTools = {}
  Defensive = {}
  Verdicts <- Proven
  Buckets = {}
  OsmLive = {}
  MaxPosts = 1
  MaxCrashes = 1
  Hosts = {}
  EvidenceHosts <- NoHosts
  LearnedHosts <- NoHosts
  Truncations <- NoCuts
  MinCorroboration = 2
  Modes = {"batch", "wizard"}
  Contested = {}
  Gone = {}
  SearchFails = FALSE
  LongWrites = FALSE
  MaxTries = 1
  MaxReports = 2
  MaxDeaths = 1

PROPERTIES BothFeedsKeepTheirClaims ProofKept OnlyAnalystRevives
