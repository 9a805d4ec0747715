SPECIFICATION FairSpec
CONSTANTS
  r1 = r1
  r2 = r2
  r3 = r3
  r4 = r4
  Repos = {r1}
  Owner <- OneOwner
  OsmArtifacts = {}
  KnownGood = {}
  Hunts = {h1}
  Serial = TRUE
  Options <- ResumedRuns
  DiscoverableAs <- OnlyIntel
  Pinned = {}
  ToolNamed = {}
  SecurityTools = {}
  Defensive = {}
  Verdicts <- AutoVerdict
  Buckets = {}
  OsmLive = {}
  MaxPosts = 2
  MaxCrashes = 1
PROPERTIES QueuedIsScanned
