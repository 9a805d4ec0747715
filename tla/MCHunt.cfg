SPECIFICATION FairSpec
CONSTANTS
  r1 = r1
  r2 = r2
  r3 = r3
  r4 = r4
  Repos = {r1, r2, r3, r4}
  Owner <- ThreeOwners
  OsmArtifacts = {r4}
  KnownGood = {r4}
  Hunts = {h1}
  Serial = TRUE
  Options <- GoldRuns
  DiscoverableAs <- Gates
  Pinned = {}
  ToolNamed = {r3}
  SecurityTools = {r3}
  Defensive = {}
  Verdicts <- BothTiers
  Buckets = {}
  OsmLive = {r2}
  MaxPosts = 2
  MaxCrashes = 1
INVARIANTS TypeOK AckedAtMostOnce DeliveredIsAccountedFor GatedNeverConfirmed PivotHasSeed
PROPERTIES ConfirmationKept ImplementsClaimFirst GoldEventuallyAcked
