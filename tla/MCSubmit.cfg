SPECIFICATION FairSpec
CONSTANTS
  r1 = r1
  r2 = r2
  c2 = c2
  cut = cut
  Repos = {r1, r2}
  Owner <- OneOwner
  OsmArtifacts = {}
  KnownGood = {}
  Seeds <- Confirmations
  Hosts = {c2, cut}
  EvidenceHosts <- Evidence1
  LearnedHosts <- Learned1
  Truncations <- Cut1
  MinCorroboration = 2
  Modes = {"batch"}
  Contested = {r1, c2}
  Gone = {r2}
  SearchFails = TRUE
  LongWrites = TRUE
  MaxTries = 2
  MaxReports = 2
  MaxDeaths = 1
INVARIANTS SubmittedIsAccountedFor ReportedAtMostOnce
PROPERTIES ImplementsClaimFirst DueIsReported
