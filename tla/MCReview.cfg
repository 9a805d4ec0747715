SPECIFICATION FairSpec
CONSTANTS
  r1 = r1
  r2 = r2
  Repos = {r1, r2}
  Owner <- TwoOwners
  OsmArtifacts = {}
  KnownGood = {r2}
  Seeds <- Hunts
INVARIANTS TypeOK SweepStillStands
PROPERTIES WallSelfHeals
