SPECIFICATION FairSpec
CONSTANTS
  q1 = q1
  r1 = r1
  r2 = r2
  Terms <- OneTerm
  Repos = {r1, r2}
  Results <- OnTwoPages
  LastPage <- AllFull
  MaxPage = 3
  PagesPerRun = 2
  Attempts = 2
  Rounds = 2
  Base = 50
  Ceiling = 60
  Limit = 1
  Hunts = {h1, h2}
  MaxCrashes = 1
INVARIANTS TypeOK PassedIsAccountedFor PaceWithinBounds
PROPERTIES SearchEnds EveryQueryWalked
