SPECIFICATION FairSpec
CONSTANTS
  a1 = a1
  a2 = a2
  x1 = x1
  Actors = {a1, a2}
  Feeds <- TwoFeeds
  Cached = "mitre_attack"
  Mentions <- OneCorroborated
  Artifacts = {x1}
  Classes <- FourClasses
  Response <- ShippedResponse
  MaxRetries <- FewRetries
  Thresholds <- ShippedThresholds
  MinSources = 2
  MaxCrashes = 1
INVARIANTS TypeOK PromotedIsCorroborated SettledUnlessOrphaned FlaggedIsStopped
PROPERTIES RejectionSticky RunEnds CorroboratedIsPromoted
