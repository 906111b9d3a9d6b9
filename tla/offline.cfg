SPECIFICATION Spec
CONSTANTS
  k = k
  thief = thief
  numb = numb
  noPoint = noPoint
  Keys = {k, thief}
  NUMS = numb
  NotAPoint = noPoint
  Preimages = {"p1", "p2", "long"}
  Oversized = {"long"}
  HashLen = 1
  sha256 <- HashOf
  Nano = 2
  Kilo = 2
  MaxAmount = 20
  Hosts <- URLHosts
  Amounts = {1, 2}
  Credits <- InCirculation
  Spendings <- SomeSpends
  Fresh <- Draws
  MaxIssued = 2
  Bytes = {0, 1, 2, 76, 77, 78, 80, 135}
  MaxLeaf = 4
  LOCKTIME_THRESHOLD = 3
  SEQUENCE_GRANULARITY_SECONDS = 2
  Locktimes = {0, 2, 3, 5}
  Delays = {0, 1, 2}
  Horizon = 8
INVARIANTS LeafRuleIsExact NeverEarly TypeOK Lineage UrlTellsTheTruth VerifiedMeansIssued StatedIsCertified LookupHidesTheSpend WatcherAgrees
PROPERTIES DueStaysDue
CHECK_DEADLOCK FALSE
