CONSTANTS
  a = a
  unlisted = unlisted
  period = period
  value = value
  typo = typo
  growth = growth
  revenueTag = revenueTag
  oldRevenueTag = oldRevenueTag
  incomeTag = incomeTag
  otherTag = otherTag
  m1 = m1
  m2 = m2
  Migrators = {m1, m2}
  LastVersion = 2
  Companies <- MCCompanies
  Registered = {a}
  Filings <- MCFilings
  Submissions <- MCSubmissions
  MaxDay = 1
  HasUserAgent = TRUE
  Strategies <- MCStrategies
  Known = {value, growth}
  Gates <- MCGates
  None = None
  NoId = NoId
  MinHistoryDays = 2
  MinPrice = 3
  MinDollarVolume = 20
  Squash <- MCSquash
  Tags <- MCTags
  ScoreNames <- MCScoreNames
  ProfileOf <- MCProfileOf
  Permitted = {"read"}
  MaxSteps = 4
  GroundingRetries = 1
  Profile <- MCProfile
  Pool <- MCPool
SPECIFICATION FairSpec
INVARIANTS
  TypeOK
  MigrationsOnce
  SecStepsAreTried
  CompletedLoadIsComplete
  PointInTime
  HourlyClockMeansRanked
  ScoresAreCrossSectional
  NormalizedFromLatestFilings
  EvidenceIsTheWindow
  BucketsAreComparable
  RulesSeeTheirMetrics
  ConversationsAreAnswered
PROPERTIES
  RanksCatchUp
