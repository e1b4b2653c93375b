SPECIFICATION OffersSpec
CONSTANTS
  \* the market digest
  MarketOffers = {o1}
  Readers = {u1}
  WeekDays = 2
  Retention = 3
  OffersPerRun = 1
  OffersPerCall = 1
  LastDay = 3
  MinOffers = 1
  MondayRuns = 2
  MaxFailures = 1
  MaxSends = 1
  \* the filter
  Zones = {"idf", "corse", "reunion"}
  DepartementRegion <- RegionsOf
  Contracts = {"CDI", "Freelance"}
  Printed = {20, 2500, 40000}
  PlausibleFrom = 10000
  PlausibleTo = 500000
  SalariesAsked = {35000}
  \* seniority, in months and points
  StudentMax = 24
  JuniorFrom = 36
  Reasonable = 480
  WindowBelow = 12
  WindowAbove = 36
  PerYearBelow = 5
  PerYearAbove = 8
  MaxBelow = 30
  MaxAbove = 40
  YearsAsked = {1, 3, 12}
  LastMonth = 120
  \* the full crawl
  Ads = {1, 2, 3}
  Departements = {"75"}
  Window <- WindowD
  MaxPerSearch = 2
  PageSize = 1
  MinSplit = 1
  PageAttempts = 2
  MaxRefusals = 2
  MaxWithdrawn = 1
  \* the import
  Postings = {o1}
  EmbedBatch = 1
  RetentionDays = 1
  MaxAge = 0
  MaxEdits = 1
  LastPostDay = 2
  \* the regret index
  E1 = E1
  E2 = E2
  Employers = {E1, E2}
  Folded <- Spelled
  Ratings <- ThreeRatings
  Posts = {p1}
  Unanswered = Unanswered
  NoProfile = NoProfile
  MinReviews = 5
  MaxPages = 2
  Months = 2
  \* the French labels
  T1 = T1
  T2 = T2
  T3 = T3
  A1 = A1
  A2 = A2
  Terms = {T1, T2, T3}
  Analyses = {A1, A2}
  TermsOf <- NamesIn
  Passes = {p1, p2}
  PerPass = 2
  ChunkTerms = 2
  MaxAsked = 4
  \* the content of a digest
  PowerBi = PowerBi
  PowerBI = PowerBI
  Pmp = Pmp
  Sql = Sql
  Nothing = Nothing
  SkillNames = {PowerBi, PowerBI, Pmp, Sql, Nothing}
  KeyOf <- SkillKey
  RawAnswers <- ThreeAnswers
  MaxSkills = 2
  TopSkills = 2
  EvolutionSkills = 1
  ActionItems = 1
  MinForTrend = 2
  MinShare = 40
  MinForecast = 3
  OffersAWeek = 3
  WeeksCounted = 3
INVARIANTS
  OffersTypeOK
  AutoOncePerWeek
  FiltersAgree
  FairPenalty
  MissesAreKnown
  VectorOfText
  DigestAgrees
  FlaggedIsLabelled
PROPERTIES
  RecountsAreWhole
  FailureKeepsScore
  NobodyForgotten
CHECK_DEADLOCK FALSE
