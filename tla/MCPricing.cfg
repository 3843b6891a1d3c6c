SPECIFICATION PricingSpec
CONSTANTS
  Whole = 10
  IopsPerVcore = 10
  MaxNggpIops = 100
  Gp3Iops = 3
  Gp3Throughput = 2
  FirstLimit = 3
  SecondLimit = 6
  PerEnterprise = 4
  PerStandard = 1
  LargestDigits = 792
  MostPlaces = 2
  LargestAmount = 100000
  LargestQuotient = 1000
  MaxItems = 2
  Catalog <- MCCatalog
  Sizes <- MCSizes
  Offers <- MCOffers
  Projects <- MCProjects
  AwsFeeds <- MCAwsFeeds
  AzureFeeds <- MCAzureFeeds
  Subject <- MCSubject
  Rank <- ProvidersRank
  YearHours = 2
  MinCores = 4
  MibPerGib = 2
  StandardFee = 1
  EnterpriseFee = 4
  PricedConfigurations <- ProvidersConfigurations
  PricedSizes <- ProvidersSizes
  PricedOffers <- ProvidersOffers
  PremiumSsd = 2
  PremiumSsdV2 = 1
  IncludedIops = 3
  IncludedThroughput = 2
  MonthHours = 3
  Wide = 40
  AwsRegions = {"ec2", "rds", "ebs"}
  AzureRegions = {"pages", "machines", "sql", "empty"}
  Refreshes <- ProvidersRefreshes
  ProviderDocuments <- ProvidersAnswers
  PageSize = 8
  MaxPages = 3
  Budget = 8
  RequestTimeout = 4
  MaxAttempts = 3
  Capacity = 2
  MaxChunks = 4
  Hints = {0, 3, 9}
  Jitter = {0, 1}
  MaxClock = 10
  Requests = {r1, r2, r3}
  NoFlight = NoFlight
  Tasks = {t1, t2}
  LeaseTTL = 2
  WaitBudget = 1
  Attempts = 2
  KeepsAll = TRUE
  OtherScopes = FALSE
  Faults = {"outage", "rejected", "crash"}
  Contents = {c1}
  LeaseClock = 3
  NoLease = NoLease
  NoContent = NoContent
  NoSnapshot = NoSnapshot
  Calls <- DraftCalls
  CatalogMemories <- DraftMemories
  InstanceFamily <- DraftFamilies
  MaxNotes = 2
INVARIANTS AcceptedIsCalculable ManifestReproduces TargetsFit RowsExplained PortfolioAddsUp FiguresReproduce SnapshotIsWhole ParsedIsStorable OrderFree FetchWithinBudget DraftIsFaithful Coalesced PublishedIsStored
PROPERTIES FetchEnds EveryRequestEnds EveryRefreshEnds
CHECK_DEADLOCK FALSE
