SPECIFICATION Spec
CONSTANTS
  Gp3Iops = 3
  Gp3Throughput = 2
  FirstLimit = 3
  SecondLimit = 6
  Rank <- MCRank
  YearHours = 2
  MinCores = 4
  MibPerGib = 2
  StandardFee = 1
  EnterpriseFee = 4
  Catalog <- MCCatalog
  Sizes <- MCSizes
  Offers <- MCOffers
  PremiumSsd = 2
  PremiumSsdV2 = 1
  IncludedIops = 3
  IncludedThroughput = 2
  MonthHours = 3
  Wide = 40
  AwsRegions = {"ec2", "rds", "ebs"}
  AzureRegions = {"pages", "machines", "sql", "empty"}
  Requests <- MCRequests
  Responses <- MCResponses
  PageSize = 8
  MaxPages = 3
INVARIANT HybridBenefitIsExact
CHECK_DEADLOCK FALSE
