SPECIFICATION MCSpec
CONSTANTS
  Whole = 10
  IopsPerVcore = 10
  MaxNggpIops = 100
  Gp3Iops = 3
  Gp3Throughput = 2
  FirstLimit = 3
  SecondLimit = 6
  PerEnterprise = 4
  PerStandard = 1
  LargestDigits = 792
  MostPlaces = 2
  LargestAmount = 100000
  LargestQuotient = 1000
  MaxItems = 2
  Catalog <- MCCatalog
  Sizes <- MCSizes
  Offers <- MCOffers
  Projects <- MCProjects
  AwsFeeds <- MCAwsFeeds
  AzureFeeds <- MCAzureFeeds
  Subject <- MCSubject
INVARIANT NoFalseSavings
CHECK_DEADLOCK FALSE
