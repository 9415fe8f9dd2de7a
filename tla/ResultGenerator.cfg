CONSTANTS
  StopWords <- MCStopWords
  Blacklisted <- MCBlacklisted
  Elements <- MCElements
  UsedCodes = {1, 5, 7, 12, 14, 19, 20, 38, 45, 46, 47}
  Position <- MCPosition
  WayNodes <- MCWayNodes
  Members <- MCMembers
  Regions <- MCRegions
  MunicipalitiesMissingS <- MCMissing
  Area <- MCArea
  Roads <- MCRoads
  Log10 <- MCLog10
  ClosePlace = 200
  CloseRoad = 100
  ClosePrevious = 30
  InnerThreshold = 10
  OuterThreshold = 316
  CloseId = 4
  ManyHits = 4
  Unset <- MCUnset
  Maps <- MCMaps
  Texts <- MCTexts
  Proximities = {0, 10}
  NodeOrders <- MCNodeOrders
SPECIFICATION Spec
INVARIANTS
  TypeOK
  NamesAreFound
  ResultsAreNamed
  CrossingsAreOfNamedRoads
  NoTwoClose
  BestIsFirst
PROPERTIES
  ImplementsTextIndex
