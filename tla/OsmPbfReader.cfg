CONSTANTS
  Files <- MCFiles
  Blacklist <- MCBlacklist
  QueueLimit = 1
  SizeWrap = 16
  CounterWrap = 4
  NoWay = NoWay
SPECIFICATION FairSpec
INVARIANTS
  TypeOK
  NothingLost
  ReturnedMeansStored
  CountersAreUses
  ThrottleSeesTrueSize
  NoConcurrentNodeAccess
  FilesNeverCollide
  LaterWaysKeepJunctions
PROPERTIES
  EveryFileIsParsed
  ImplementsIngest
