CONSTANTS
  Levels = 3
  NumChildren = 2
  ZeroPathDepth = 2
  CacheSize = 2
  SizeWrap = 4
  CounterWrap = 2
  Ids <- MCIds
  Values = {a, b}
  Empty = Empty
  EmptyRefused = TRUE
  NotFound = NotFound
  MaxRemovals = 2
SPECIFICATION Spec
INVARIANTS
  TypeOK
  CacheIsFresh
  ZeroPathIsInTree
  WrittenIsReadable
PROPERTY
  ImplementsIdMap
