CONSTANTS
  Files <- MCFiles
  Blacklist <- MCBlacklist
  QueueLimit = 1
  SizeWrap = 16
  CounterWrap = 4
  NoWay = NoWay
SPECIFICATION Spec
INVARIANT JunctionsSurvive
