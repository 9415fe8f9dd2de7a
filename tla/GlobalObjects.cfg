CONSTANTS
  tt = tt
  w2n = w2n
  swe = swe
  Sentinel = tt
  Last = swe
  Trees <- MCTrees
  Order <- MCOrder
  Kinds <- MCKinds
  Budget <- MCBudget
SPECIFICATION FairSpec
INVARIANTS
  TypeOK
  ServedIsWhole
  FailsOnlyByTheMap
  SwedenLoadsLast
PROPERTY
  RebuildsWithoutSentinel
