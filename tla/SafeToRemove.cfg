CONSTANTS
  tt = tt
  w2n = w2n
  swe = swe
  Sentinel = tt
  Last = swe
  Trees <- MCTrees
  Order <- MCOrder
  Kinds <- OnlyGood
  Budget <- OnlyRemovals
SPECIFICATION Spec
INVARIANT SafeToRemove
