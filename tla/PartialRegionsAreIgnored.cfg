CONSTANTS
  IntRange = 1000
  IntWidth = 8
  Normal <- MCNormal
  Maps <- MCMaps
  Points <- MCPoints
  BlacklistedWays = {51}
  BlacklistedRelations = {9}
SPECIFICATION Spec
INVARIANT PartialRegionsAreIgnored
