SPECIFICATION Spec
CONSTANTS
  a1 = a1
  a2 = a2
  a3 = a3
  j1 = j1
  j2 = j2
  j3 = j3
  k1 = k1
  k2 = k2
  X = X
  Y = Y
  M = M
  h1 = h1
  h2 = h2
  g1 = g1
  g2 = g2
  g3 = g3
  odd = odd
  i1 = i1
  i2 = i2
  Untracked = Untracked
  NoBuild = {nobody}
  Jars = {j1, j2, j3, k1, k2}
  Classes = {X, Y, M}
  Bytes = {h1, h2}
  Gavs = {g1, g2, g3, odd}
  Sources = {"rebuilt", "other", "unknown", "community"}
  AllowedSources = {"rebuilt"}
  Patterns = {"p", "q", "r"}
  Allows <- Matches
  Unknown = "unknown"
  Community = "community"
  ModuleInfo = M
  PathGav <- Paths
  ParentGav <- Parents
  LongDirs = {k1}
  Analysers = {a1, a2, a3}
  Cases <- AllowedCases
  Budget = 0
  Downloads = {"d"}
  Images = {i1, i2}
  ImageOf <- ImagesOf
INVARIANTS
  NoCommunityExitsZero
CHECK_DEADLOCK FALSE
