SPECIFICATION Spec
CONSTANTS
  c1 = c1
  c2 = c2
  g1 = g1
  g2 = g2
  d1 = d1
  d2 = d2
  Nobody = Nobody
  ComponentBuilds = {c1, c2}
  Artifacts = {g1, g2}
  DependencyBuilds = {d1}
  BuiltBy <- OneBuild
  Wanted <- BothWantNothing
  HasPR = {}
  ConfigAtStart = TRUE
  EditedSpecs <- OnceOrTwice
  MaxTaskRuns = 1
  MaxPipelineRuns = 0
  Budget <- TwoEdits
SYMMETRY AllAlike
INVARIANTS
  VerdictIsEarned
  StatusConsistent
PROPERTIES
  PromiseKept
