SPECIFICATION HandoverSpec
CONSTANTS
  c1 = c1
  g1 = g1
  d1 = d1
  Nobody = Nobody
  ComponentBuilds = {c1}
  Artifacts = {g1}
  DependencyBuilds = {d1}
  BuiltBy <- SoleBuild
  Wanted <- WantsOne
  HasPR = {c1}
  ConfigAtStart = TRUE
  EditedSpecs = {}
  MaxTaskRuns = 1
  MaxPipelineRuns = 1
  Budget <- OneRollout
INVARIANTS
  HandoverTypeOK
  VerdictIsEarned
PROPERTIES
  NotifiedIsKept
  PromiseKept
CHECK_DEADLOCK FALSE
