SPECIFICATION FairSpec
CONSTANTS
  c1 = c1
  c2 = c2
  g1 = g1
  g2 = g2
  d1 = d1
  d2 = d2
  Nobody = Nobody
  ComponentBuilds = {c1}
  Artifacts = {g1}
  DependencyBuilds = {d1}
  BuiltBy <- SoleBuild
  Wanted <- WantsOne
  HasPR = {}
  ConfigAtStart = FALSE
  EditedSpecs = {}
  MaxTaskRuns = 2
  MaxPipelineRuns = 0
  Budget <- FailedDeployReadAndAnswer
PROPERTIES
  Settles
