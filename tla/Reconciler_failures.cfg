SPECIFICATION Spec
CONSTANTS
  c1 = c1
  c2 = c2
  g1 = g1
  g2 = g2
  d1 = d1
  d2 = d2
  Nobody = Nobody
  ComponentBuilds = {c1}
  Artifacts = {g1}
  DependencyBuilds = {d1}
  BuiltBy <- SoleBuild
  Wanted <- WantsOne
  HasPR = {c1}
  ConfigAtStart = TRUE
  EditedSpecs = {}
  MaxTaskRuns = 1
  MaxPipelineRuns = 2
  Budget <- FailuresAndRetry
INVARIANTS
  VerdictIsEarned
  ReportIsTrue
  NotifiedIsDelivered
PROPERTIES
  NotifiedIsKept
