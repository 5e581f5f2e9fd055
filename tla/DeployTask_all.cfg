SPECIFICATION Spec
CONSTANTS
  t1 = t1
  t2 = t2
  r1 = r1
  r2 = r2
  r3 = r3
  r4 = r4
  i1 = i1
  i2 = i2
  i3 = i3
  e1 = e1
  e2 = e2
  p1 = p1
  p2 = p2
  jar = jar
  pom = pom
  All = All
  Nothing = Nothing
  Tasks = {t1, t2}
  Asked <- AllAndOne
  Forced = {t2}
  RebuiltArtifacts = {r1, r2, r3, r4}
  Images = {i1, i2, i3}
  ImageOf <- ImagesOf
  Digests = {e1, e2}
  DigestOf <- DigestsOf
  Packages = {p1, p2}
  Contains <- SharedPackage
  Files = {jar, pom}
  Budget <- Missing
SYMMETRY FilesAlike
INVARIANTS
  SuccessDeploysAll
CHECK_DEADLOCK FALSE
