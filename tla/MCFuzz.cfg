SPECIFICATION FuzzSpec
CONSTANTS
  i1 = i1
  i2 = i2
  i3 = i3
  Inputs = {i1, i2, i3}
  Jobs = {j1, j2}
  Seeds = {i1}
  Covers <- CoversThemOnce
  Builds <- SomeBuildsOnce
  MaxBuilds = 2
  MaxChecks = 3
  NoInput = noinput
  t1 = t1
  t2 = t2
  Checkers = {t1, t2}
  Subjects <- SomeSubjectsOnce
  NoOne = noone
  Sources <- BundleSourcesOnce
  TreeNames = {"r", "s", "q"}
  NixPaths <- NixFiles
INVARIANTS FuzzCheckInv 
 
CHECK_DEADLOCK FALSE
