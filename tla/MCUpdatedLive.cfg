SPECIFICATION FairSpec
CONSTANTS
  m0 = m0
  m1 = m1
  f = f
  g = g
  f2 = f2
  h = h
  b1 = b1
  b2 = b2
  b3 = b3
  i1 = i1
  Commits = {m0, m1, g, f2}
  ParentsOf <- MCParentsOnce
  ChangeIds = {i1}
  NoChangeId = NoChangeId
  ChangeIdOf <- MCChangeIdOfOnce
  MaxLandedScan = 1
  Branches = {"main", "topic"}
  Main = "main"
  PublishedOn <- MCForwardOnlyOnce
  InitialCommit = m0
  Dirty = Dirty
  HandBuilds = {}
  BootIds = {b1, b2}
  KernelOf <- MCKernelOfOnce
  Defines = {m1, f2}
  AllowReboot = TRUE
  UsesPrefetch = TRUE
  NoRev = NoRev
INVARIANT NothingIsLeftBehind
PROPERTY LeftAloneSettles
