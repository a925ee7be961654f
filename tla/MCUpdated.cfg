SPECIFICATION Spec
CONSTANTS
  m0 = m0
  m1 = m1
  f = f
  g = g
  f2 = f2
  h = h
  b1 = b1
  b2 = b2
  b3 = b3
  i1 = i1
  Commits = {m0, m1, f, h}
  ParentsOf <- MCParentsOnce
  ChangeIds = {i1}
  NoChangeId = NoChangeId
  ChangeIdOf <- MCChangeIdOfOnce
  MaxLandedScan = 3
  Branches = {"main", "topic"}
  Main = "main"
  PublishedOn <- MCPublishedOnOnce
  InitialCommit = m0
  Dirty = Dirty
  HandBuilds = {h}
  BootIds = {b1, b2, b3}
  KernelOf <- MCKernelOfOnce
  Defines = {m0, m1, f, h}
  AllowReboot = FALSE
  UsesPrefetch = TRUE
  NoRev = NoRev
SYMMETRY Symmetry
INVARIANTS  HeldInItsBoot
 
