SPECIFICATION Spec
CONSTANTS
  Keys = {k1}
  Commits = {c1}
  None = none
  MaxSets = 2
  MaxLoads = 1
  Requests = {r1, r2}
  Counts = {n0, n1}
  NoCount = n0
SYMMETRY Symmetry
INVARIANTS MirrorTracks CurrentPageWhole
PROPERTY ServedInWindow
