SPECIFICATION RequestsSpec
CONSTANTS
  NarPeers = {p1, p2}
  Self = self
  Nars = {n1, n2}
  FileSize <- SizesOnce
  MaxChanges = 1
  NoCopy = nocopy
  NoInfo = noinfo
  NoPeer = nopeer
  p1 = p1
  n1 = n1
  c1 = c1
  c2 = c2
  c3 = c3
  Deployed = {c1, c2}
  Ancestors <- ReachableOnce
  MaxTurns = 4
  Revs = {c1, c2, c3}
  ExpiresAt <- NotAftersOnce
  ValidFor <- ValiditiesOnce
  MaxTime = 3
  MaxMoves = 1
  MaxFailures = 1
  Off = off
  NoRev = norev
PROPERTIES AnswersAreTrue ArchiveKeepsHeads ExpiryIsSaid
CHECK_DEADLOCK FALSE
