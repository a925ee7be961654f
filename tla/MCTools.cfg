SPECIFICATION ToolsSpec
CONSTANTS
  m1 = m1
  m2 = m2
  k1 = k1
  Machines = {m1, m2}
  HostKeys = {k1, k2}
  Groups <- SomeGroups
  Lifetimes = {3}
  MaxCas = 1
  MaxDisturbances = 2
  MaxDay = 1
  Nothing = nothing
  StorePaths = {"p1", "p2", "p3"}
  RefsOf <- ReferencesOnce
  PushKey = "k"
  CacheKey = "c"
  MaxStore = 4
  Fleet <- TheFleetOnce
  Here <- ThisHost
  Upper <- UpperCaseOnce
  Domain <- TheDomain
  MaxPuts = 1
  Unset = unset
  Size = 4
  MaxParents = 2
  MaxAsked = 2
  Peers = {peer1, peer2}
  Requests = {req1, req2}
  Gens = {g1}
  Ttl = 2
  MaxAge = 4
  Timeout = 1
  NoGen = nogen
SYMMETRY PeersAndRequests
INVARIANT TimelineInv
PROPERTIES LookupsInTurn EvictionKeepsTime RekeyIsSound PushIsSound 
