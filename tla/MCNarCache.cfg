SPECIFICATION CacheFairSpec
CONSTANTS
  Clients = {c1, c2, c3}
  Entries = {e1, e2, e3, e4, e5}
  NoClient = nobody
  NoEntry = noentry
INVARIANTS ReadersHoldPath OneGeneration
PROPERTIES  EveryRequestAnswered
