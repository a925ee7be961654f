SPECIFICATION CacheSpec
CONSTANTS
  Clients = {c1, c2}
  Entries = {e1, e2, e3, e4}
  NoClient = nobody
  NoEntry = noentry
PROPERTY PathOpens
