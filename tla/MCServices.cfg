SPECIFICATION ServicesSpec
CONSTANTS
  Configs = {a, b}
  Stored <- StoredSettingsOnce
  Keypairs = {k1, k2}
  MaxDisturbances = 3
  NoFile = nofile
  Servers = {s1, s2, s3}
  MaxKey = 2
  MaxOutside = 3
  Revisions = {r1, r2}
  NoRevision = norevision
  MaxSignals = 2
  MaxEvents = 3
INVARIANTS NebulaInv 
PROPERTIES NebulaConverges FollowsServers 
CHECK_DEADLOCK FALSE
