SPECIFICATION ServiceSpec
CONSTANTS
  Configs = {c1, c2}
  NoConfig = NoConfig
  Keys = {k}
  ConcurrentTurns = FALSE
  MaxOpens = 3
  MaxEdits = 2
  MaxVersion = 3
INVARIANTS
  ServiceTypeOK
  SyncStoreOpen
  OneSync
  Ready
PROPERTIES
  SyncInvalidates
