SPECIFICATION ServiceSpec
CONSTANTS
  Configs = {c1, c2}
  NoConfig = NoConfig
  Keys = {k}
  ConcurrentTurns = TRUE
  MaxOpens = 2
  MaxEdits = 2
  MaxVersion = 2
PROPERTIES
  ReinitSparesSync
