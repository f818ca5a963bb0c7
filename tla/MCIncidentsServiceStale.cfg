SPECIFICATION ServiceSpec
CONSTANTS
  Configs = {c1}
  NoConfig = NoConfig
  Keys = {k}
  ConcurrentTurns = FALSE
  MaxOpens = 1
  MaxEdits = 2
  MaxVersion = 2
INVARIANTS
  CacheFollowsIndex
