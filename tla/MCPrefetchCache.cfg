SPECIFICATION MCCacheSpec
CONSTANTS
  k1 = k1
  k2 = k2
  k3 = k3
  t1 = t1
  t2 = t2
  NoKey = NoKey
  Keys = {k1, k2, k3}
  Callers = {t1, t2}
  Futures = {1, 2}
  MaxSize = 1
  Workers = 1
  MaxVersion = 2
  MaxGeneration = 2
  MaxPools = 2
INVARIANTS
  CacheTypeOK
  ClosedEmpty
  Tracked
PROPERTIES
  KeepsPromise
  InflightDrains
