SPECIFICATION FullSpec
CONSTANTS
  i1 = i1
  i2 = i2
  qAll = qAll
  qSome = qSome
  Issues = {i1, i2}
  Queries = {qAll, qSome}
  Match <- MCMatch
  NoQuery = NoQuery
  NoToken = NoToken
  PageSize = 1
  MaxPages = 1
  Minute = 2
  MaxClock = 3
  MaxTrouble = 1
  PlainDuringSweep = TRUE
  CrashWhileSaving = FALSE
PROPERTIES
  NoFalseDeletion
