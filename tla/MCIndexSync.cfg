SPECIFICATION FairSpec
CONSTANTS
  i1 = i1
  i2 = i2
  qAll = qAll
  qSome = qSome
  Issues = {i1, i2}
  Queries = {qAll, qSome}
  Match <- MCMatch
  NoQuery = NoQuery
  NoToken = NoToken
  PageSize = 1
  MaxPages = 1
  Minute = 2
  MaxClock = 3
  MaxTrouble = 2
INVARIANTS
  TypeOK
  WatermarkSafe
  BackfillResumable
  IncrementalResumable
PROPERTIES
  WatermarkMoves
  Converges
