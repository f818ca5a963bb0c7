SPECIFICATION Spec
CONSTANTS
  None = None
  f1 = f1
  f2 = f2
  Files <- MCFiles
  Ident <- MCIdent
  Reports <- MCReports
  BurnIns <- MCBurnIns
  HealedAt <- MCHealedAt
  Beneath <- MCBeneath
  Climbing = {}
  MaxOffenders = 1
  Feeder = {w1, w2}
  Repeats = 2
  Cron = Cron
  Hand = Hand
  Tunables <- MCTunables
  FirstConfig <- MCFirstConfig
  FirstDisk <- MCFirstDisk
  FirstClock = 1
  MaxClock = 2
  MaxEvents = 3
SYMMETRY FeederSymmetry
INVARIANTS
  DetectiveTypeOK
  WholeRuns
  BurnInsCount
  ReportsAddUp
  ToolsAgree
PROPERTIES
  ImplementsBook
