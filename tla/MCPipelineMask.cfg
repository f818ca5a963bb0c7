SPECIFICATION Spec
CHECK_DEADLOCK FALSE
CONSTANTS
  TextLen = 6
  MaxFindings = 1
  MaxSkipped = 1
  DefaultMaxFiles = 2
  MaxMaxFiles = 2
  Calls <- MCCalls
  Configs <- MCConfigs
  Trees <- MCTrees
  Texts <- MCTexts
  Repeats = {0, 1, 3}
  MaxRepeats = 2
  Excerpts <- MCExcerpts
  Learnt <- MCLearnt
  MaxRows = 1
  Retention = 1
  MaxCalls = 2
  MaxEdits = 1
INVARIANT NothingInTheClear
