SPECIFICATION HealerSpec
CONSTANTS
  MaxActions = 3
  MaxLogLines = 2
  MaxDomKeys = 3
  Factor = 3
  CapMs = 60
  AssertMs = 10
  Threshold = 70
  Heals = {h1, h2}
  Requests <- MCRequests
  Answers <- MCAnswers
  Sources <- MCSources
  Edits <- MCEdits
  RecipeStores <- MCRecipeStores
  Repeats = 2
  AllowSubprocessPr = FALSE
  MaxHeals = 2
  MaxTrouble = 1
  MaxUser = 1
SYMMETRY HealSymmetry
INVARIANT RestoredAlways
