CONSTANTS
  OriginalSize = 3
  ModifiedSize = 2
  Verdicts <- MCVerdicts
  Moves <- MCMoves
SPECIFICATION Spec
CHECK_DEADLOCK FALSE
INVARIANT MaximizesSimilarity
