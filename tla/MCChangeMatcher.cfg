CONSTANTS
  OriginalSize = 3
  ModifiedSize = 2
  Verdicts <- MCVerdicts
  Moves <- MCMoves
SPECIFICATION Spec
CHECK_DEADLOCK FALSE
INVARIANTS
  ChangesTile
  MinimizesUnmatched
  MaximizesUnlessNested
PROPERTY Termination
