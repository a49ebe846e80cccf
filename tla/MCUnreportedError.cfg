CONSTANTS
  SizeOne = 2
  SizeTwo = 2
  Thresholds = {1000}
  EditDistance <- MCEditDistance
  ShortestScripts <- MCShortestScripts
SPECIFICATION Spec
CHECK_DEADLOCK FALSE
INVARIANT ErrorReported
