CONSTANTS
  SizeOne = 4
  SizeTwo = 3
  Thresholds = {0, 4}
  EditDistance <- MCEditDistance
  ShortestScripts <- MCShortestScripts
SPECIFICATION Spec
CHECK_DEADLOCK FALSE
INVARIANTS
  SnakeInTheMiddle
  PartsTile
  NeverCrashes
  ChangesPaired
PROPERTIES
  Termination
  ImplementsService
