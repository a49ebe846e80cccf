CONSTANTS
  StartOne = 1
  EndOne = 4
  StartTwo = 2
  EndTwo = 6
  EditDistance <- MCEditDistance
SPECIFICATION Spec
CHECK_DEADLOCK FALSE
INVARIANTS
  TypeOK
  InBounds
  ScriptsLead
  FurthestReaching
  ChainIsShortest
  ScriptTransforms
  NeverExhausted
PROPERTIES
  FrontierAdvances
  Termination
  ImplementsService
