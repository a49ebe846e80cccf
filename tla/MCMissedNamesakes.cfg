CHECK_DEADLOCK FALSE
SPECIFICATION Spec
CONSTANTS
  Inputs <- MCUnlikeDirectories
  Recognised <- MCRecognised
INVARIANT NamesakesCompared
