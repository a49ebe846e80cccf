CONSTANTS
  ElementNames = {"if"}
  Inputs <- MCInputs
  MaxUnit = 5
SPECIFICATION Spec
CHECK_DEADLOCK FALSE
INVARIANTS
  StackSound
  DocumentMirrored
  InputsMirrored
  HeldBackIsInnermost
  ReadAsWritten
