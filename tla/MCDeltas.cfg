CONSTANTS
  LongEdit = 3
  Inputs <- DeltaInputs
SPECIFICATION Spec
INVARIANTS
  NeverFatal
  MovesAgree
  CursorsMeetConstructs
  AllClosed
PROPERTIES
  Delivers
