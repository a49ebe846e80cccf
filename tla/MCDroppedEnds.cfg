CONSTANTS
  LongEdit = 3
  Inputs <- ElseInputs
SPECIFICATION Spec
INVARIANTS
  ReadsBack
