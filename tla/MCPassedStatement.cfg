CONSTANTS
  LongEdit = 3
  Inputs <- PassedInputs
SPECIFICATION Spec
INVARIANTS
  NeverFatal
