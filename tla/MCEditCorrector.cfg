CONSTANTS
  OriginalSize = 4
  ModifiedSize = 3
  LongEdit = 2
  EditListsFor <- MCEditListsFor
SPECIFICATION Spec
CHECK_DEADLOCK FALSE
INVARIANTS
  StaysAScript
PROPERTIES
  BreaksOnePair
  Termination
