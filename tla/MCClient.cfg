CHECK_DEADLOCK FALSE
SPECIFICATION ClientSpec
CONSTANTS
  Inputs <- MCInputs
  Recognised <- MCRecognised
  Commands <- MCCommands
  Existing <- MCExisting
  Deltas <- MCDeltas
  UnsignedWidth <- MCUnsignedWidth
  SizeWidth <- MCSizeWidth
INVARIANTS EachOnce FilesMeet ListRead ChangesInContext HeadersTell RowsRead
PROPERTY Termination
