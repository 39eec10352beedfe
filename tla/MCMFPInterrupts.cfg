SPECIFICATION Spec
CONSTANTS
  Channels = {5, 13}
  Lines = {}
  MaxAge = 2
  AutoLevels = {4}
  IntMasks = {3, 6}
  InstrLengths = {1, 2}
  IackLength = 2
  RegisterValues <- AnyValue
  SeiModes = {TRUE, FALSE}
  PolledLines = {}
  WithEdges = FALSE
  WithReset = FALSE
  SnapshotLevels = {}
  NoSnapshot = NoSnapshot
INVARIANTS IrqJustified NoSpuriousInterrupt RequestReachesCpu NoRequestOverlooked
PROPERTIES ServiceNests PendingKept RequestServed
