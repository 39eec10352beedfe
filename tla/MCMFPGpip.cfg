SPECIFICATION Spec
CONSTANTS
  Channels = {15}
  Lines = {15}
  MaxAge = 1
  AutoLevels = {}
  IntMasks = {3, 6}
  InstrLengths = {1}
  IackLength = 1
  RegisterValues <- AllOrNothing
  SeiModes = {FALSE}
  PolledLines = {15}
  WithEdges = TRUE
  WithReset = TRUE
  SnapshotLevels = {3}
  NoSnapshot = NoSnapshot
PROPERTY EdgesExactly
