SPECIFICATION Spec
CONSTANTS
  Drives = {0}
  Sectors = 2
  Tracks = 1
  MaxTrack = 2
  RegMax = 3
  SectorBytes = 4
  FifoBytes = 2
  IdBytes = 3
  TrackBytes = 5
  SpinUpIP = 2
  MotorOffIP = 2
  AddressIP = 2
  Commands <- WriteCommands
  Values = {1}
  Counts = {1}
  Budget = 3
PROPERTY WriteEnds
