SPECIFICATION Spec
CONSTANTS
  Handlers = {1, 2}
  INT_MAX = 9
  INT_CPU_TO_INTERNAL = 1
  INT_MFP_TO_INTERNAL = 5
  nCpuFreqShift = 0
  Video = {1}
  Vbl = 1
  MfpTimers = {2}
  VideoDelays <- MCLineDelay
  Delays <- MCDelays
  Offsets <- MCLateOffset
  LineChanges <- MCLineChanges
  InstrCycles = {4}
  LateBound = 4
  TakeSnapshots = TRUE
  NoSnapshot = NoSnapshot
INVARIANTS SchedulerInv NoExpiredTimerMissed
PROPERTY ImplementsTimers
