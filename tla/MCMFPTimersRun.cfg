SPECIFICATION Spec
CONSTANTS
  Handlers = {1, 2, 3, 4}
  INT_MAX = 100
  INT_CPU_TO_INTERNAL = 1
  INT_MFP_TO_INTERNAL = 3
  nCpuFreqShift = 0
  TimersAB = {2}
  TimerC = 3
  TimerD = 3
  MFPDiv <- MCDiv
  FullCount = 4
  TimerB = 2
  bUseVDIRes = FALSE
  Video = 1
  VideoPeriod = 12
  CtrlAB = {0, 1, 8, 10}
  CtrlCD = {0, 1}
  DataValues = {1}
  InstrCycles = 8
  WriteOffsets = {4}
  Resets = {}
INVARIANTS RunningTimerArmed CounterNeverZero TimerWithinPeriod
PROPERTIES TimersStayOnGrid WrittenDataCounts
