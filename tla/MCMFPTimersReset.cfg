SPECIFICATION Spec
CONSTANTS
  Handlers = {1, 2, 3, 4}
  INT_MAX = 100
  INT_CPU_TO_INTERNAL = 1
  INT_MFP_TO_INTERNAL = 3
  nCpuFreqShift = 0
  TimersAB = {2}
  TimerC = 3
  TimerD = 3
  MFPDiv <- MCDiv
  FullCount = 4
  TimerB = 2
  bUseVDIRes = TRUE
  Video = 1
  VideoPeriod = 12
  CtrlAB = {0, 1, 8}
  CtrlCD = {0}
  DataValues = {0, 1}
  InstrCycles = 4
  WriteOffsets = {0}
  Resets = {"instruction", "machine"}
PROPERTY RunningTimerFires
