SPECIFICATION Spec
CONSTANTS
  Handlers = {1, 2, 3, 4}
  INT_MAX = 1000
  INT_CPU_TO_INTERNAL = 1
  INT_MFP_TO_INTERNAL = 3
  nCpuFreqShift = 0
  INTERRUPT_VIDEO_VBL = 1
  INTERRUPT_VIDEO_HBL = 2
  INTERRUPT_VIDEO_ENDLINE = 3
  INTERRUPT_IKBD_AUTOSEND = 4
  SCANLINES_PER_FRAME <- MCLines
  CYCLES_PER_LINE <- MCCycles
  LINE_END_CYCLE <- MCLineEnd
  RestartVideoCounter_Line <- MCRestartLine
  RestartVideoCounter_Pos = 8
  Line_Set_Pal = 8
  VblVideoCycleOffset = 8
  AutoSendCycles = 100
  InstrCycles = {4, 12}
  AutoSendResets = {FALSE}
INVARIANTS ChainUnbroken FrameComplete OnGrid  
