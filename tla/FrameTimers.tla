----------------------------- MODULE FrameTimers -----------------------------
(***************************************************************************)
(* The timers that drive a frame of the emulated screen, and the one that  *)
(* polls the user (src/src/video.c, IKBD_InterruptHandler_AutoSend of      *)
(* src/src/ikbd.c, src/src/reset.c), on the scheduler of module CycInt.    *)
(* Positions are in cycles of the CPU, at its present frequency.           *)
(*                                                                         *)
(* A frame is a chain: every HBL handler asks for the HBL of the next      *)
(* line, the one before last asks for the VBL as well, and the VBL handler *)
(* starts the HBLs of the next frame.  The end-of-line events that timer B *)
(* counts are a second chain.  Every position is computed from the number  *)
(* of cycles since the frame started, so that a handler that is called     *)
(* late does not delay the next one.  The user resets the machine, saves   *)
(* and restores it from inside two of these handlers.                      *)
(***************************************************************************)
EXTENDS CycInt

CONSTANTS
  INTERRUPT_VIDEO_VBL, INTERRUPT_VIDEO_HBL, INTERRUPT_VIDEO_ENDLINE,
  INTERRUPT_IKBD_AUTOSEND,
  SCANLINES_PER_FRAME,     \* of 50, 60 and 71 Hz (functions of the frequency)
  CYCLES_PER_LINE,
  LINE_END_CYCLE,          \* where a line ends on the screen, for timer B
  RestartVideoCounter_Line,\* of 50 and 60 Hz
  RestartVideoCounter_Pos,
  Line_Set_Pal,            \* up to where the length of a line may be changed
  VblVideoCycleOffset,     \* cycles from the start of a frame to its VBL
  AutoSendCycles

Freq == {50, 60, 71}

ASSUME FrameEntriesAssumption ==
  /\ {INTERRUPT_VIDEO_VBL, INTERRUPT_VIDEO_HBL, INTERRUPT_VIDEO_ENDLINE,
      INTERRUPT_IKBD_AUTOSEND} \subseteq Handlers
  /\ INTERRUPT_VIDEO_VBL < INTERRUPT_VIDEO_HBL
  /\ INTERRUPT_VIDEO_HBL < INTERRUPT_VIDEO_ENDLINE
  /\ INTERRUPT_VIDEO_ENDLINE < INTERRUPT_IKBD_AUTOSEND
ASSUME FrameTimingsAssumption ==
  /\ SCANLINES_PER_FRAME \in [Freq -> Nat \ {0, 1}]
  /\ CYCLES_PER_LINE \in [Freq -> Nat \ {0}] /\ LINE_END_CYCLE \in [Freq -> Nat \ {0}]
  /\ RestartVideoCounter_Line \in [{50, 60} -> Nat \ {0}]
  /\ {RestartVideoCounter_Pos, Line_Set_Pal, VblVideoCycleOffset, AutoSendCycles} \subseteq Nat

(* StartCycle is that of line nHBL, or of the last line once its HBL has   *)
(* been handled.  Two fields are history: "events" counts the end-of-line  *)
(* events of the frame (-1 in a frame that does not start as it should),   *)
(* "sincePoll" the cycles since the user was last polled, or the machine   *)
(* was reset or restored.                                                  *)
VideoState ==
  [ nHBL : Nat, nScanlinesPerFrame : Nat, nCyclesPerLine : Nat, StartCycle : Nat,
    HBL_CyclePos : Nat, RestartVideoCounter : BOOLEAN, FrameCycles : Nat,
    freq : {50, 60}, bUseHighRes : BOOLEAN, bUseVDIRes : BOOLEAN,
    events : Int, sincePoll : Nat ]

(* The frequency of the current line (registers ff820a and ff8260). *)
FreqHz(v) == IF v.bUseHighRes THEN 71 ELSE v.freq

InUse(s, h) == s.cyc.bUsed[h]

-----------------------------------------------------------------------------
(* Positions.  Hbl_Int_Pos is the end of the line (every wakeup state but  *)
(* WS1), so a position is on line nHBL or, when its HBL is late, on the    *)
(* next one; between the last HBL and the VBL it counts as line 0.         *)
HblCounterVideo(v) ==
  IF v.nHBL = v.nScanlinesPerFrame THEN 0
  ELSE IF v.FrameCycles - v.StartCycle >= v.nCyclesPerLine THEN v.nHBL + 1 ELSE v.nHBL

LineCycles(v) ==
  IF v.nHBL = v.nScanlinesPerFrame \/ HblCounterVideo(v) = v.nHBL + 1
  THEN v.FrameCycles - v.StartCycle - v.nCyclesPerLine
  ELSE v.FrameCycles - v.StartCycle

LineStart(v, Line) == IF Line <= v.nHBL THEN v.StartCycle ELSE v.StartCycle + v.nCyclesPerLine

Add(s, cycles, h) == [s EXCEPT !.cyc = CycInt_AddRelativeInterrupt(s.cyc, cycles, "CPU", h)]

Video_AddInterrupt(s, Line, Pos, h) ==
  IF s.vid.nHBL >= s.vid.nScanlinesPerFrame THEN s
  ELSE Add(s, Pos + LineStart(s.vid, Line) - s.vid.FrameCycles, h)

Video_AddInterruptHBL(s, Line, Pos) ==
  IF s.vid.bUseVDIRes THEN s ELSE Video_AddInterrupt(s, Line, Pos, INTERRUPT_VIDEO_HBL)

Video_AddInterruptTimerB(s, Line, Cycle, Pos) ==
  IF s.vid.bUseVDIRes THEN s
  ELSE Video_AddInterrupt(s, IF Pos > Cycle THEN Line ELSE Line + 1, Pos,
                          INTERRUPT_VIDEO_ENDLINE)

-----------------------------------------------------------------------------
(* The start of a frame. *)

(* Video_ClearOnVBL: Video_ResetShifterTimings and Video_StartHBL. *)
Video_ClearOnVBL(v) ==
  [v EXCEPT !.nHBL = 0, !.StartCycle = 0, !.RestartVideoCounter = FALSE,
            !.nScanlinesPerFrame = SCANLINES_PER_FRAME[FreqHz(v)],
            !.nCyclesPerLine = CYCLES_PER_LINE[FreqHz(v)]]

(* The first HBL and end of line of a frame; in VDI mode its VBL only.     *)
(* With lines of 224 cycles, a late VBL may be beyond the first line.      *)
Video_StartInterrupts(s, PendingCyclesOver) ==
  LET v == s.vid
      HblPos == CYCLES_PER_LINE[FreqHz(v)]
      endline == IF LINE_END_CYCLE[FreqHz(v)] > v.FrameCycles
                 THEN Video_AddInterruptTimerB(s, HblCounterVideo(v), LineCycles(v),
                                               LINE_END_CYCLE[FreqHz(v)])
                 ELSE Add(s, 4, INTERRUPT_VIDEO_ENDLINE)
      t == [endline EXCEPT !.vid.HBL_CyclePos = HblPos]
  IN  IF v.bUseVDIRes
      THEN Add(s, v.nScanlinesPerFrame * v.nCyclesPerLine - PendingCyclesOver, INTERRUPT_VIDEO_VBL)
      ELSE IF HblPos > v.FrameCycles THEN Video_AddInterruptHBL(t, HblCounterVideo(v), HblPos)
      ELSE Add(t, 8, INTERRUPT_VIDEO_HBL)

RestartAutoSend(s) ==                       \* a reset restarts a running timer
  [s EXCEPT !.cyc = CycInt_AddRelativeInterrupt(s.cyc, AutoSendCycles, "CPU8",
                                                INTERRUPT_IKBD_AUTOSEND)]

(* The part of IKBD_Reset (IKBD_Boot_ROM) about the AUTOSEND timer. *)
IKBD_Reset(s) ==
  IF InUse(s, INTERRUPT_IKBD_AUTOSEND) THEN s
  ELSE [s EXCEPT !.cyc = CycInt_AddRelativeInterrupt(s.cyc, AutoSendCycles, "CPU8",
                                                     INTERRUPT_IKBD_AUTOSEND)]

(* Reset_ST: CycInt_Reset, Video_Reset, IKBD_Reset, Video_StartInterrupts. *)
(* The options that need a reset may change the resolution.                *)
Reset_ST(s, vdi, mono) ==
  LET v == [s.vid EXCEPT !.freq = 60, !.FrameCycles = 0, !.events = 0, !.sincePoll = 0,
                         !.bUseVDIRes = vdi, !.bUseHighRes = mono]
      t == [s EXCEPT !.cyc = CycInt_Reset(s.cyc), !.vid = Video_ClearOnVBL(v)]
  IN  Video_StartInterrupts(IKBD_Reset(t), 0)

(* MemorySnapShot_Restore: Reset_Cold, then the saved variables, of which  *)
(* RestartVideoCounter is none.  The search that ends CycInt_Restore       *)
(* forgets the time since the table was last brought up to date, so every  *)
(* timer is late by that time.                                             *)
MemorySnapShot_Restore(s, saved) ==
  LET r == Reset_ST(s, saved.vid.bUseVDIRes, saved.vid.bUseHighRes)
  IN  [r EXCEPT !.cyc = CycInt_Restore(r.cyc, saved.cyc),
                !.vid = [saved.vid EXCEPT !.RestartVideoCounter = FALSE,
                                        !.events = -1, !.sincePoll = 0]]

MemorySnapShot_Capture(s) == [cyc |-> CycInt_Save(s.cyc), vid |-> s.vid]

-----------------------------------------------------------------------------
(* The handlers.  How late one is: *)
PendingCyclesOver(s) == -INT_CONVERT_FROM_INTERNAL(s.cyc.PendingInterruptCount, "CPU")

Acknowledge(s) == [s EXCEPT !.cyc = CycInt_AcknowledgeInterrupt(s.cyc)]

RestartWithoutHBL(s) == [s EXCEPT !.vid.RestartVideoCounter = FALSE]   \* no HBL follows

(* On line 310 or 260 an intermediate HBL reloads the video counter; it    *)
(* then gives its place to the HBL of the same line.                       *)
RestartHBL(s) ==
  [Video_AddInterruptHBL(s, s.vid.nHBL, s.vid.HBL_CyclePos) EXCEPT !.vid.RestartVideoCounter = FALSE]

(* Video_StartHBL of a line other than the first. *)
Video_StartHBL(v) ==
  [v EXCEPT !.nCyclesPerLine = CYCLES_PER_LINE[FreqHz(v)],
            !.HBL_CyclePos = CYCLES_PER_LINE[FreqHz(v)],
            !.RestartVideoCounter =
               FreqHz(v) # 71 /\ \E f \in {50, 60} : v.nHBL = RestartVideoCounter_Line[f]]

AddVBLTooEarly(s) ==                        \* one line before the last
  IF s.vid.nHBL = s.vid.nScanlinesPerFrame - 2
  THEN Add(s, s.vid.StartCycle + s.vid.nCyclesPerLine + VblVideoCycleOffset - s.vid.FrameCycles,
           INTERRUPT_VIDEO_VBL)
  ELSE s

AddVBLFromNow(s) ==                         \* the HBL is taken to be on time
  IF s.vid.nHBL = s.vid.nScanlinesPerFrame - 1
  THEN Add(s, s.vid.nCyclesPerLine + VblVideoCycleOffset, INTERRUPT_VIDEO_VBL)
  ELSE s

(* The VBL is asked for one line before it is due. *)
AddVBL(s) ==
  IF s.vid.nHBL = s.vid.nScanlinesPerFrame - 1
  THEN Add(s, s.vid.StartCycle + s.vid.nCyclesPerLine + VblVideoCycleOffset - s.vid.FrameCycles,
           INTERRUPT_VIDEO_VBL)
  ELSE s

(* line and cycle are the position at which the handler was called. *)
NextLine(s, line, cycle) ==
  LET v == Video_StartHBL([s.vid EXCEPT !.nHBL = s.vid.nHBL + 1,
                                        !.StartCycle = s.vid.StartCycle + s.vid.nCyclesPerLine])
      t == AddVBL(Video_AddInterruptHBL([s EXCEPT !.vid = v], v.nHBL, v.HBL_CyclePos))
  IN  IF ~v.RestartVideoCounter THEN t
      ELSE IF v.nHBL = line /\ cycle >= RestartVideoCounter_Pos
      THEN [t EXCEPT !.vid.RestartVideoCounter = FALSE]
      ELSE Video_AddInterruptHBL(t, v.nHBL, RestartVideoCounter_Pos)

Video_InterruptHandler_HBL(s) ==
  LET t == Acknowledge(s)
  IN  IF s.vid.RestartVideoCounter THEN RestartHBL(t)
      ELSE IF s.vid.nHBL + 1 < s.vid.nScanlinesPerFrame
      THEN NextLine(t, HblCounterVideo(s.vid), LineCycles(s.vid))
      ELSE [t EXCEPT !.vid.nHBL = s.vid.nHBL + 1]

NextEndLineOnTime(s) ==                     \* a late event is not accounted for
  Add(s, LINE_END_CYCLE[FreqHz(s.vid)] - LineCycles(s.vid) + s.vid.nCyclesPerLine,
      INTERRUPT_VIDEO_ENDLINE)

(* The next end of line; this one may be so late that its HBL is late too. *)
NextEndLine(s) ==
  LET v == s.vid
      cycle == IF HblCounterVideo(v) = v.nHBL + 1 THEN LineCycles(v) + v.nCyclesPerLine
               ELSE LineCycles(v)
  IN  Add(s, LINE_END_CYCLE[FreqHz(v)] - cycle + v.nCyclesPerLine, INTERRUPT_VIDEO_ENDLINE)

Video_InterruptHandler_EndLine(s) ==
  LET t == Acknowledge(s)
      n == IF s.vid.nHBL < s.vid.nScanlinesPerFrame - 1 THEN NextEndLine(t) ELSE t
  IN  IF s.vid.bUseVDIRes THEN t
      ELSE [n EXCEPT !.vid.events = IF @ = -1 THEN -1 ELSE @ + 1]

(* The frequencies that a program may switch between on this screen. *)
LineFreqs(v) == IF v.bUseHighRes THEN {71} ELSE {50, 60}

(* The VBL is so late that the HBL of the first line comes before the      *)
(* "immediate" end-of-line event of that line, 4 cycles from now, or that  *)
(* an immediate HBL, 8 cycles from now, comes after the end of the second. *)
FirstLineTooLate(v) ==
  LET HblPos == CYCLES_PER_LINE[FreqHz(v)]
      now == v.FrameCycles
  IN  \/ LINE_END_CYCLE[FreqHz(v)] <= now /\ now < HblPos /\ HblPos <= now + 4
      \/ \E f \in LineFreqs(v) : HblPos + LINE_END_CYCLE[f] < now + 8

(* t is the machine after ShortCut_ActKey.  A reset leaves another entry   *)
(* active, and a positive count.                                           *)
Video_InterruptHandler_VBL(s, t) ==
  LET c == IF t.cyc.PendingInterruptCount > 0
           THEN [t EXCEPT !.cyc.PendingInterruptCount = s.cyc.PendingInterruptCount] ELSE t
      over == PendingCyclesOver(c)
      a == IF c.cyc.ActiveInterrupt = INTERRUPT_VIDEO_VBL THEN Acknowledge(c) ELSE c
      v == Video_ClearOnVBL([a.vid EXCEPT !.FrameCycles = over + VblVideoCycleOffset])
      e == IF FirstLineTooLate(v) THEN -1 ELSE 0
  IN  Video_StartInterrupts([a EXCEPT !.vid = [v EXCEPT !.events = e]], over)

(* t is the machine after Main_EventHandler; the acknowledge does not ask  *)
(* which entry is active.                                                  *)
IKBD_InterruptHandler_AutoSend(t, events) ==
  LET a == Acknowledge(t)
  IN  [a EXCEPT !.cyc = CycInt_AddRelativeInterrupt(a.cyc, AutoSendCycles, "CPU8",
                                                    INTERRUPT_IKBD_AUTOSEND),
                !.vid.events = events,
                !.vid.sincePoll = 0]

-----------------------------------------------------------------------------
(* The program. *)

(* The length of the current line changes, with all that was computed from *)
(* it: its HBL, its end-of-line event and, on the last line, the VBL.      *)
ChangeLine(s) ==
  LET v == s.vid
      cycles == CYCLES_PER_LINE[v.freq]
      h == IF v.RestartVideoCounter THEN s ELSE Video_AddInterruptHBL(s, v.nHBL, cycles)
      m == IF v.nHBL = v.nScanlinesPerFrame - 1 /\ v.nCyclesPerLine # cycles
           THEN [h EXCEPT !.cyc = CycInt_ModifyInterrupt(h.cyc, cycles - v.nCyclesPerLine, "CPU",
                                                         INTERRUPT_VIDEO_VBL)]
           ELSE h
      t == [m EXCEPT !.vid.HBL_CyclePos = cycles, !.vid.nCyclesPerLine = cycles]
  IN  Video_AddInterruptTimerB(t, v.nHBL, LineCycles(v), LINE_END_CYCLE[v.freq])

(* Video_Sync_WriteByte and the part of Video_Update_Glue_State about the  *)
(* length of the line.                                                     *)
Video_Sync_WriteByte(s, f) ==
  LET t == [s EXCEPT !.vid.freq = f]
      inTime == \/ f = 60 /\ LineCycles(s.vid) < Line_Set_Pal
                \/ f = 50 /\ LineCycles(s.vid) <= Line_Set_Pal
  IN  IF f # s.vid.freq /\ inTime /\ HblCounterVideo(s.vid) = s.vid.nHBL
         /\ ~s.vid.bUseVDIRes /\ ~s.vid.bUseHighRes
      THEN ChangeLine(t) ELSE t

(* The instruction RESET: Video_Reset_Glue writes the register, IKBD_Reset *)
(* restarts the keyboard.                                                  *)
RESET(s) == IKBD_Reset(Video_Sync_WriteByte(s, 60))

Charge(s, c) ==
  [s EXCEPT !.cyc = M68000_AddCycles(s.cyc, c), !.vid.FrameCycles = @ + RoundUpTo4(c),
            !.vid.sincePoll = @ + RoundUpTo4(c)]
=============================================================================
