--------------------------- MODULE FrameTimersSpec ---------------------------
(***************************************************************************)
(* The frame timers of module FrameTimers driven by the CPU loop, by a     *)
(* program that switches between 50 and 60 Hz and executes RESET, and by a *)
(* user who resets the machine, saves it and restores it.                  *)
(*                                                                         *)
(* The user acts in the VBL handler (ShortCut_ActKey) and in the AUTOSEND  *)
(* handler (Main_EventHandler: remote commands, and the shortcuts while    *)
(* the emulation is paused); a saved state may also be restored when the   *)
(* program starts, before the first instruction.  Nothing of the machine   *)
(* that is replaced outlives a restore, so that it does not matter how     *)
(* long ago the state was saved: it is restored where it was saved.        *)
(***************************************************************************)
EXTENDS FrameTimers

CONSTANTS
  InstrCycles,     \* the lengths of an instruction, multiples of 4
  AutoSendResets   \* whether a reset in the AUTOSEND handler may set VDI mode

ASSUME InstrAssumption == \A c \in InstrCycles : c \in Nat \ {0} /\ RoundUpTo4(c) = c
ASSUME UserAssumption == AutoSendResets \subseteq BOOLEAN

VARIABLE st    \* the machine: [cyc : the scheduler, vid : the video state]

Zeroed ==
  [ cyc |-> [ bUsed |-> [i \in InterruptId |-> FALSE], Cycles |-> [i \in InterruptId |-> 0],
              PendingInterruptCount |-> 0, PendingInterruptFunction |-> INTERRUPT_NULL,
              ActiveInterrupt |-> INTERRUPT_NULL, nCyclesOver |-> 0 ],
    vid |-> [ nHBL |-> 0, nScanlinesPerFrame |-> 0, nCyclesPerLine |-> 0, StartCycle |-> 0,
              HBL_CyclePos |-> 0, RestartVideoCounter |-> FALSE, FrameCycles |-> 0,
              freq |-> 60, bUseHighRes |-> FALSE, bUseVDIRes |-> FALSE, events |-> 0,
              sincePoll |-> 0 ] ]

Init == \E vdi, mono \in BOOLEAN : st = Reset_ST(Zeroed, vdi, mono)

Due(h) == HandlerIsDue(st.cyc) /\ st.cyc.PendingInterruptFunction = h

-----------------------------------------------------------------------------
(* The CPU executes an instruction when no handler is due.  A register is  *)
(* written at the start of its instruction.                                *)
Execute(s, c) ==
  /\ ~HandlerIsDue(st.cyc)
  /\ st' = Charge(s, c)

OtherInstruction(c) == Execute(st, c)
WriteSync(f, c) == f # st.vid.freq /\ Execute(Video_Sync_WriteByte(st, f), c)
ResetInstruction(c) == Execute(RESET(st), c)

HBLHandler ==
  /\ Due(INTERRUPT_VIDEO_HBL)
  /\ st' = Video_InterruptHandler_HBL(st)

EndLineHandler ==
  /\ Due(INTERRUPT_VIDEO_ENDLINE)
  /\ st' = Video_InterruptHandler_EndLine(st)

VBLHandler ==
  /\ Due(INTERRUPT_VIDEO_VBL)
  /\ st' = Video_InterruptHandler_VBL(st, st)

AutoSendHandler ==
  /\ Due(INTERRUPT_IKBD_AUTOSEND)
  /\ st' = IKBD_InterruptHandler_AutoSend(st, st.vid.events)

-----------------------------------------------------------------------------
(* The user, in the handlers. *)
VBLReset(vdi, mono) ==
  /\ Due(INTERRUPT_VIDEO_VBL)
  /\ st' = Video_InterruptHandler_VBL(st, Reset_ST(st, vdi, mono))

AutoSendReset(vdi, mono) ==
  /\ vdi \in AutoSendResets
  /\ Due(INTERRUPT_IKBD_AUTOSEND)
  /\ st' = IKBD_InterruptHandler_AutoSend(Reset_ST(st, vdi, mono), -1)

(* What becomes of the machine when its present state is restored; bound:  *)
(* no second time in a frame, since every restore makes the timers later.  *)
MayRestore == st.vid.events # -1
Restored == MemorySnapShot_Restore(st, MemorySnapShot_Capture(st))

VBLRestore ==
  /\ MayRestore /\ Due(INTERRUPT_VIDEO_VBL)
  /\ st' = Video_InterruptHandler_VBL(st, Restored)

AutoSendRestore ==
  /\ MayRestore /\ Due(INTERRUPT_IKBD_AUTOSEND)
  /\ st' = IKBD_InterruptHandler_AutoSend(Restored, -1)

(* The program is started again with the saved state. *)
RestoreAtStart ==
  /\ MayRestore
  /\ Due(INTERRUPT_VIDEO_VBL) \/ Due(INTERRUPT_IKBD_AUTOSEND)
  /\ st' = Restored

-----------------------------------------------------------------------------
Program ==
  \E c \in InstrCycles :
    OtherInstruction(c) \/ ResetInstruction(c) \/ (\E f \in {50, 60} : WriteSync(f, c))

Handler == HBLHandler \/ EndLineHandler \/ VBLHandler \/ AutoSendHandler

UserAct ==
  \/ \E vdi, mono \in BOOLEAN : VBLReset(vdi, mono) \/ AutoSendReset(vdi, mono)
  \/ VBLRestore \/ AutoSendRestore \/ RestoreAtStart

Next == Program \/ Handler \/ UserAct

Spec == Init /\ [][Next]_st

-----------------------------------------------------------------------------
(* The types of the variables. *)
TypeOK == st.cyc \in SchedulerState /\ st.vid \in VideoState

(* The chain of the frame is never broken, nor the polling of the user:    *)
(* between two handlers an HBL or a VBL is pending ("there is always a VBL *)
(* or HBL counter pending", cycInt.c:229), whatever happened inside the    *)
(* handlers, and so is AUTOSEND, without which the user is never heard     *)
(* again.                                                                  *)
ChainUnbroken ==
  /\ InUse(st, INTERRUPT_VIDEO_HBL) \/ InUse(st, INTERRUPT_VIDEO_VBL)
  /\ InUse(st, INTERRUPT_IKBD_AUTOSEND)

(* A frame ends after its last line: when the VBL handler is called, the   *)
(* HBL of every line has been handled, however late the handlers were      *)
(* (video.c:2841: "to be sure we don't miss it in case last HBL would be   *)
(* delayed too much").                                                     *)
FrameComplete ==
  Due(INTERRUPT_VIDEO_VBL) /\ ~st.vid.bUseVDIRes => st.vid.nHBL = st.vid.nScanlinesPerFrame

(* No handler drifts: an HBL is due exactly at its position on its line    *)
(* and the VBL exactly VblVideoCycleOffset cycles after the last line,     *)
(* counted from the start of the frame, although both were asked for by    *)
(* handlers that ran late, and the length of the line changed afterwards   *)
(* (until the next VBL, a restored frame is late as a whole).              *)
IsDueAt(h, position) ==
  CyclesLeft(st.cyc, h) = INT_CONVERT_TO_INTERNAL(position - st.vid.FrameCycles, "CPU")

OnGrid ==
  /\ st.vid.events # -1 /\ InUse(st, INTERRUPT_VIDEO_HBL) /\ st.vid.nHBL > 0 =>
       IsDueAt(INTERRUPT_VIDEO_HBL, st.vid.StartCycle +
         (IF st.vid.RestartVideoCounter THEN RestartVideoCounter_Pos ELSE st.vid.HBL_CyclePos))
  /\ st.vid.events # -1 /\ InUse(st, INTERRUPT_VIDEO_VBL) /\ ~st.vid.bUseVDIRes =>
       IsDueAt(INTERRUPT_VIDEO_VBL,
               st.vid.StartCycle + st.vid.nCyclesPerLine + VblVideoCycleOffset)

(* Every line gives timer B one end-of-line event, before its HBL (except  *)
(* in a frame that was reset or restored in the AUTOSEND handler, or that  *)
(* started too late).                                                      *)
EndOfEveryLine ==
  st.vid.events # -1 /\ ~st.vid.bUseVDIRes =>
    st.vid.events - st.vid.nHBL \in IF st.vid.nHBL = st.vid.nScanlinesPerFrame THEN {0} ELSE {0, 1}

(* The user is polled in time, also while the program executes RESET in a  *)
(* loop ("else this can lead to unresponsive keyboard/input when RESET     *)
(* instruction is called in a loop in less than 150000 cycles",            *)
(* ikbd.c:597): AUTOSEND is due no later than AutoSendCycles after it was  *)
(* handled last.                                                           *)
UserPolled ==
  INT_CONVERT_TO_INTERNAL(st.vid.sincePoll, "CPU") + CyclesLeft(st.cyc, INTERRUPT_IKBD_AUTOSEND)
    <= INT_CONVERT_TO_INTERNAL(AutoSendCycles, "CPU8")
=============================================================================
