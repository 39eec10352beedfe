----------------------------- MODULE MFPTimers -----------------------------
(***************************************************************************)
(* The four timers of the MFP (src/src/mfp.c) on the cycle scheduler of    *)
(* module CycInt.  A timer in delay mode is an entry of the scheduler; its *)
(* counter is computed from the time that entry has left.                  *)
(*                                                                         *)
(* The functions work on a record st of the scheduler, the registers of    *)
(* the timers and the global PendingCyclesOver.  Timers A and B differ     *)
(* from C and D in their control register only: 4 bits, with the event     *)
(* count mode (8) and the pulse width modes (9 .. 15).  The xxxClockCycles *)
(* variables of the code are never read and are left out, as is the jitter *)
(* for one particular game.  The patch of timer D replaces the values that *)
(* TOS writes by other ones: here a program may write any value.           *)
(***************************************************************************)
EXTENDS CycInt

CONSTANTS
  TimersAB,   \* the entries of timers A and B in the model
  TimerC,     \* the entry of timer C
  TimerD,     \* and of timer D (a small model has one entry for both)
  MFPDiv,     \* the prescaler of control values 1 .. 7
  FullCount,  \* 256: a data register of 0 counts as this
  TimerB,     \* the entry of timer B
  bUseVDIRes  \* extended VDI resolution, where no line is counted

TimersCD == {TimerC, TimerD}
Timers == TimersAB \cup TimersCD

ASSUME TimersAssumption ==
  /\ TimersAB \subseteq Handlers /\ TimersCD \subseteq Handlers \ TimersAB
  /\ MFPDiv \in [1 .. 7 -> Nat \ {0}]
  /\ FullCount \in Nat \ {0, 1}
  /\ bUseVDIRes \in BOOLEAN

Counts == 0 .. FullCount - 1
EventCount == 8

TimerRegisters ==
  [ctrl : 0 .. 15, data : Counts, MainCounter : Counts, CanResume : BOOLEAN]

(* The prescaler of a control value; 0 if the timer does not run by itself *)
(* (stopped, or in event count mode).  A pulse width mode acts as a delay  *)
(* mode.                                                                   *)
Prescaler(ctrl) == IF ctrl % 8 = 0 THEN 0 ELSE MFPDiv[ctrl % 8]

MFP_REG_TO_CYCLES(data, ctrl) == data * Prescaler(ctrl)

RoundedDown(c, ctrl) == c \div Prescaler(ctrl)     \* the counter without its rounding

MFP_CYCLE_TO_REG(c, ctrl) == (c + Prescaler(ctrl) - 1) \div Prescaler(ctrl)

-----------------------------------------------------------------------------
(* MFP_StartTimer_AB, MFP_StartTimer_CD.  first tells a start by the       *)
(* program from the restart by the handler; o is the time, in internal     *)
(* cycles, between the start of the instruction and its write access.      *)

(* "In case we miss more than one int, we must correct the delay". *)
CorrectedOver(over, period) == IF over > period THEN over % period ELSE over

StartWithoutCorrection(st, h, value, first, o) ==  \* missed periods pile up
  LET t == st.tmr[h]
      cycles == MFP_REG_TO_CYCLES(IF value = 0 THEN FullCount ELSE value, t.ctrl)
      removed == CycInt_RemovePendingInterrupt(st.cyc, h)
      offset == IF first THEN o ELSE -st.PendingCyclesOver
  IN  IF cycles = 0 THEN [st EXCEPT !.cyc = removed]
      ELSE IF t.CanResume /\ first
      THEN [st EXCEPT !.cyc = CycInt_ResumeStoppedInterrupt(removed, h)]
      ELSE [st EXCEPT !.tmr[h].CanResume = TRUE,
                      !.cyc = CycInt_AddRelativeInterruptWithOffset(removed, cycles, "MFP", h, offset)]

StartWithWrongSign(st, h, value, first, o) ==      \* a late timer gets even later
  LET t == st.tmr[h]
      cycles == MFP_REG_TO_CYCLES(IF value = 0 THEN FullCount ELSE value, t.ctrl)
      removed == CycInt_RemovePendingInterrupt(st.cyc, h)
      offset == IF first THEN o ELSE st.PendingCyclesOver
  IN  IF cycles = 0 THEN [st EXCEPT !.cyc = removed]
      ELSE IF t.CanResume /\ first
      THEN [st EXCEPT !.cyc = CycInt_ResumeStoppedInterrupt(removed, h)]
      ELSE [st EXCEPT !.tmr[h].CanResume = TRUE,
                      !.cyc = CycInt_AddRelativeInterruptWithOffset(removed, cycles, "MFP", h, offset)]

MFP_StartTimer(st, h, value, first, o) ==
  LET t == st.tmr[h]
      cycles == MFP_REG_TO_CYCLES(IF value = 0 THEN FullCount ELSE value, t.ctrl)
      removed == CycInt_RemovePendingInterrupt(st.cyc, h)
      over == IF first THEN st.PendingCyclesOver
              ELSE CorrectedOver(st.PendingCyclesOver, INT_CONVERT_TO_INTERNAL(cycles, "MFP"))
      offset == IF first THEN o ELSE -over
  IN  IF cycles = 0 THEN [st EXCEPT !.cyc = removed]
      ELSE IF t.CanResume /\ first
      THEN [st EXCEPT !.cyc = CycInt_ResumeStoppedInterrupt(removed, h)]
      ELSE [st EXCEPT !.PendingCyclesOver = over,
                      !.tmr[h].CanResume = TRUE,
                      !.cyc = CycInt_AddRelativeInterruptWithOffset(removed, cycles, "MFP", h, offset)]

(* The handler of a timer ends with its restart from the data register.    *)
(* The input on the timer's channel of the MFP is Raises.                  *)
HandlerWithoutRestart(st, h) ==                    \* one-shot timers
  [st EXCEPT !.PendingCyclesOver = -st.cyc.PendingInterruptCount,
             !.cyc = CycInt_AcknowledgeInterrupt(st.cyc)]

MFP_InterruptHandler_Timer(st, h) ==
  MFP_StartTimer([st EXCEPT !.PendingCyclesOver = -st.cyc.PendingInterruptCount,
                            !.cyc = CycInt_AcknowledgeInterrupt(st.cyc)],
                 h, st.tmr[h].data, FALSE, 0)

Raises(st, h) == st.tmr[h].ctrl # 0

-----------------------------------------------------------------------------
(* MFP_ReadTimer_AB, MFP_ReadTimerCD: the counter, from the time the entry *)
(* has left.  Timers A and B compute it in delay mode only; C and D        *)
(* whenever the entry is in use, also with a prescaler of 0: that division *)
(* is undefined, so the result is any count (where the CPU of the host     *)
(* does not trap).                                                         *)
IsComputed(st, h) ==
  /\ CycInt_InterruptActive(st.cyc, h)
  /\ h \in TimersAB => st.tmr[h].ctrl \in 1 .. 7

LastTick(st, h) ==
  CycInt_FindCyclesPassed(st.cyc, h, "MFP") < MFP_REG_TO_CYCLES(1, st.tmr[h].ctrl)

MFP_ReadTimer(st, h, TimerIsStopping) ==
  IF TimerIsStopping /\ LastTick(st, h) THEN {0}
  ELSE IF ~IsComputed(st, h) THEN {st.tmr[h].MainCounter}
  ELSE IF Prescaler(st.tmr[h].ctrl) = 0 THEN Counts
  ELSE {MFP_CYCLE_TO_REG(CycInt_FindCyclesPassed(st.cyc, h, "MFP"), st.tmr[h].ctrl) % FullCount}

(* A read of a data register keeps the counter, not in event count mode    *)
(* (but TOS expects timer B to read as 1 where no line is counted).        *)
MFP_TimerData_ReadByte(st, h) ==
  IF st.tmr[h].ctrl = EventCount
  THEN {IF h = TimerB /\ bUseVDIRes THEN [st EXCEPT !.tmr[h].MainCounter = 1] ELSE st}
  ELSE {[st EXCEPT !.tmr[h].MainCounter = c] : c \in MFP_ReadTimer(st, h, FALSE)}

-----------------------------------------------------------------------------
(* Register writes.  A control write does something if the value changes;  *)
(* a timer that is stopped from delay mode keeps its counter.              *)
TimerCtrl_Write(st, h, new, o) ==
  LET t == st.tmr[h]
      stopping == new = 0 /\ (h \in TimersAB => t.ctrl \in 1 .. 7)
      counter == IF stopping THEN CHOOSE c \in MFP_ReadTimer(st, h, TRUE) : TRUE
                 ELSE t.MainCounter
  IN  IF t.ctrl = new THEN st
      ELSE MFP_StartTimer([st EXCEPT !.tmr[h].ctrl = new, !.tmr[h].MainCounter = counter],
                          h, counter, TRUE, o)

StopForgetsEntry(st, h, new, o) ==                 \* a stopped timer stays in the scheduler
  IF new = 0 THEN [st EXCEPT !.tmr[h].ctrl = 0] ELSE TimerCtrl_Write(st, h, new, o)

MFP_TimerABCtrl_WriteByte(st, h, new, o) == TimerCtrl_Write(st, h, new, o)

(* One register for timers C and D: first C, then D. *)
MFP_TimerCDCtrl_WriteByte(st, new, o) ==
  TimerCtrl_Write(TimerCtrl_Write(st, TimerC, new[TimerC], o), TimerD, new[TimerD], o)

DataKeepsResume(st, h, value) ==                   \* the old time is resumed
  IF st.tmr[h].ctrl = 0
  THEN [st EXCEPT !.tmr[h].data = value, !.tmr[h].MainCounter = value]
  ELSE [st EXCEPT !.tmr[h].data = value]

MFP_TimerData_WriteByte(st, h, value) ==
  IF st.tmr[h].ctrl = 0
  THEN [st EXCEPT !.tmr[h].data = value,
                  !.tmr[h].MainCounter = value,
                  !.tmr[h].CanResume = FALSE]
  ELSE [st EXCEPT !.tmr[h].data = value]

(* MFP_TimerA/B_EventCount_Interrupt: an event in event count mode. *)
MFP_Timer_EventCount_Interrupt(t) ==
  IF t.MainCounter = 1 THEN [t EXCEPT !.MainCounter = t.data]
  ELSE [t EXCEPT !.MainCounter = (t.MainCounter + FullCount - 1) % FullCount]

EventRaises(t) == t.MainCounter = 1

(* MFP_Reset as far as the timers go: the Timer?CanResume stay. *)
MFP_ResetTimers(tmr) ==
  [h \in Timers |-> [ctrl |-> 0, data |-> 0, MainCounter |-> 0, CanResume |-> tmr[h].CanResume]]
=============================================================================
