--------------------------- MODULE MFPTimersSpec ---------------------------
(***************************************************************************)
(* The timers of module MFPTimers driven by a program and by time.         *)
(*                                                                         *)
(* One instruction accesses at most one register and then charges its      *)
(* cycles to the scheduler; the CPU loop calls every handler that is due   *)
(* before the next instruction.  The events that the timers A and B count  *)
(* (ends of lines, ends of sound frames) come from other handlers of the   *)
(* scheduler, which one video entry stands for.                            *)
(***************************************************************************)
EXTENDS MFPTimers

CONSTANTS
  Video,        \* the entry of the other handlers
  VideoPeriod,  \* CPU cycles between two of its calls
  CtrlAB,       \* control values the program writes for timers A and B
  CtrlCD,       \* and for timers C and D
  DataValues,   \* data values the program writes
  InstrCycles,  \* the cycles of an instruction, a multiple of 4
  WriteOffsets, \* cycles from the start of an instruction to its write access
  Resets        \* the resets that happen: "instruction", "machine"

ASSUME SpecAssumption ==
  /\ Video \in Handlers \ Timers
  /\ {VideoPeriod, InstrCycles} \subseteq Nat \ {0} /\ RoundUpTo4(InstrCycles) = InstrCycles
  /\ CtrlAB \subseteq 0 .. 15 /\ CtrlCD \subseteq 0 .. 7
  /\ DataValues \subseteq Counts
  /\ WriteOffsets \subseteq 0 .. InstrCycles
  /\ Resets \subseteq {"instruction", "machine"}

VARIABLES
  st,       \* the scheduler, the timers and PendingCyclesOver
  raised,   \* the timers whose channel this step has raised
  written   \* history: data register written while off, not started since

vars == <<st, raised, written>>

StartVideo(cyc) == CycInt_AddRelativeInterrupt(cyc, VideoPeriod, "CPU", Video)

Zeroed ==
  [ bUsed |-> [i \in InterruptId |-> FALSE], Cycles |-> [i \in InterruptId |-> 0],
    PendingInterruptCount |-> 0, PendingInterruptFunction |-> INTERRUPT_NULL,
    ActiveInterrupt |-> INTERRUPT_NULL, nCyclesOver |-> 0 ]

Init ==
  /\ st = [cyc |-> StartVideo(CycInt_Reset(Zeroed)),
           tmr |-> [h \in Timers |-> [ctrl |-> 0, data |-> 0, MainCounter |-> 0,
                                      CanResume |-> FALSE]],
           PendingCyclesOver |-> 0]
  /\ raised = {}
  /\ written = {}

-----------------------------------------------------------------------------
(* An instruction: its access has led to state s, then it is charged. *)
Execute(s) ==
  /\ ~HandlerIsDue(st.cyc)
  /\ st' = [s EXCEPT !.cyc = M68000_AddCycles(s.cyc, InstrCycles)]
  /\ raised' = {}

Started(s) == {h \in Timers : s.tmr[h].ctrl # 0}

OtherInstruction == Execute(st) /\ UNCHANGED written

Offset(o) == INT_CONVERT_TO_INTERNAL(o, "CPU")

WriteCtrlAB(h, new, o) ==
  LET s == MFP_TimerABCtrl_WriteByte(st, h, new, Offset(o))
  IN  Execute(s) /\ written' = written \ Started(s)

WriteCtrlCD(new, o) ==
  LET s == MFP_TimerCDCtrl_WriteByte(st, new, Offset(o))
  IN  Execute(s) /\ written' = written \ Started(s)

WriteData(h, value) ==
  /\ Execute(MFP_TimerData_WriteByte(st, h, value))
  /\ written' = IF st.tmr[h].ctrl = 0 THEN written \cup {h} ELSE written

ReadData(h) ==
  /\ \E s \in MFP_TimerData_ReadByte(st, h) : Execute(s)
  /\ UNCHANGED written

(* RESET: the peripherals are reset, the scheduler is not. *)
ResetInstruction ==
  /\ "instruction" \in Resets
  /\ Execute([st EXCEPT !.tmr = MFP_ResetTimers(st.tmr)])
  /\ written' = {}

-----------------------------------------------------------------------------
TimerHandler(h) ==
  /\ HandlerIsDue(st.cyc) /\ st.cyc.PendingInterruptFunction = h
  /\ raised' = {g \in {h} : Raises(st, h)}
  /\ st' = MFP_InterruptHandler_Timer(st, h)
  /\ UNCHANGED written

(* Another handler; the timers in E see an event. *)
OtherHandler(E) ==
  /\ HandlerIsDue(st.cyc) /\ st.cyc.PendingInterruptFunction = Video
  /\ \A h \in E : st.tmr[h].ctrl = EventCount
  /\ bUseVDIRes => TimerB \notin E
  /\ raised' = {h \in E : EventRaises(st.tmr[h])}
  /\ st' = [st EXCEPT !.cyc = StartVideo(CycInt_AcknowledgeInterrupt(st.cyc)),
                      !.tmr = [h \in Timers |->
                                 IF h \in E THEN MFP_Timer_EventCount_Interrupt(st.tmr[h])
                                 ELSE st.tmr[h]]]
  /\ UNCHANGED written

(* Reset_ST, called by the user interface between two instructions. *)
ResetMachine ==
  /\ "machine" \in Resets
  /\ st' = [st EXCEPT !.cyc = StartVideo(CycInt_Reset(st.cyc)),
                      !.tmr = MFP_ResetTimers(st.tmr)]
  /\ raised' = {}
  /\ written' = {}

Next ==
  \/ OtherInstruction
  \/ \E h \in TimersAB, new \in CtrlAB, o \in WriteOffsets : WriteCtrlAB(h, new, o)
  \/ \E new \in [TimersCD -> CtrlCD], o \in WriteOffsets : WriteCtrlCD(new, o)
  \/ \E h \in Timers, value \in DataValues : WriteData(h, value)
  \/ \E h \in Timers : ReadData(h)
  \/ ResetInstruction
  \/ \E h \in Timers : TimerHandler(h)
  \/ \E E \in SUBSET TimersAB : OtherHandler(E)
  \/ ResetMachine

(* The emulation goes on.  There always is an instruction to execute or a  *)
(* handler to call, so this is the weak fairness of Next.                  *)
Progress == []<><<Next>>_vars

Spec == Init /\ [][Next]_vars /\ Progress

-----------------------------------------------------------------------------
Left(s, h) == CyclesLeft(s.cyc, h)
Period(value, ctrl) ==
  INT_CONVERT_TO_INTERNAL(MFP_REG_TO_CYCLES(IF value = 0 THEN FullCount ELSE value, ctrl), "MFP")
Charge == INT_CONVERT_TO_INTERNAL(InstrCycles, "CPU")

(* The types of the variables: registers keep their width, times are integers. *)
TypeOK ==
  /\ st.cyc \in SchedulerState
  /\ st.tmr \in [Timers -> TimerRegisters]
  /\ st.PendingCyclesOver \in Nat
  /\ raised \subseteq Timers /\ written \subseteq Timers

(* A timer in a delay or pulse width mode has its entry in the scheduler,  *)
(* whatever the order of stops, restarts, mode changes and expiries; one   *)
(* that is off or counts events has none: "Make sure no outstanding        *)
(* interrupts in list if channel is disabled" (mfp.c:1126).                *)
(* MFP_ReadTimerCD relies on the latter, it divides by the prescaler of an *)
(* entry in use.                                                           *)
RunningTimerArmed ==
  \A h \in Timers : (Prescaler(st.tmr[h].ctrl) # 0) = CycInt_InterruptActive(st.cyc, h)

(* A program never reads the counter of a running timer below 1: "we round *)
(* to the closest higher integer" (mfp.c:258).                             *)
CounterNeverZero ==
  \A h \in Timers :
    Prescaler(st.tmr[h].ctrl) # 0 /\ ~HandlerIsDue(st.cyc) =>
      MFP_CYCLE_TO_REG(CycInt_FindCyclesPassed(st.cyc, h, "MFP"), st.tmr[h].ctrl) >= 1

(* No timer takes longer than the longest period there is, FullCount ticks *)
(* of the largest prescaler: a resumed entry holds a time of its own past. *)
TimerWithinPeriod ==
  \A h \in Timers :
    CycInt_InterruptActive(st.cyc, h) =>
      \E c \in 1 .. 7 : Left(st, h) <= Period(0, c)

(* When a running timer expires, its next expiry is a whole number of      *)
(* periods after this one, however late the handler was called, and not    *)
(* more than one period ahead: no drift, no pile of missed interrupts.     *)
TimersStayOnGrid ==
  [][\A h \in Timers :
       TimerHandler(h) /\ Prescaler(st.tmr[h].ctrl) # 0 =>
         LET period == Period(st.tmr[h].data, st.tmr[h].ctrl)
         IN  /\ Left(st', h) \in 0 .. period
             /\ (Left(st', h) - Left(st, h)) % period = 0]_vars

(* What a program writes to the data register of a timer that is off is    *)
(* the time the timer takes once it is started, whatever it had left when  *)
(* it was stopped.                                                         *)
WrittenDataCounts ==
  [][\A h \in written \ written' :
       Prescaler(st'.tmr[h].ctrl) # 0 =>
         Left(st', h) \in (Period(st.tmr[h].data, st'.tmr[h].ctrl) - Charge)
                            .. Period(st.tmr[h].data, st'.tmr[h].ctrl)]_vars

(* A timer that keeps running raises its channel again and again. *)
RunningTimerFires ==
  \A h \in Timers : []<>(h \in raised \/ Prescaler(st.tmr[h].ctrl) = 0)
=============================================================================
