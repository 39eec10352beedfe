-------------------------------- MODULE MFP --------------------------------
(***************************************************************************)
(* The interrupt controller of the MFP 68901 (src/src/mfp.c): enable,      *)
(* pending, in-service and mask registers of 16 channels, the edge         *)
(* detection of the GPIP lines, and the IRQ signal with the 4 cycles it    *)
(* takes to reach the CPU.                                                 *)
(*                                                                         *)
(* A register is the set of channels whose bit is 1 (a higher channel has  *)
(* a higher priority); the A register holds channels 8..15, the B register *)
(* channels 0..7.  Clock values appear in the code only in comparisons     *)
(* with one another or with the current clock, so a clock value is         *)
(* represented by its age: how many units of MFP_IRQ_DELAY_TO_CPU (4)      *)
(* cycles before "now", at most MaxAge.  UINT64_MAX, younger than          *)
(* everything, is Never.                                                   *)
(***************************************************************************)
EXTENDS Integers

CONSTANTS
  Channels,  \* the interrupt channels (MFP_INT_...) of the model, in 0 .. 15
  Lines,     \* those fed by a GPIP line, which a line is named after
  MaxAge     \* ages are counted up to this bound

ASSUME ChannelsAssumption == Channels \subseteq 0 .. 15 /\ Lines \subseteq Channels
ASSUME MaxAgeAssumption == MaxAge \in Nat \ {0}

NoInterrupt == -1
Never == -1
Ages == Never .. MaxAge

MFPState ==
  [ IER : SUBSET Channels, IPR : SUBSET Channels,
    ISR : SUBSET Channels, IMR : SUBSET Channels,
    SEI : BOOLEAN,              \* bit 3 of VR: software end of interrupt
    GPIP : SUBSET Lines, AER : SUBSET Lines, DDR : SUBSET Lines,
    IRQ : BOOLEAN, IRQ_CPU : BOOLEAN, IRQ_Time : Ages,
    Current_Interrupt : Channels \cup {NoInterrupt},
    UpdateNeeded : BOOLEAN,
    Pending_Time_Min : Ages, Pending_Time : [Channels -> Ages],
    SPCFLAG_MFP : BOOLEAN ]     \* the CPU is to call MFP_DelayIRQ

(* MFP_Reset.  The flag belongs to the CPU and is left to the callers. *)
MFP_Reset(flag) ==
  [ IER |-> {}, IPR |-> {}, ISR |-> {}, IMR |-> {}, SEI |-> FALSE,
    GPIP |-> {}, AER |-> {}, DDR |-> {},
    IRQ |-> FALSE, IRQ_CPU |-> FALSE, IRQ_Time |-> MaxAge,
    Current_Interrupt |-> NoInterrupt, UpdateNeeded |-> FALSE,
    Pending_Time_Min |-> Never, Pending_Time |-> [c \in Channels |-> Never],
    SPCFLAG_MFP |-> flag ]

(* n units pass: CyclesGlobalClockCounter advances. *)
Older(a, n) ==
  IF a = Never THEN Never ELSE IF a + n > MaxAge THEN MaxAge ELSE a + n

PassTime(m, n) ==
  [m EXCEPT !.IRQ_Time = Older(m.IRQ_Time, n),
            !.Pending_Time_Min = Older(m.Pending_Time_Min, n),
            !.Pending_Time = [c \in Channels |-> Older(m.Pending_Time[c], n)]]

-----------------------------------------------------------------------------
(* The IRQ signal.                                                         *)

(* No interrupt of the same or a higher priority is in service. *)
Unblocked(m, c) == \A j \in m.ISR : j < c

RequestIgnoringService(m, c) ==      \* the in-service test is forgotten
  /\ c \in m.IPR \cap m.IMR
  /\ m.Pending_Time[c] >= m.Pending_Time_Min

(* MFP_InterruptRequest: an older or equal clock value is a larger age. *)
MFP_InterruptRequest(m, c) ==
  /\ c \in m.IPR \cap m.IMR
  /\ m.Pending_Time[c] >= m.Pending_Time_Min
  /\ Unblocked(m, c)

Requests(m) == {c \in Channels : MFP_InterruptRequest(m, c)}

MFP_CheckPendingInterrupts(m) ==
  IF Requests(m) = {} THEN NoInterrupt
  ELSE CHOOSE c \in Requests(m) : \A d \in Requests(m) : d <= c

(* MFP_UpdateIRQ.  Event_Time is the age of the write that caused the      *)
(* update; Never stands for the 0 the main CPU loop passes.                *)
MFP_UpdateIRQ(m, Event_Time) ==
  LET NewInt == MFP_CheckPendingInterrupts(m)
      found  == NewInt # NoInterrupt
  IN  [m EXCEPT !.IRQ = found,
                !.Current_Interrupt = IF found THEN NewInt ELSE m.Current_Interrupt,
                !.IRQ_Time = IF ~found \/ m.IRQ THEN m.IRQ_Time
                             ELSE IF Event_Time # Never THEN Event_Time
                             ELSE m.Pending_Time[NewInt],
                !.SPCFLAG_MFP = TRUE,
                !.Pending_Time_Min = Never,
                !.UpdateNeeded = FALSE]

(* What the CPU loop does after the event handlers. *)
UpdateIfNeeded(m) == IF m.UpdateNeeded THEN MFP_UpdateIRQ(m, Never) ELSE m

DelayForgetsRequest(m) ==            \* the flag is dropped before the delay is over
  IF ~m.IRQ \/ m.IRQ_Time >= 1
  THEN [m EXCEPT !.IRQ_CPU = m.IRQ, !.SPCFLAG_MFP = FALSE]
  ELSE [m EXCEPT !.SPCFLAG_MFP = FALSE]

(* MFP_DelayIRQ: one unit is MFP_IRQ_DELAY_TO_CPU cycles. *)
MFP_DelayIRQ(m) ==
  IF ~m.IRQ \/ m.IRQ_Time >= 1
  THEN [m EXCEPT !.IRQ_CPU = m.IRQ, !.SPCFLAG_MFP = FALSE]
  ELSE m

-----------------------------------------------------------------------------
(* MFP_ProcessIACK: the CPU fetches the vector of the current interrupt.   *)

IACKKeepsWrongBits(m) ==             \* a forgotten complement of the bit mask
  LET u == MFP_UpdateIRQ(m, 0)
      c == u.Current_Interrupt
  IN  MFP_UpdateIRQ([u EXCEPT !.IPR = u.IPR \cap {c},
                              !.ISR = IF u.SEI THEN u.ISR \cup {c} ELSE u.ISR \ {c}], 0)

MFP_ProcessIACK(m) ==
  LET u == MFP_UpdateIRQ(m, 0)
      c == u.Current_Interrupt
  IN  MFP_UpdateIRQ([u EXCEPT !.IPR = u.IPR \ {c},
                              !.ISR = IF u.SEI THEN u.ISR \cup {c} ELSE u.ISR \ {c}], 0)

-----------------------------------------------------------------------------
(* Inputs.                                                                 *)

InputIgnoringMask(m, c, delay) ==    \* a masked event counts for the minimum
  IF c \in m.IER
  THEN [m EXCEPT !.IPR = m.IPR \cup {c},
                 !.Pending_Time[c] = delay,
                 !.Pending_Time_Min =
                    IF delay > m.Pending_Time_Min THEN delay ELSE m.Pending_Time_Min,
                 !.UpdateNeeded = TRUE]
  ELSE [m EXCEPT !.IPR = m.IPR \ {c}, !.UpdateNeeded = TRUE]

(* MFP_InputOnChannel; delay is the age of the event. *)
MFP_InputOnChannel(m, c, delay) ==
  IF c \in m.IER
  THEN [m EXCEPT !.IPR = m.IPR \cup {c},
                 !.Pending_Time[c] = delay,
                 !.Pending_Time_Min =
                    IF c \in m.IMR /\ delay > m.Pending_Time_Min
                    THEN delay ELSE m.Pending_Time_Min,
                 !.UpdateNeeded = TRUE]
  ELSE [m EXCEPT !.IPR = m.IPR \ {c}, !.UpdateNeeded = TRUE]

(* MFP_GPIP_Update_Interrupt: the input lines whose GPIP xor AER changes   *)
(* between the states o and m and whose level is now the active one (a     *)
(* line's level is active when it equals its AER bit).                     *)
ActiveLevel(m, l) == (l \in m.GPIP) = (l \in m.AER)

TriggeredLines(o, m) ==
  {l \in Lines : l \notin m.DDR /\ ActiveLevel(m, l) /\ ~ActiveLevel(o, l)}

(* Inputs at one and the same time: MFP_InputOnChannel for each line of ls. *)
InputOnLines(m, ls, delay) ==
  IF ls = {} THEN m
  ELSE [m EXCEPT !.IPR = (m.IPR \cup (ls \cap m.IER)) \ (ls \ m.IER),
                 !.Pending_Time = [c \in Channels |-> IF c \in ls \cap m.IER
                                                      THEN delay ELSE m.Pending_Time[c]],
                 !.Pending_Time_Min =
                    IF ls \cap m.IER \cap m.IMR # {} /\ delay > m.Pending_Time_Min
                    THEN delay ELSE m.Pending_Time_Min,
                 !.UpdateNeeded = TRUE]

MFP_GPIP_Update_Interrupt(o, m, delay) == InputOnLines(m, TriggeredLines(o, m), delay)

(* MFP_GPIP_Set_Line_Input: a device drives line l high or low. *)
MFP_GPIP_Set_Line_Input(m, l, high, delay) ==
  IF l \in m.DDR \/ (l \in m.GPIP) = high THEN m
  ELSE MFP_GPIP_Update_Interrupt(m,
         [m EXCEPT !.GPIP = IF high THEN m.GPIP \cup {l} ELSE m.GPIP \ {l}], delay)

(* MFP_GPIP_ReadByte: reading GPIP refreshes the input lines of ls (the    *)
(* monitor and the printer) from the levels hs; no edge is looked for.     *)
MFP_GPIP_ReadByte(m, ls, hs) ==
  [m EXCEPT !.GPIP = (m.GPIP \ (ls \ m.DDR)) \cup ((ls \cap hs) \ m.DDR)]

-----------------------------------------------------------------------------
(* Register writes.  half is the set of channels of the byte written, v    *)
(* the written value and t the age of the write access.                    *)

HalfA == {c \in Channels : c > 7}
HalfB == {c \in Channels : c <= 7}

Written(old, half, v) == (old \ half) \cup (v \cap half)

EnableKeepsPending(m, half, v, t) ==  \* pending bits survive a disable
  MFP_UpdateIRQ([m EXCEPT !.IER = Written(m.IER, half, v)], t)

MFP_Enable_WriteByte(m, half, v, t) ==
  LET ier == Written(m.IER, half, v)
  IN  MFP_UpdateIRQ([m EXCEPT !.IER = ier, !.IPR = m.IPR \ (half \ ier)], t)

MFP_Pending_WriteByte(m, half, v, t) ==
  MFP_UpdateIRQ([m EXCEPT !.IPR = m.IPR \ (half \ v)], t)

MFP_InService_WriteByte(m, half, v, t) ==
  MFP_UpdateIRQ([m EXCEPT !.ISR = m.ISR \ (half \ v)], t)

MFP_Mask_WriteByte(m, half, v, t) ==
  MFP_UpdateIRQ([m EXCEPT !.IMR = Written(m.IMR, half, v)], t)

(* Leaving the software end-of-interrupt mode clears ISR. *)
MFP_VectorReg_WriteByte(m, sei, t) ==
  IF m.SEI /\ ~sei THEN MFP_UpdateIRQ([m EXCEPT !.SEI = FALSE, !.ISR = {}], t)
  ELSE [m EXCEPT !.SEI = sei]

(* Only output lines take the written value. *)
MFP_GPIP_WriteByte(m, v, t) ==
  MFP_GPIP_Update_Interrupt(m, [m EXCEPT !.GPIP = Written(m.GPIP, m.DDR, v)], t)

ActiveEdgeWithoutUpdate(m, v, t) == [m EXCEPT !.AER = v]   \* edges are not looked for

MFP_ActiveEdge_WriteByte(m, v, t) ==
  MFP_GPIP_Update_Interrupt(m, [m EXCEPT !.AER = v], t)

MFP_DataDirection_WriteByte(m, v, t) ==
  MFP_GPIP_Update_Interrupt(m, [m EXCEPT !.DDR = v], t)
=============================================================================
