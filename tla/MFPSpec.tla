------------------------------ MODULE MFPSpec ------------------------------
(***************************************************************************)
(* The MFP of module MFP with the CPU that serves it: the loop of          *)
(* m68k_run_1 and do_specialties (src/src/cpu/newcpu.c), the list of       *)
(* pending interrupt levels (src/src/m68000.c) and the IACK sequence.      *)
(*                                                                         *)
(* One turn of the loop is                                                 *)
(*   "instr"   an instruction, which may access the MFP;                   *)
(*   "events"  the event handlers that became due during the instruction,  *)
(*             then MFP_UpdateIRQ and, in do_specialties, MFP_DelayIRQ;    *)
(*   "check"   the highest pending level is compared with the SR;          *)
(*   "iack"    if it is allowed: the cycles before IACK, in which handlers *)
(*             run again, then the acknowledge.                            *)
(* The loop of a stopped CPU takes the same steps with idle instructions.  *)
(***************************************************************************)
EXTENDS MFP

CONSTANTS
  AutoLevels,      \* the autovectored levels in use: 2 (HBL), 4 (VBL)
  IntMasks,        \* the interrupt levels a program puts into the SR
  InstrLengths,    \* the lengths of instructions, in units of 4 cycles
  IackLength,      \* the length of the IACK sequence, in the same unit
  RegisterValues,  \* the values a program writes to IER, IPR, ISR and IMR
  SeiModes,        \* the end-of-interrupt modes a program selects
  PolledLines,     \* the lines that a read of GPIP refreshes
  WithEdges,       \* the program writes AER, DDR, GPIP (bounds the model)
  WithReset,       \* the user resets the machine (bounds the model)
  SnapshotLevels,  \* the user saves while the SR has one of these (bounds the model)
  NoSnapshot

ASSUME CpuAssumption ==
  /\ AutoLevels \subseteq {2, 4} /\ IntMasks \subseteq 0 .. 7
  /\ InstrLengths \subseteq 1 .. MaxAge /\ IackLength \in 0 .. MaxAge
  /\ RegisterValues \subseteq SUBSET Channels /\ SeiModes \subseteq BOOLEAN
  /\ PolledLines \subseteq Lines
  /\ {WithEdges, WithReset} \subseteq BOOLEAN /\ SnapshotLevels \subseteq 0 .. 7

VARIABLES
  mfp,                \* the MFP
  pendingInterrupts,  \* the pending interrupt levels
  intmask,            \* the level in the SR
  phase,              \* where the CPU loop is
  level,              \* the level being acknowledged in phase "iack"
  late,               \* how long ago an event handled now may have happened
  fired,              \* the channels with an input among these events
  snap                \* the memory snapshot, or NoSnapshot

cpuVars == <<pendingInterrupts, intmask, phase, level>>
vars == <<mfp, cpuVars, late, fired, snap>>

Levels == AutoLevels \cup {6}

(* intlev: the highest pending level, 0 for none. *)
intlev(p) == IF p = {} THEN 0 ELSE CHOOSE l \in p : \A k \in p : k <= l

IntlevKeepsLevel(p, m) == IF m.IRQ_CPU THEN p \cup {6} ELSE p     \* never cleared

(* M68000_Update_intlev (no DSP): level 6 follows the signal the CPU sees. *)
M68000_Update_intlev(p, m) == IF m.IRQ_CPU THEN p \cup {6} ELSE p \ {6}

Init ==
  /\ mfp = MFP_Reset(FALSE)
  /\ pendingInterrupts = {} /\ intmask = 7
  /\ phase = "instr" /\ level = 0 /\ late = 0 /\ fired = {}
  /\ snap = NoSnapshot

-----------------------------------------------------------------------------
(* Phase "instr".  The program runs an instruction of n units that leaves  *)
(* the MFP in state m; times are those at its end.                         *)
Execute(n, m) ==
  /\ phase = "instr"
  /\ phase' = "events"
  /\ mfp' = m
  /\ late' = n /\ fired' = {}
  /\ UNCHANGED <<pendingInterrupts, level, snap>>

Aged(n) == PassTime(mfp, n)

OtherInstruction(n) == Execute(n, Aged(n)) /\ UNCHANGED intmask

WriteSR(n, l) == Execute(n, Aged(n)) /\ intmask' = l

WriteIER(n, half, v, t) ==
  Execute(n, MFP_Enable_WriteByte(Aged(n), half, v, t)) /\ UNCHANGED intmask

WriteIPR(n, half, v, t) ==
  Execute(n, MFP_Pending_WriteByte(Aged(n), half, v, t)) /\ UNCHANGED intmask

WriteISR(n, half, v, t) ==
  Execute(n, MFP_InService_WriteByte(Aged(n), half, v, t)) /\ UNCHANGED intmask

WriteIMR(n, half, v, t) ==
  Execute(n, MFP_Mask_WriteByte(Aged(n), half, v, t)) /\ UNCHANGED intmask

WriteVR(n, sei, t) ==
  Execute(n, MFP_VectorReg_WriteByte(Aged(n), sei, t)) /\ UNCHANGED intmask

(* The clock is that of the start of the instruction when these are called. *)
WriteGPIP(n, v) ==
  WithEdges /\ Execute(n, MFP_GPIP_WriteByte(Aged(n), v, n)) /\ UNCHANGED intmask

WriteAER(n, v) ==
  WithEdges /\ Execute(n, MFP_ActiveEdge_WriteByte(Aged(n), v, n)) /\ UNCHANGED intmask

WriteDDR(n, v) ==
  WithEdges /\ Execute(n, MFP_DataDirection_WriteByte(Aged(n), v, n)) /\ UNCHANGED intmask

(* An access to a device that changes the line the device drives. *)
AccessDevice(n, l, high) ==
  WithEdges /\ Execute(n, MFP_GPIP_Set_Line_Input(Aged(n), l, high, n)) /\ UNCHANGED intmask

ReadGPIP(n, hs) ==
  Execute(n, MFP_GPIP_ReadByte(Aged(n), PolledLines, hs)) /\ UNCHANGED intmask

(* The RESET instruction (customreset). *)
ResetInstruction(n) ==
  /\ phase = "instr"
  /\ phase' = "events"
  /\ mfp' = MFP_Reset(mfp.SPCFLAG_MFP)
  /\ pendingInterrupts' = {}
  /\ late' = n /\ fired' = {}
  /\ UNCHANGED <<intmask, level, snap>>

-----------------------------------------------------------------------------
(* Phases "events" and "iack": handlers of due events.  A timer or the     *)
(* USART raises its channel once, since a handler rearms a timer for a     *)
(* time that is not past yet.                                              *)
Handling == phase \in {"events", "iack"}

ChannelInput(c, delay) ==
  /\ Handling
  /\ c \notin fired
  /\ mfp' = MFP_InputOnChannel(mfp, c, delay)
  /\ fired' = fired \cup {c}
  /\ UNCHANGED <<cpuVars, late, snap>>

LineInput(l, high) ==
  /\ Handling
  /\ mfp' = MFP_GPIP_Set_Line_Input(mfp, l, high, 0)
  /\ UNCHANGED <<cpuVars, late, fired, snap>>

(* The HBL and VBL handlers call M68000_Exception. *)
VideoInterrupt(l) ==
  /\ Handling
  /\ pendingInterrupts' = M68000_Update_intlev(pendingInterrupts \cup {l}, mfp)
  /\ UNCHANGED <<mfp, intmask, phase, level, late, fired, snap>>

(* The handlers are done: MFP_UpdateIRQ, then do_specialties. *)
DoSpecialties ==
  LET u == UpdateIfNeeded(mfp)
      d == MFP_DelayIRQ(u)
  IN  /\ phase = "events"
      /\ phase' = "check"
      /\ IF u.SPCFLAG_MFP
         THEN mfp' = d /\ pendingInterrupts' = M68000_Update_intlev(pendingInterrupts, d)
         ELSE mfp' = u /\ UNCHANGED pendingInterrupts
      /\ UNCHANGED <<intmask, level, late, fired, snap>>

(* do_interrupt: the exception starts, its cycles before IACK pass. *)
StartException ==
  /\ phase = "check"
  /\ intlev(pendingInterrupts) > intmask
  /\ phase' = "iack"
  /\ level' = intlev(pendingInterrupts)
  /\ mfp' = PassTime(mfp, IackLength)
  /\ late' = IackLength /\ fired' = {}
  /\ UNCHANGED <<pendingInterrupts, intmask, snap>>

NextInstruction ==
  /\ phase = "check"
  /\ intlev(pendingInterrupts) <= intmask
  /\ phase' = "instr"
  /\ late' = 0 /\ fired' = {}
  /\ UNCHANGED <<mfp, pendingInterrupts, intmask, level, snap>>

(* The end of iack_cycle; do_interrupt then looks for another interrupt. *)
AcknowledgeMFP ==
  /\ phase = "iack" /\ level = 6
  /\ mfp' = MFP_ProcessIACK(mfp)
  /\ pendingInterrupts' = pendingInterrupts \ {6}
  /\ intmask' = 6
  /\ phase' = "check" /\ level' = 0
  /\ UNCHANGED <<late, fired, snap>>

AcknowledgeVideo ==
  /\ phase = "iack" /\ level \in AutoLevels
  /\ mfp' = UpdateIfNeeded(mfp)
  /\ pendingInterrupts' = pendingInterrupts \ {level}
  /\ intmask' = level
  /\ phase' = "check" /\ level' = 0
  /\ UNCHANGED <<late, fired, snap>>

-----------------------------------------------------------------------------
(* The user resets the machine, or saves or restores a snapshot.  The user *)
(* interface runs inside an event handler: that of the IKBD (Main_Event-   *)
(* Handler, with remote commands or while paused) or that of the VBL.      *)
(* M68000_Reset clears the special flags and masks all levels, and leaves  *)
(* pendingInterrupts alone.                                                *)
ResetMachine ==
  /\ WithReset
  /\ phase = "events"
  /\ mfp' = MFP_Reset(FALSE)
  /\ intmask' = 7
  /\ fired' = Channels
  /\ UNCHANGED <<pendingInterrupts, phase, level, late, snap>>

SaveSnapshot ==
  /\ intmask \in SnapshotLevels
  /\ phase = "events"
  /\ snap' = [mfp |-> mfp, intmask |-> intmask, late |-> late, fired |-> fired]
  /\ UNCHANGED <<mfp, cpuVars, late, fired>>

(* MemorySnapShot_Restore: a cold reset, then the saved variables.  The    *)
(* special flags and pendingInterrupts are not among them.                 *)
RestoreSnapshot ==
  /\ phase = "events"
  /\ snap # NoSnapshot
  /\ mfp' = [snap.mfp EXCEPT !.SPCFLAG_MFP = FALSE]
  /\ intmask' = snap.intmask
  /\ late' = snap.late /\ fired' = snap.fired
  /\ UNCHANGED <<pendingInterrupts, phase, level, snap>>

-----------------------------------------------------------------------------
Halves == {HalfA, HalfB} \ {{}}

Instruction ==
  \E n \in InstrLengths :
    \/ OtherInstruction(n)
    \/ \E l \in IntMasks : WriteSR(n, l)
    \/ \E t \in 0 .. n :
         \/ \E half \in Halves, v \in RegisterValues :
              \/ WriteIER(n, half, v, t)
              \/ WriteIPR(n, half, v, t)
              \/ WriteISR(n, half, v, t)
              \/ WriteIMR(n, half, v, t)
         \/ \E sei \in SeiModes : WriteVR(n, sei, t)
    \/ \E v \in SUBSET Lines : WriteGPIP(n, v) \/ WriteAER(n, v) \/ WriteDDR(n, v)
    \/ \E l \in Lines, high \in BOOLEAN : AccessDevice(n, l, high)
    \/ \E hs \in SUBSET PolledLines : ReadGPIP(n, hs)
    \/ ResetInstruction(n)

Device ==
  \/ \E c \in Channels \ Lines, delay \in 0 .. late : ChannelInput(c, delay)
  \/ \E l \in Lines, high \in BOOLEAN : LineInput(l, high)
  \/ \E l \in AutoLevels : VideoInterrupt(l)

CpuLoop ==
  \/ DoSpecialties
  \/ StartException
  \/ NextInstruction
  \/ AcknowledgeMFP
  \/ AcknowledgeVideo

User == ResetMachine \/ SaveSnapshot \/ RestoreSnapshot

Next == Instruction \/ Device \/ CpuLoop \/ User

(* The CPU loop keeps running: after an instruction it goes through the    *)
(* due handlers, which are finitely many, and starts the next one.         *)
Fairness == WF_vars(CpuLoop) /\ WF_vars(Instruction)

Spec == Init /\ [][Next]_vars /\ Fairness

-----------------------------------------------------------------------------
(* The types of the variables. *)
TypeOK ==
  /\ mfp \in MFPState
  /\ pendingInterrupts \subseteq Levels
  /\ intmask \in 0 .. 7
  /\ phase \in {"instr", "events", "check", "iack"}
  /\ level \in Levels \cup {0}
  /\ late \in 0 .. MaxAge
  /\ fired \subseteq Channels

Deliverable(m, c) == c \in m.IPR \cap m.IMR /\ Unblocked(m, c)

(* A disabled channel is never pending, and whenever the MFP asserts IRQ,  *)
(* its current interrupt is pending, not masked and not blocked by an      *)
(* interrupt in service: every function that changes IERx, IPRx, ISRx or   *)
(* IMRx leaves IRQ in agreement with them (mfp.c, MFP_UpdateIRQ).          *)
IrqJustified ==
  /\ mfp.IPR \subseteq mfp.IER
  /\ mfp.IRQ => Deliverable(mfp, mfp.Current_Interrupt)

(* The CPU is never told of an interrupt that is not there: a level 6      *)
(* exception starts, and reaches its IACK, only while the MFP has an       *)
(* interrupt to deliver (iack_cycle, newcpu.c, has no code for a spurious  *)
(* interrupt).                                                             *)
NoSpuriousInterrupt ==
  phase = "iack" /\ level = 6 => mfp.IRQ

(* Between instructions the request of the MFP is on its way to the CPU:   *)
(* either level 6 is pending or MFP_DelayIRQ will look at it again, and a  *)
(* level 6 without a request is never left behind (the 4 cycle delay must  *)
(* not lose a request).                                                    *)
RequestReachesCpu ==
  phase = "instr" =>
    /\ mfp.IRQ => 6 \in pendingInterrupts \/ mfp.SPCFLAG_MFP
    /\ 6 \in pendingInterrupts => mfp.IRQ

(* Nothing but priorities and the mask keeps an interrupt waiting: with no *)
(* interrupt in service, a pending and unmasked channel asserts IRQ        *)
(* between two instructions, whatever the order in which the inputs of one *)
(* instruction came and the ages Pending_Time_Min compares.                *)
NoRequestOverlooked ==
  phase = "instr" /\ mfp.ISR = {} /\ mfp.IPR \cap mfp.IMR # {} => mfp.IRQ

(* Interrupts nest by priority: in-service bits appear only by the         *)
(* acknowledge of a channel that was pending and above all those in        *)
(* service, and its pending bit goes away in the same step.                *)
ServiceNests ==
  [][\A c \in mfp'.ISR \ mfp.ISR :
       /\ c \in mfp.IPR \cap mfp.IMR /\ c \notin mfp'.IPR
       /\ \A j \in mfp.ISR : j < c
       /\ mfp'.ISR = mfp.ISR \cup {c}]_vars

(* Every pending bit is cleared by its own acknowledge or by the program:  *)
(* device events, the CPU loop and the acknowledge of another channel or   *)
(* level never lose an interrupt that is already pending.  The acknowledge *)
(* takes one that is unmasked and above all in service, and puts it into   *)
(* service there and then when the program asked for that (SEI).           *)
PendingKept ==
  [][phase # "instr" =>
       \/ mfp.IPR \subseteq mfp'.IPR
       \/ /\ phase = "iack" /\ level = 6
          /\ \E c \in mfp.IPR : /\ Deliverable(mfp, c) /\ mfp'.IPR = mfp.IPR \ {c}
                                /\ mfp.SEI => c \in mfp'.ISR]_vars

(* The pending bit of an enabled GPIP line rises exactly with an active    *)
(* edge of the line while it is an input, be it the device, the AER or the *)
(* GPIP that changes (MFP_GPIP_Update_Interrupt).  A read of GPIP, which   *)
(* refreshes lines and looks for no edge, is excepted, and so is the jump  *)
(* to a restored snapshot.                                                 *)
Refresh == \E n \in InstrLengths, hs \in SUBSET PolledLines : ReadGPIP(n, hs)
EdgesExactly ==
  [][\A l \in Lines \cap mfp'.IER \cap mfp.IER :
       ~RestoreSnapshot /\ ~Refresh =>
       LET edge == ~ActiveLevel(mfp, l) /\ ActiveLevel(mfp', l) /\ l \notin mfp'.DDR
       IN  (edge => l \in mfp'.IPR) /\ (l \in mfp'.IPR \ mfp.IPR => edge)]_vars

(* A request of the MFP is served or withdrawn, if the program lets level  *)
(* 6 through again and again.                                              *)
RequestServed ==
  []<>(phase = "check" /\ intmask < 6)
    => (mfp.IRQ ~> (~mfp.IRQ \/ (phase = "iack" /\ level = 6)))
=============================================================================
