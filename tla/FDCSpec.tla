------------------------------ MODULE FDCSpec ------------------------------
(***************************************************************************)
(* The controller of module FDC with the program that uses its registers,  *)
(* a hard disk on the same DMA and interrupt line, the user who changes    *)
(* disks and resets the machine, and the rotation of the disk.             *)
(*                                                                         *)
(* The loop of the interrupt handler is one step per pass; nothing else    *)
(* runs in between.  After Reset_ST the CPU is at the start of the ROM,    *)
(* whose first instruction that concerns the controller is RESET.          *)
(***************************************************************************)
EXTENDS FDC

CONSTANTS
  Commands,      \* the values written to the command register
  Values,        \* the values written to TR, SR and DR
  Counts,        \* the values written to the DMA sector count
  Budget         \* bound: actions of the program and the user

ASSUME ProgramAssumption ==
  /\ Commands \subseteq CommandRegister /\ Values \subseteq Register
  /\ Counts \subseteq Nat /\ Budget \in Nat

VARIABLES
  fdc,     \* the controller, the DMA and the drives
  phase,   \* "cpu", "handler" in the loop of the handler, "rom" after a reset
  spent,   \* what is used of the budget
  calm     \* a search goes on and nobody has changed what it looks for

vars == <<fdc, phase, spent, calm>>

(* The types of the variables. *)
TypeOK ==
  /\ fdc \in State
  /\ phase \in {"cpu", "handler", "rom"}
  /\ spent \in 0 .. Budget
  /\ calm \in BOOLEAN

(* FDC_Init and the first Reset_ST, with or without a disk in each drive.  *)
Blank ==
  [ TR |-> 0, SR |-> 0, DR |-> 0, StepDirection |-> 1, DriveSel |-> NoDrive, STR |-> {},
    CR |-> [cmd |-> "RESTORE", spin |-> TRUE, delay |-> FALSE, multi |-> FALSE, cond |-> {}],
    IRQ |-> {}, Command |-> "NULL", CommandState |-> "NULL", CommandType |-> 0,
    Replace |-> FALSE, Cond |-> {}, IndexPulse_Counter |-> 0, NextTR |-> 0, NextSR |-> 0,
    drives |-> [d \in Drives |-> [inserted |-> FALSE, protected |-> FALSE,
                                  HeadTrack |-> 0, timed |-> FALSE]],
    pos |-> 0, pulse |-> FALSE, SectorCount |-> 0, BytesInSector |-> 0, FIFO_Size |-> 0,
    BytesToTransfer |-> 0, Buffer |-> 0, writeMode |-> FALSE, room |-> 0,
    line |-> "HIGH", timer |-> OFF ]

Init ==
  /\ \E ins, prot \in [Drives -> BOOLEAN] :
       /\ \A d \in Drives : prot[d] => ins[d]
       /\ fdc = FDC_Reset(MFP_Reset(
            [Blank EXCEPT !.drives = [d \in Drives |-> [Blank.drives[d] EXCEPT
                             !.inserted = ins[d], !.protected = prot[d]]]]), TRUE)
  /\ phase = "rom"
  /\ spent = 0
  /\ calm = FALSE

-----------------------------------------------------------------------------
(* What a step draws: the position of a disk whose position is not known,  *)
(* what lies before the tables of drives when no drive is selected, and    *)
(* the byte that READ ADDRESS finds in an empty buffer.                    *)
Pos == 0 .. Sectors
DrawnPos == IF Timed(fdc) THEN {fdc.pos} ELSE Pos
DrawnEntry == IF Selected(fdc) THEN {FALSE} ELSE BOOLEAN
DrawnByte == IF fdc.Command = "READADDRESS" THEN Register ELSE {fdc.SR}

(* The program, between two handlers. *)
Spend == spent < Budget /\ spent' = spent + 1
Program == phase = "cpu" /\ Spend /\ UNCHANGED phase
Access(p) == FDC_IndexPulse_Update(fdc, p)

WriteCommand(cr, p) ==
  /\ Program
  /\ fdc' = FDC_WriteCommandRegister(Access(p), cr)
  /\ calm' = (calm /\ ~Accepts(fdc, cr))

WriteTrack(v, p) ==
  Program /\ fdc' = FDC_WriteTrackRegister(Access(p), v) /\ calm' = FALSE
WriteSector(v, p) ==
  Program /\ fdc' = FDC_WriteSectorRegister(Access(p), v) /\ calm' = FALSE
WriteData(v, p) ==
  Program /\ fdc' = FDC_WriteDataRegister(Access(p), v) /\ UNCHANGED calm
WriteCount(n) ==
  Program /\ fdc' = FDC_WriteSectorCountRegister(fdc, n) /\ UNCHANGED calm
WriteMode ==
  /\ Program
  /\ fdc' = FDC_DmaModeControl_WriteWord(fdc, ~fdc.writeMode)
  /\ UNCHANGED calm
SelectDrive(d, p) ==
  Program /\ d # fdc.DriveSel /\ fdc' = FDC_SetDriveSide(fdc, d, p) /\ calm' = FALSE

(* Reading the status costs nothing of the budget. *)
ReadStatusRegister(p) ==
  phase = "cpu" /\ fdc' = ReadStatus(Access(p)) /\ UNCHANGED <<phase, spent, calm>>

(* The hard disk: a command byte, and its acknowledgement. *)
HardDiskCommand ==
  Program /\ fdc' = FDC_ClearHdcIRQ(fdc) /\ UNCHANGED calm
HardDiskReady ==
  Program /\ fdc' = FDC_SetIRQ(FDC_ClearHdcIRQ(fdc), "HDC") /\ UNCHANGED calm

(* RESET, which every ROM executes first. *)
ResetInstruction ==
  /\ phase = "rom" \/ (phase = "cpu" /\ spent < Budget)
  /\ spent' = IF phase = "rom" THEN spent ELSE spent + 1
  /\ fdc' = FDC_Reset(MFP_Reset(fdc), FALSE)
  /\ phase' = "cpu"
  /\ calm' = FALSE

(* The user. *)
InsertFloppy(d, prot, p) ==
  /\ Program
  /\ ~fdc.drives[d].inserted
  /\ fdc' = FDC_InsertFloppy(fdc, d, prot, p)
  /\ calm' = FALSE
EjectFloppy(d) ==
  Program /\ fdc.drives[d].inserted /\ fdc' = FDC_EjectFloppy(fdc, d) /\ calm' = FALSE

Reset_ST(cold) ==
  /\ phase # "handler"
  /\ Spend
  /\ LET s == MFP_Reset(CycInt_Reset(fdc)) IN
     fdc' = IF cold THEN FDC_Reset(s, TRUE) ELSE s
  /\ phase' = "rom"
  /\ calm' = FALSE

-----------------------------------------------------------------------------
(* The handler runs when the timer expires, and once more as long as the   *)
(* state changes immediately.                                              *)
Expires == fdc.timer = SOON \/ (fdc.timer > 0 /\ fdc.pos = fdc.timer)

Searches(s) == s.Command \in TypeII /\ s.CommandState \in {"NEXT_HEADER", "CHECK_HEADER"}

InterruptHandler_Update(p, out, old) ==
  /\ phase = "handler" \/ (phase = "cpu" /\ Expires)
  /\ fdc' = UpdatePass(fdc, p, out, old)
  /\ phase' = IF fdc'.Command # "NULL" /\ fdc'.timer = OFF THEN "handler" ELSE "cpu"
  /\ calm' = IF Searches(fdc) THEN calm ELSE Searches(fdc') /\ DriveReady(fdc')
  /\ UNCHANGED spent

Handler ==
  \E p \in DrawnPos, out \in DrawnEntry, old \in DrawnByte : InterruptHandler_Update(p, out, old)

(* The disk turns while a position is known.  No timer is longer than a    *)
(* revolution, so an index pulse is noticed before the next one, and a     *)
(* header is not passed by while the controller waits for it.              *)
Rotate ==
  /\ phase = "cpu"
  /\ Timed(fdc)
  /\ fdc.timer > 0 => fdc.pos # fdc.timer
  /\ fdc.pulse => fdc.pos # Sectors
  /\ fdc' = Turn(fdc)
  /\ UNCHANGED <<phase, spent, calm>>

Registers ==
  \/ \E p \in DrawnPos :
       \/ \E cr \in Commands : WriteCommand(cr, p)
       \/ \E v \in Values : WriteTrack(v, p) \/ WriteSector(v, p) \/ WriteData(v, p)
       \/ ReadStatusRegister(p)
  \/ \E d \in Drives \cup {NoDrive}, p \in Pos : SelectDrive(d, p)
DMA == (\E n \in Counts : WriteCount(n)) \/ WriteMode
HardDisk == HardDiskCommand \/ HardDiskReady
User ==
  \/ \E d \in Drives, prot \in BOOLEAN, p \in Pos : InsertFloppy(d, prot, p)
  \/ \E d \in Drives : EjectFloppy(d)
  \/ \E cold \in BOOLEAN : Reset_ST(cold)

Next == Registers \/ DMA \/ HardDisk \/ ResetInstruction \/ User \/ Handler \/ Rotate

(* Emulated time passes: the handler runs when its time has come, a disk   *)
(* turns, and the ROM executes RESET.                                      *)
Fairness ==
  /\ WF_vars(Handler)
  /\ WF_vars(Rotate)
  /\ WF_vars(phase = "rom" /\ ResetInstruction)

Spec == Init /\ [][Next]_vars /\ Fairness

-----------------------------------------------------------------------------
(* Properties. *)

(* The request line of the MFP is low while the controller or the hard     *)
(* disk requests an interrupt, and released with the last request; only    *)
(* after a reset of the machine, whose MFP_Reset pulls every line low, it  *)
(* stays low until the status is read or a command is started.             *)
IrqOnLine ==
  /\ fdc.IRQ # {} => fdc.line = "LOW"
  /\ fdc.line = "LOW" /\ fdc.IRQ = {} => fdc.CommandType = 0 \/ phase = "rom"

(* The MFP reacts to edges.  The end of a command makes one, unless a      *)
(* request is on the line that the program has not cleared.                *)
CompletionSeen ==
  [][ "COMPLETE" \in fdc'.IRQ \ fdc.IRQ
        => (fdc.line = "HIGH" /\ fdc'.line = "LOW") \/ fdc.IRQ # {} ]_vars

(* A controller that is busy, or whose motor is on, is driven by a command *)
(* with a running timer: no order of commands, resets and changes of disks *)
(* leaves BUSY or the motor on with nothing to end it.                     *)
NothingForgotten ==
  phase # "rom" =>
    /\ "BUSY" \in fdc.STR <=> fdc.Command \notin {"NULL", "MOTOR_STOP"}
    /\ "MOTOR_ON" \in fdc.STR => fdc.Command # "NULL"
    /\ fdc.Command # "NULL" => fdc.timer # OFF \/ phase = "handler"
    /\ fdc.timer > 0 => Timed(fdc)

(* The DMA stores no more than the sectors it was programmed for, however  *)
(* many the command reads from the disk.                                   *)
DmaStopsAtCount == fdc.room >= 0

(* A search that nobody disturbs reports "record not found" only if the    *)
(* track under the head has no such sector.                                *)
SectorExists(s) == Head(s) < Tracks /\ s.TR = Head(s) /\ s.SR \in 1 .. Sectors
SectorFound ==
  [][ calm /\ Searches(fdc) /\ fdc'.CommandState = "RNF" => ~SectorExists(fdc) ]_vars

(* The loop of the handler, which runs while the state changes at once,    *)
(* ends each time.                                                         *)
HandlerReturns == []<>(phase # "handler")

(* With a disk in the selected drive every command ends, except the write  *)
(* of a sector on a track without headers.                                 *)
WriteBeyondDisk(s) == s.Command = "WRITESECTORS" /\ Head(s) >= Tracks
CommandEnds ==
  <>[](DriveReady(fdc) /\ ~WriteBeyondDisk(fdc)) => []<>("BUSY" \notin fdc.STR)

(* "If we're looking for sector FDC.SR for more than 5 revolutions, we     *)
(* abort with RNF" (fdc.c:2711): so that the write of a sector ends too.   *)
WriteEnds == <>[]DriveReady(fdc) => []<>(fdc.Command # "WRITESECTORS")
=============================================================================
