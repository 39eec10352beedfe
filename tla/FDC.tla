-------------------------------- MODULE FDC --------------------------------
(***************************************************************************)
(* The floppy disk controller (WD1772) and its DMA, src/src/fdc.c, for     *)
(* disk images of type ST, MSA and DIM.                                    *)
(*                                                                         *)
(* Every operator takes the state of the machine, a record, and gives the  *)
(* next one.  Data are abstracted: a byte that moves is a count, the       *)
(* status register has the bits the properties need (BUSY, MOTOR_ON, RNF), *)
(* a disk is a number of tracks of sectors 1 .. Sectors with one side, and *)
(* a drive is always enabled.                                              *)
(*                                                                         *)
(* Time is the rotation of the disk: "pos" is the number of sector headers *)
(* that went by since the index pulse, "pulse" an index pulse that         *)
(* FDC_IndexPulse_Update has not noticed.  The timer INTERRUPT_FDC is OFF, *)
(* SOON (it expires at any time) or h > 0 (it expires when header h has    *)
(* been read).                                                             *)
(***************************************************************************)
EXTENDS Integers, FiniteSetsExt

CONSTANTS
  Drives,       \* the drives, 0 and 1 in the ST
  Sectors,      \* sectors of a track
  Tracks,       \* tracks of a disk
  MaxTrack,     \* FDC_PHYSICAL_MAX_TRACK, where the head stops
  RegMax,       \* the largest value of TR, SR and DR, 255 in the WD1772
  SectorBytes,  \* FDC_DMA_SECTOR_SIZE
  FifoBytes,    \* FDC_DMA_FIFO_SIZE
  IdBytes,      \* the bytes of an ID field
  TrackBytes,   \* the bytes of a track
  SpinUpIP, MotorOffIP, AddressIP   \* FDC_DELAY_IP_..., in index pulses

ASSUME DiskAssumption ==
  /\ Drives \subseteq Nat /\ Sectors \in Nat \ {0} /\ Tracks \in 1 .. MaxTrack
  /\ MaxTrack < RegMax /\ Sectors < RegMax
ASSUME BytesAssumption ==
  /\ FifoBytes \in Nat \ {0} /\ SectorBytes \in Nat /\ SectorBytes % FifoBytes = 0
  /\ SectorBytes > FifoBytes /\ IdBytes \in Nat \ {0} /\ TrackBytes \in Nat \ {0}
ASSUME PulseAssumption == {SpinUpIP, MotorOffIP, AddressIP} \subseteq Nat \ {0}

OFF == -1
SOON == 0
NoDrive == -1

Register == 0 .. RegMax
Wrap(n) == n % (RegMax + 1)

(* The counter of index pulses is compared with these limits only. *)
MaxPulses == Max({SpinUpIP, MotorOffIP, AddressIP})

TypeI == {"RESTORE", "SEEK", "STEP", "STEPIN", "STEPOUT"}
TypeII == {"READSECTORS", "WRITESECTORS"}
TypeIII == {"READADDRESS", "READTRACK", "WRITETRACK"}

(* FDC_GetCmdType *)
FDC_GetCmdType(cr) == CASE cr.cmd \in TypeI -> 1 [] cr.cmd \in TypeII -> 2
                        [] cr.cmd \in TypeIII -> 3 [] OTHER -> 4

(* The command register: spin is bit 3 clear, delay bit 2 (verify, head    *)
(* load), multi bit 4 (several sectors, update of TR), cond the condition  *)
(* of a forced interrupt.                                                  *)
CommandRegister ==
  [ cmd : TypeI \cup TypeII \cup TypeIII \cup {"FORCE"}, spin : BOOLEAN, delay : BOOLEAN,
    multi : BOOLEAN, cond : SUBSET {"IP", "IMMEDIATE"} ]

Drive == [ inserted : BOOLEAN, protected : BOOLEAN, HeadTrack : 0 .. MaxTrack,
           timed : BOOLEAN ]    \* IndexPulse_Time # 0

State ==
  [ TR : Register, SR : Register, DR : Register, CR : CommandRegister,
    STR : SUBSET {"BUSY", "MOTOR_ON", "RNF"}, StepDirection : {-1, 1},
    DriveSel : Drives \cup {NoDrive}, IRQ : SUBSET {"COMPLETE", "INDEX", "FORCED", "HDC"},
    Command : {"NULL", "RESTORE", "SEEK", "STEP", "MOTOR_STOP"} \cup TypeII \cup TypeIII,
    CommandState : { "NULL", "START", "SPIN_UP", "HEAD_LOAD", "MOTOR_ON", "LOOP", "VERIFY",
                     "HEAD_OK", "NEXT_HEADER", "CHECK_HEADER", "TRANSFER_START", "INDEX",
                     "TRANSFER_LOOP", "CRC", "MULTI", "RNF", "COMPLETE", "STOP", "STOP_WAIT" },
    CommandType : 0 .. 4, Replace : BOOLEAN, Cond : SUBSET {"IP", "IMMEDIATE"},
    IndexPulse_Counter : 0 .. MaxPulses, NextTR : Register, NextSR : 0 .. Sectors,
    drives : [Drives -> Drive], pos : 0 .. Sectors, pulse : BOOLEAN,
    SectorCount : Nat, BytesInSector : Int, FIFO_Size : 0 .. FifoBytes - 1,
    BytesToTransfer : Int, Buffer : Nat, writeMode : BOOLEAN, room : Int,
    line : {"HIGH", "LOW"}, timer : {OFF, SOON} \cup 1 .. Sectors ]

-----------------------------------------------------------------------------
(* Drives and their index pulses. *)

Selected(s) == s.DriveSel # NoDrive
Head(s) == s.drives[s.DriveSel].HeadTrack
DriveReady(s) == Selected(s) /\ s.drives[s.DriveSel].inserted
Timed(s) == Selected(s) /\ s.drives[s.DriveSel].timed

(* The position of drive d is set to p, or forgotten. A timer that waits   *)
(* for a header now expires at any time.                                   *)
SetPosition(s, d, known, p) ==
  LET t == [s EXCEPT !.drives[d].timed = known] IN
  IF d # s.DriveSel THEN t
  ELSE [t EXCEPT !.pos = p, !.pulse = FALSE, !.timer = IF @ > 0 THEN SOON ELSE @]

FDC_IndexPulse_Init(s, d, p) == SetPosition(s, d, TRUE, p)
ForgetPosition(s, d) == SetPosition(s, d, FALSE, 0)

(* FDC_SetIRQ: the request line of the MFP is driven low once. *)
FDC_SetIRQ(s, source) ==
  [s EXCEPT !.line = IF s.IRQ = {} THEN "LOW" ELSE @,
            !.IRQ = IF source = "HDC" THEN {"HDC"} ELSE (@ \ {"HDC"}) \cup {source}]

ClearKeepsLine(s) == [s EXCEPT !.IRQ = @ \cap {"FORCED"}]   \* the line is not released

FDC_ClearIRQ(s) ==
  IF "FORCED" \in s.IRQ THEN [s EXCEPT !.IRQ = {"FORCED"}]
  ELSE [s EXCEPT !.IRQ = {}, !.line = "HIGH"]

ClearHdcReleases(s) == [s EXCEPT !.IRQ = @ \ {"HDC"}, !.line = "HIGH"]   \* always

FDC_ClearHdcIRQ(s) ==
  [s EXCEPT !.IRQ = @ \ {"HDC"}, !.line = IF s.IRQ \subseteq {"HDC"} THEN "HIGH" ELSE @]

FDC_IndexPulse_Update(s, p) ==
  IF "MOTOR_ON" \notin s.STR \/ ~DriveReady(s) THEN s
  ELSE IF ~Timed(s) THEN FDC_IndexPulse_Init(s, s.DriveSel, p)
  ELSE IF ~s.pulse THEN s
  ELSE LET t == [s EXCEPT !.pulse = FALSE,
                          !.IndexPulse_Counter = Min({@ + 1, MaxPulses})]
       IN IF "IP" \in s.Cond THEN FDC_SetIRQ(t, "INDEX") ELSE t

(* The disk turns until the next header, or the index pulse. *)
Turn(s) == [s EXCEPT !.pos = IF @ = Sectors THEN 0 ELSE @ + 1,
                     !.pulse = @ \/ s.pos = Sectors]

FDC_SetDriveSide(s, d, p) ==
  LET old == IF Selected(s) THEN ForgetPosition(s, s.DriveSel) ELSE s
      new == [old EXCEPT !.DriveSel = d]
  IN IF d = s.DriveSel THEN s
     ELSE IF d = NoDrive THEN new
     ELSE IF s.drives[d].inserted /\ "MOTOR_ON" \in s.STR THEN FDC_IndexPulse_Init(new, d, p)
     ELSE ForgetPosition(new, d)

FDC_InsertFloppy(s, d, protected, p) ==
  LET t == [s EXCEPT !.drives[d].inserted = TRUE, !.drives[d].protected = protected] IN
  IF "MOTOR_ON" \in s.STR THEN FDC_IndexPulse_Init(t, d, p) ELSE ForgetPosition(t, d)

FDC_EjectFloppy(s, d) == ForgetPosition([s EXCEPT !.drives[d].inserted = FALSE], d)

-----------------------------------------------------------------------------
(* The DMA. "room" is the part of the programmed sectors that has not been *)
(* filled by reads, which the code does not keep.                          *)

FDC_ResetDMA(s) ==
  [s EXCEPT !.FIFO_Size = 0, !.BytesInSector = SectorBytes, !.SectorCount = 0,
            !.BytesToTransfer = 0, !.room = 0]

(* FDC_DMA_FIFO_Push: a byte of the disk; a full FIFO is stored in memory. *)
CountReadLate(s) ==      \* the comparison of CountWrite
  LET left == s.BytesInSector - FifoBytes IN
  IF left < 0 THEN [s EXCEPT !.SectorCount = @ - 1, !.BytesInSector = SectorBytes]
  ELSE [s EXCEPT !.BytesInSector = left]

CountRead(s) ==
  LET left == s.BytesInSector - FifoBytes IN
  IF left <= 0 THEN [s EXCEPT !.SectorCount = @ - 1, !.BytesInSector = SectorBytes]
  ELSE [s EXCEPT !.BytesInSector = left]

FDC_DMA_FIFO_Push(s) ==
  IF s.SectorCount = 0 THEN s
  ELSE IF s.FIFO_Size + 1 < FifoBytes THEN [s EXCEPT !.FIFO_Size = @ + 1]
  ELSE CountRead([s EXCEPT !.FIFO_Size = 0, !.room = @ - FifoBytes])

(* FDC_DMA_FIFO_Pull: a byte for the disk; an empty FIFO is refilled from  *)
(* memory.  Unlike above, a count of 0 bytes left is not the next sector.  *)
CountWrite(s) ==
  LET left == s.BytesInSector - FifoBytes IN
  IF left < 0 THEN [s EXCEPT !.SectorCount = @ - 1, !.BytesInSector = SectorBytes]
  ELSE [s EXCEPT !.BytesInSector = left]

FDC_DMA_FIFO_Pull(s) ==
  IF s.SectorCount = 0 THEN s
  ELSE IF s.FIFO_Size > 0 THEN [s EXCEPT !.FIFO_Size = @ - 1]
  ELSE CountWrite([s EXCEPT !.FIFO_Size = FifoBytes - 1])

-----------------------------------------------------------------------------
(* The states of the commands.  A step ends in state st with a delay, OFF  *)
(* for an immediate change of state.                                       *)

At(s, st, delay) == [s EXCEPT !.CommandState = st, !.timer = delay]
Immediately(s, st) == At(s, st, OFF)
Later(s, st) == At(s, st, SOON)

FDC_CmdCompleteCommon(s, doInt) ==
  LET t == IF doInt THEN FDC_SetIRQ(s, "COMPLETE") ELSE s
  IN Immediately([t EXCEPT !.STR = @ \ {"BUSY"}, !.Command = "MOTOR_STOP"], "STOP")

NotFound(s) == [s EXCEPT !.STR = @ \cup {"RNF"}]

FDC_UpdateMotorStop(s) ==
  LET t == IF s.CommandState = "STOP" THEN [s EXCEPT !.IndexPulse_Counter = 0] ELSE s
      off == [t EXCEPT !.IndexPulse_Counter = 0, !.STR = @ \ {"MOTOR_ON"}, !.Command = "NULL",
                       !.CommandState = "NULL"]
  IN IF t.IndexPulse_Counter < MotorOffIP THEN Later(t, "STOP_WAIT")
     ELSE IF Selected(t) THEN ForgetPosition(off, t.DriveSel) ELSE off

FDC_Set_MotorON(s, p) ==
  LET t == [s EXCEPT !.STR = @ \cup {"MOTOR_ON"}] IN
  IF DriveReady(s) /\ ~Timed(s) THEN FDC_IndexPulse_Init(t, s.DriveSel, p) ELSE t

(* The first state of every command; next follows without spin-up. *)
StartMotor(s, next, p) ==
  LET t == FDC_Set_MotorON(s, p) IN
  IF s.CR.spin /\ "MOTOR_ON" \notin s.STR
  THEN Later([t EXCEPT !.IndexPulse_Counter = 0], "SPIN_UP")
  ELSE Immediately(t, next)

SpinningUp(s) == s.CommandState = "SPIN_UP" /\ s.IndexPulse_Counter < SpinUpIP
SpunUp(s) == s.CommandState \in {"SPIN_UP", "MOTOR_ON"} /\ ~SpinningUp(s)

(* FDC_NextSectorID_FdcCycles_ST: wait for the next header, if the current *)
(* track has any, then go on in state st.                                  *)
HeaderComes(s) == Timed(s) /\ Head(s) < Tracks

FDC_NextSectorID(s, st) ==
  LET h == IF s.pos < Sectors THEN s.pos + 1 ELSE 1
  IN At([s EXCEPT !.NextTR = Head(s), !.NextSR = h], st, h)

(* FDC_VerifyTrack *)
FDC_VerifyTrack(s) == DriveReady(s) /\ Head(s) = s.TR

(* The verification of a type I command. *)
VerifyNextHeader(s) ==
  IF s.IndexPulse_Counter >= AddressIP THEN Later(NotFound(s), "COMPLETE")
  ELSE IF HeaderComes(s) THEN FDC_NextSectorID(s, "CHECK_HEADER")
  ELSE Later(s, "NEXT_HEADER")

Verify(s) ==
  CASE s.CommandState = "VERIFY" -> Later(s, IF s.CR.delay THEN "HEAD_OK" ELSE "COMPLETE")
    [] s.CommandState = "HEAD_OK" -> VerifyNextHeader([s EXCEPT !.IndexPulse_Counter = 0])
    [] s.CommandState = "NEXT_HEADER" -> VerifyNextHeader(s)
    [] s.CommandState = "CHECK_HEADER" ->
         IF FDC_VerifyTrack(s) THEN Later([s EXCEPT !.STR = @ \ {"RNF"}], "COMPLETE")
         ELSE Immediately(s, "NEXT_HEADER")
    [] s.CommandState = "COMPLETE" -> FDC_CmdCompleteCommon(s, TRUE)

MoveHead(s, dir) == [s EXCEPT !.drives[s.DriveSel].HeadTrack = @ + dir]
AtEnd(s, dir) == Head(s) = (IF dir = 1 THEN MaxTrack ELSE 0)
NotReplaceable(s) == [s EXCEPT !.Replace = FALSE]

(* The head moves one track out until it is at track 0; TR counts the      *)
(* attempts.                                                               *)
RestoreLoop(s) ==
  IF s.TR = 0 THEN FDC_CmdCompleteCommon(NotFound(s), TRUE)
  ELSE IF Selected(s) /\ Head(s) = 0 THEN Immediately([s EXCEPT !.TR = 0], "VERIFY")
  ELSE LET t == [s EXCEPT !.TR = @ - 1] IN
       Later(IF Selected(s) THEN MoveHead(t, -1) ELSE t, "LOOP")

FDC_UpdateRestoreCmd(s, p) ==
  CASE s.CommandState = "START" -> StartMotor(s, "MOTOR_ON", p)
    [] SpinningUp(s) -> Later(s, "SPIN_UP")
    [] SpunUp(s) ->
         RestoreLoop([NotReplaceable(s) EXCEPT !.TR = RegMax])
    [] s.CommandState = "LOOP" -> RestoreLoop(s)
    [] OTHER -> Verify(s)

SeekTrack(s) ==
  LET dir == IF s.DR < s.TR THEN -1 ELSE 1
      t == [s EXCEPT !.StepDirection = dir, !.TR = Wrap(@ + dir)]
  IN IF s.TR = s.DR THEN Immediately(s, "VERIFY")
     ELSE IF ~Selected(s) THEN Later(t, s.CommandState)
     ELSE IF ~AtEnd(s, dir) THEN Later(MoveHead(t, dir), s.CommandState)
     ELSE Immediately(IF dir = -1 THEN [t EXCEPT !.TR = 0] ELSE t, "VERIFY")

FDC_UpdateSeekCmd(s, p) ==
  CASE s.CommandState = "START" -> StartMotor(s, "MOTOR_ON", p)
    [] SpinningUp(s) -> Later(s, "SPIN_UP")
    [] SpunUp(s) -> SeekTrack(NotReplaceable(s))
    [] OTHER -> Verify(s)

StepOnce(s) ==
  LET dir == s.StepDirection
      t == IF s.CR.multi THEN [s EXCEPT !.TR = Wrap(@ + dir)] ELSE s
  IN IF ~Selected(s) THEN Later(t, "VERIFY")
     ELSE IF AtEnd(s, dir) THEN Immediately(t, "VERIFY")
     ELSE Later(MoveHead(t, dir), "VERIFY")

FDC_UpdateStepCmd(s, p) ==
  CASE s.CommandState = "START" -> StartMotor(s, "MOTOR_ON", p)
    [] SpinningUp(s) -> Later(s, "SPIN_UP")
    [] SpunUp(s) -> StepOnce(NotReplaceable(s))
    [] OTHER -> Verify(s)

-----------------------------------------------------------------------------
(* Commands of types II and III.  Without a selected drive the code reads  *)
(* before its tables of drives: "out" is what the build finds there.       *)

(* The head is loaded, then the command goes on in state MOTOR_ON, at once *)
(* (s is returned in that state) if no delay is asked for.                 *)
NoSpinUpLeft(s) == s.CommandState \in {"SPIN_UP", "HEAD_LOAD"} /\ ~SpinningUp(s)
HeadLoading(s) == NoSpinUpLeft(s) /\ s.CR.delay
HeadLoaded(s) == NoSpinUpLeft(s) /\ ~s.CR.delay

ResetSearchKeepsCounter(s) == NotReplaceable(s)

ResetSearch(s) == [NotReplaceable(s) EXCEPT !.IndexPulse_Counter = 0]

SectorFits(s) == s.NextTR = s.TR /\ s.NextSR = s.SR
CheckHeader(s, out) ==
  IF IF Selected(s) THEN SectorFits(s) ELSE out THEN Later(s, "TRANSFER_START")
  ELSE Immediately(s, "NEXT_HEADER")

(* Floppy_ReadSectors and Floppy_WriteSectors: one sector of the image.    *)
SectorInImage(s, out) ==
  IF Selected(s) THEN /\ s.drives[s.DriveSel].inserted
                      /\ Head(s) < Tracks /\ s.SR \in 1 .. Sectors
  ELSE out

NextSector(s) ==
  IF s.CR.multi THEN Immediately([s EXCEPT !.SR = Wrap(@ + 1)], "MOTOR_ON")
  ELSE Later(s, "COMPLETE")

Ended(s) == FDC_CmdCompleteCommon(IF s.CommandState = "RNF" THEN NotFound(s) ELSE s, TRUE)

(* A byte of the buffer goes to the DMA; state "last" follows the last.    *)
TransferRead(s, last) ==
  LET t == [FDC_DMA_FIFO_Push(s) EXCEPT !.Buffer = Max({@ - 1, 0})]
  IN Later(t, IF t.Buffer > 0 THEN "TRANSFER_LOOP" ELSE last)

(* A byte of the DMA goes to the buffer; t follows the last. *)
TransferWrite(s, t) ==
  IF s.BytesToTransfer > 0
  THEN Later([FDC_DMA_FIFO_Pull(s) EXCEPT !.Buffer = @ + 1, !.BytesToTransfer = @ - 1],
             "TRANSFER_LOOP")
  ELSE [t EXCEPT !.BytesToTransfer = @ - 1]

StartWrite(s, n) ==
  Immediately([s EXCEPT !.Buffer = 0, !.BytesToTransfer = n], "TRANSFER_LOOP")

SearchUnlimited(s) ==     \* no limit of revolutions
  IF HeaderComes(s) THEN FDC_NextSectorID(s, "CHECK_HEADER") ELSE Later(s, s.CommandState)

SearchAtOnce(s) ==        \* no delay while there is no header
  IF s.IndexPulse_Counter >= AddressIP THEN Immediately(s, "RNF")
  ELSE IF HeaderComes(s) THEN FDC_NextSectorID(s, "CHECK_HEADER")
  ELSE Immediately(s, s.CommandState)

SearchSector(s) ==
  IF s.IndexPulse_Counter >= AddressIP THEN Immediately(s, "RNF")
  ELSE IF HeaderComes(s) THEN FDC_NextSectorID(s, "CHECK_HEADER")
  ELSE Later(s, s.CommandState)

FDC_UpdateReadSectorsCmd(s, p, out) ==
  CASE s.CommandState = "START" -> StartMotor(s, "HEAD_LOAD", p)
    [] SpinningUp(s) -> Later(s, "SPIN_UP")
    [] HeadLoading(s) -> Later(s, "MOTOR_ON")
    [] HeadLoaded(s) \/ s.CommandState = "MOTOR_ON" ->
         Immediately(ResetSearch(s), "NEXT_HEADER")
    [] s.CommandState = "NEXT_HEADER" -> SearchSector(s)
    [] s.CommandState = "CHECK_HEADER" -> CheckHeader(s, out)
    [] s.CommandState = "TRANSFER_START" ->
         IF SectorInImage(s, out) THEN Later([s EXCEPT !.Buffer = SectorBytes], "TRANSFER_LOOP")
         ELSE Immediately([s EXCEPT !.Buffer = 0], "RNF")
    [] s.CommandState = "TRANSFER_LOOP" -> TransferRead(s, "CRC")
    [] s.CommandState = "CRC" -> Immediately(s, "MULTI")
    [] s.CommandState = "MULTI" -> NextSector(s)
    [] s.CommandState \in {"RNF", "COMPLETE"} -> Ended(s)

(* Unlike the other searches, the first pass does not set the state: while *)
(* no header comes it is repeated, and resets the counter each time.       *)
FirstSearch(s) == SearchSector(ResetSearch(s))

UnprotectedWrite(s, p, out) ==
  CASE s.CommandState = "START" -> StartMotor(s, "HEAD_LOAD", p)
    [] SpinningUp(s) -> Later(s, "SPIN_UP")
    [] HeadLoading(s) -> Later(s, "MOTOR_ON")
    [] HeadLoaded(s) \/ s.CommandState = "MOTOR_ON" ->
         FirstSearch(s)
    [] s.CommandState = "NEXT_HEADER" -> SearchSector(s)
    [] s.CommandState = "CHECK_HEADER" -> CheckHeader(s, out)
    [] s.CommandState = "TRANSFER_START" -> StartWrite(s, SectorBytes)
    [] s.CommandState = "TRANSFER_LOOP" -> TransferWrite(s, Later(s, "CRC"))
    [] s.CommandState = "CRC" ->
         Immediately(s, IF SectorInImage(s, out) THEN "MULTI" ELSE "RNF")
    [] s.CommandState = "MULTI" -> NextSector(s)
    [] s.CommandState \in {"RNF", "COMPLETE"} -> Ended(s)

FDC_UpdateWriteSectorsCmd(s, p, out) ==
  IF DriveReady(s) /\ s.drives[s.DriveSel].protected THEN FDC_CmdCompleteCommon(s, TRUE)
  ELSE UnprotectedWrite(s, p, out)

(* FDC_ReadAddress_ST leaves the buffer empty on a missing track, and SR   *)
(* gets a byte that an earlier command left there; the code transfers one  *)
(* byte all the same.                                                      *)
ReadAddress(s, old) ==
  IF Selected(s) /\ Head(s) < Tracks
  THEN Later([s EXCEPT !.SR = Head(s), !.Buffer = IdBytes], "TRANSFER_LOOP")
  ELSE Later([s EXCEPT !.SR = old, !.Buffer = 0], "TRANSFER_LOOP")

FDC_UpdateReadAddressCmd(s, p, old) ==
  CASE s.CommandState = "START" -> StartMotor(s, "HEAD_LOAD", p)
    [] SpinningUp(s) -> Later(s, "SPIN_UP")
    [] HeadLoading(s) -> Later(NotReplaceable(s), "MOTOR_ON")
    [] HeadLoaded(s) \/ s.CommandState = "MOTOR_ON" ->
         Immediately(ResetSearch(s), "NEXT_HEADER")
    [] s.CommandState = "NEXT_HEADER" ->
         IF s.IndexPulse_Counter >= AddressIP THEN Immediately(s, "RNF")
         ELSE IF HeaderComes(s) THEN FDC_NextSectorID(s, "TRANSFER_START")
         ELSE Later(s, "NEXT_HEADER")
    [] s.CommandState = "TRANSFER_START" -> ReadAddress(s, old)
    [] s.CommandState = "TRANSFER_LOOP" -> TransferRead(s, "COMPLETE")
    [] s.CommandState \in {"RNF", "COMPLETE"} -> Ended(s)

(* Read track and write track wait for the index pulse. *)
AwaitIndex(s) == Later(s, IF Timed(s) THEN "INDEX" ELSE s.CommandState)

FDC_UpdateReadTrackCmd(s, p) ==
  CASE s.CommandState = "START" -> StartMotor(s, "HEAD_LOAD", p)
    [] SpinningUp(s) -> Later(s, "SPIN_UP")
    [] HeadLoading(s) -> Later(NotReplaceable(s), "MOTOR_ON")
    [] HeadLoaded(s) ->
         AwaitIndex(NotReplaceable(s))
    [] s.CommandState = "MOTOR_ON" -> AwaitIndex(s)
    [] s.CommandState = "INDEX" -> Later([s EXCEPT !.Buffer = TrackBytes], "TRANSFER_LOOP")
    [] s.CommandState = "TRANSFER_LOOP" -> TransferRead(s, "COMPLETE")
    [] s.CommandState = "COMPLETE" -> Ended(s)

(* Writing a track of such an image always fails (FDC_WriteTrack_ST). *)
FDC_UpdateWriteTrackCmd(s, p, out) ==
  CASE s.CommandState = "START" -> StartMotor(s, "HEAD_LOAD", p)
    [] SpinningUp(s) -> Later(s, "SPIN_UP")
    [] HeadLoading(s) -> Later(NotReplaceable(s), "MOTOR_ON")
    [] HeadLoaded(s) ->
         AwaitIndex(NotReplaceable(s))
    [] s.CommandState = "MOTOR_ON" -> AwaitIndex(s)
    [] s.CommandState = "INDEX" ->
         IF IF Selected(s) THEN s.drives[s.DriveSel].protected ELSE out
         THEN FDC_CmdCompleteCommon(s, TRUE) ELSE StartWrite(s, TrackBytes)
    [] s.CommandState = "TRANSFER_LOOP" -> TransferWrite(s, Immediately(s, "COMPLETE"))
    [] s.CommandState = "COMPLETE" -> Ended(s)

(* One pass of the loop of FDC_InterruptHandler_Update. *)
UpdateCommand(s, p, out, old) ==
  CASE s.Command = "NULL" -> s
    [] s.Command = "RESTORE" -> FDC_UpdateRestoreCmd(s, p)
    [] s.Command = "SEEK" -> FDC_UpdateSeekCmd(s, p)
    [] s.Command = "STEP" -> FDC_UpdateStepCmd(s, p)
    [] s.Command = "READSECTORS" -> FDC_UpdateReadSectorsCmd(s, p, out)
    [] s.Command = "WRITESECTORS" -> FDC_UpdateWriteSectorsCmd(s, p, out)
    [] s.Command = "READADDRESS" -> FDC_UpdateReadAddressCmd(s, p, old)
    [] s.Command = "READTRACK" -> FDC_UpdateReadTrackCmd(s, p)
    [] s.Command = "WRITETRACK" -> FDC_UpdateWriteTrackCmd(s, p, out)
    [] s.Command = "MOTOR_STOP" -> FDC_UpdateMotorStop(s)

UpdatePass(s, p, out, old) ==
  UpdateCommand(FDC_IndexPulse_Update([s EXCEPT !.timer = OFF], p), p, out, old)

-----------------------------------------------------------------------------
(* The registers. *)

StopForced(s) == IF "IMMEDIATE" \in s.Cond THEN s ELSE [s EXCEPT !.IRQ = @ \ {"FORCED"}]

(* FDC_TypeI_..., FDC_TypeII_..., FDC_TypeIII_... *)
StartCommand(s, cr) ==
  [s EXCEPT !.Command = IF cr.cmd \in {"STEPIN", "STEPOUT"} THEN "STEP" ELSE cr.cmd,
            !.CommandState = "START", !.STR = (@ \ {"RNF"}) \cup {"BUSY"},
            !.StepDirection = CASE cr.cmd = "STEPIN" -> 1 [] cr.cmd = "STEPOUT" -> -1
                                [] OTHER -> @]

FDC_TypeIV_ForceInterrupt(s, cr) ==
  LET idle == IF "BUSY" \in s.STR THEN s ELSE [s EXCEPT !.STR = @ \cup {"MOTOR_ON"}]
      t == [idle EXCEPT !.Cond = cr.cond]
  IN FDC_CmdCompleteCommon(IF "IMMEDIATE" \in cr.cond THEN FDC_SetIRQ(t, "FORCED")
                           ELSE FDC_ClearIRQ(t), FALSE)

FDC_ExecuteCommand(s, cr) ==
  LET type == FDC_GetCmdType(cr)
      cleared == IF type = 4 THEN StopForced(s) ELSE FDC_ClearIRQ(StopForced(s))
      t == [cleared EXCEPT !.Cond = {}, !.CR = cr, !.CommandType = type]
      run == IF type = 4 THEN FDC_TypeIV_ForceInterrupt(t, cr) ELSE StartCommand(t, cr)
  IN [run EXCEPT !.Replace = TRUE, !.timer = SOON]

(* A busy controller accepts a forced interrupt, and a command of type I   *)
(* or II in place of one of its type until its spin-up has ended.          *)
Accepts(s, cr) ==
  LET type == FDC_GetCmdType(cr) IN
  \/ "BUSY" \notin s.STR
  \/ type = 4
  \/ s.Replace /\ type \in {1, 2} /\ s.CommandType = type

FDC_WriteCommandRegister(s, cr) == IF Accepts(s, cr) THEN FDC_ExecuteCommand(s, cr) ELSE s

FDC_WriteTrackRegister(s, v) == [s EXCEPT !.TR = v]
FDC_WriteSectorRegister(s, v) == [s EXCEPT !.SR = v]
FDC_WriteDataRegister(s, v) == [s EXCEPT !.DR = v]

FDC_WriteSectorCountRegister(s, n) ==
  [s EXCEPT !.SectorCount = n, !.room = n * SectorBytes]

(* FDC_DiskControllerStatus_ReadWord, for the status register. *)
ReadStatus(s) == FDC_ClearIRQ(StopForced(s))

(* FDC_DmaModeControl_WriteWord: bit 8 is the direction. *)
FDC_DmaModeControl_WriteWord(s, write) ==
  IF write = s.writeMode THEN s ELSE FDC_ResetDMA([s EXCEPT !.writeMode = write])

ResetKeepsCommand(s, cold) ==
  FDC_ResetDMA(
    [s EXCEPT !.STR = {}, !.SR = 1, !.TR = IF cold THEN 0 ELSE @, !.DR = IF cold THEN 0 ELSE @,
              !.CommandType = 0, !.Cond = {}, !.IRQ = {}, !.IndexPulse_Counter = 0,
              !.writeMode = FALSE])

FDC_Reset(s, cold) ==
  FDC_ResetDMA(
    [s EXCEPT !.STR = {}, !.SR = 1, !.TR = IF cold THEN 0 ELSE @, !.DR = IF cold THEN 0 ELSE @,
              !.CR = [cmd |-> "RESTORE", spin |-> TRUE, delay |-> FALSE, multi |-> FALSE,
                      cond |-> {}],
              !.StepDirection = 1, !.Command = "NULL", !.CommandState = "NULL",
              !.CommandType = 0, !.Cond = {}, !.IRQ = {}, !.IndexPulse_Counter = 0,
              !.drives = [d \in Drives |-> [s.drives[d] EXCEPT !.timed = FALSE]],
              !.pos = 0, !.pulse = FALSE, !.timer = IF @ > 0 THEN SOON ELSE @,
              !.writeMode = FALSE, !.Buffer = 0])

(* MFP_Reset and CycInt_Reset, as far as the controller sees them. *)
MFP_Reset(s) == [s EXCEPT !.line = "LOW"]
CycInt_Reset(s) == [s EXCEPT !.timer = OFF]
=============================================================================
