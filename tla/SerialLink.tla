----------------------------- MODULE SerialLink -----------------------------
(***************************************************************************)
(* The serial link between the 68000 and the keyboard processor: the ACIA  *)
(* of module ACIA and the serial interface of module IKBDSerial, clocked   *)
(* together by the timer of the ACIA (ACIA_InterruptHandler_IKBD).         *)
(*                                                                         *)
(* The 68000 reads and writes the four registers when it likes.  What the  *)
(* IKBD does with the bytes it receives is in module IKBD; here it sends a *)
(* byte, stops its output or boots at any time.                            *)
(***************************************************************************)
EXTENDS IKBDSerial

CONSTANTS
  CRValues,    \* the values a program writes to CR
  TxBytes,     \* the bytes a program sends
  KeyBytes,    \* the bytes the IKBD sends
  Delays       \* the delays of these, in bits

ASSUME LinkAssumption ==
  /\ CRValues \subseteq ControlRegister
  /\ TxBytes \subseteq Byte /\ KeyBytes \subseteq Byte
  /\ Delays \subseteq {NoDelay} \cup 0 .. MaxDelay

VARIABLES
  acia,    \* pACIA_IKBD
  kbd,     \* pIKBD and the output ring of Keyboard
  line,    \* the ACIA's input of the MFP
  seen     \* the 68000 read a status with OVRN since it was set (history)

vars == <<acia, kbd, line, seen>>

Init ==
  /\ acia = ACIA_Init
  /\ kbd = IKBD_Reset(SCI_Init)
  /\ line = "low"
  /\ seen = FALSE

(* The new registers, with what they do to the line. *)
Set(a) ==
  /\ acia' = a
  /\ line' = ACIA_Set_Line_IRQ(line, acia, a)

-----------------------------------------------------------------------------
(* The 68000. *)

(* A master reset raises the line before the new CR may lower it. *)
WriteCR(cr) ==
  LET a == ACIA_Write_CR(acia, cr)
  IN  /\ acia' = a
      /\ line' = IF IsMasterReset(cr)
                 THEN ACIA_Set_Line_IRQ("high", [acia EXCEPT !.IRQ = FALSE], a)
                 ELSE ACIA_Set_Line_IRQ(line, acia, a)
      /\ seen' = (seen /\ a.OVRN)
      /\ UNCHANGED kbd

WriteTDR(byte) == Set(ACIA_Write_TDR(acia, byte)) /\ UNCHANGED <<kbd, seen>>

ReadSR == Set(ACIA_Read_SR(acia)) /\ seen' = acia.OVRN /\ UNCHANGED kbd

(* OVRN is new if an overrun was noted by this read. *)
ReadRDR ==
  /\ Set(ACIA_Read_RDR(acia))
  /\ seen' = (seen /\ acia'.OVRN /\ ~acia.RX_Overrun)
  /\ UNCHANGED kbd

-----------------------------------------------------------------------------
(* The timer: one bit each way.  The transmitter's bit goes straight into  *)
(* the IKBD, the receiver takes its bit straight out of it.                *)
Tick ==
  /\ acia.Clock_Divider # 0
  /\ LET a == ACIA_Clock_TX(acia)
         k == IKBD_SCI_Get_Line_RX(kbd, TX_Bit(acia))
         b == ACIA_Clock_RX(a, SCI_TX_Bit(k))
     IN  /\ acia' = b
         /\ kbd' = IKBD_SCI_Set_Line_TX(k)
         /\ line' = ACIA_Set_Line_IRQ(ACIA_Set_Line_IRQ(line, acia, a), a, b)
  /\ UNCHANGED seen

-----------------------------------------------------------------------------
(* The keyboard processor. *)

SendByte(byte, delay) ==
  /\ kbd' = IKBD_Send_Byte_Delay(kbd, acia.Clock_Divider, byte, delay)
  /\ UNCHANGED <<acia, line, seen>>

(* Command 0x13 stops the output, any other one resumes it. *)
Pause(paused) ==
  /\ kbd' = [kbd EXCEPT !.PauseOutput = paused]
  /\ UNCHANGED <<acia, line, seen>>

(* The command 0x80 0x01. *)
Boot == kbd' = IKBD_Boot_ROM(kbd) /\ UNCHANGED <<acia, line, seen>>

(* IKBD_InterruptHandler_ResetTimer: the boot is over, $F1 is sent. *)
ResetTimer ==
  /\ kbd.bDuringResetCriticalTime
  /\ \E byte \in KeyBytes, delay \in Delays :
       kbd' = IKBD_Send_Byte_Delay([kbd EXCEPT !.bDuringResetCriticalTime = FALSE],
                                   acia.Clock_Divider, byte, delay)
  /\ UNCHANGED <<acia, line, seen>>

(* A reset of the machine, or the RESET instruction.  The ACIA has no      *)
(* reset; ACIA_Reset restarts its timer if it had one.  MFP_Reset clears   *)
(* GPIP, which makes the line low.                                         *)
Reset == kbd' = IKBD_Reset(kbd) /\ line' = "low" /\ UNCHANGED <<acia, seen>>

Next ==
  \/ \E cr \in CRValues : WriteCR(cr)
  \/ \E byte \in TxBytes : WriteTDR(byte)
  \/ ReadSR
  \/ ReadRDR
  \/ Tick
  \/ \E byte \in KeyBytes, delay \in Delays : SendByte(byte, delay)
  \/ \E paused \in BOOLEAN : Pause(paused)
  \/ Boot
  \/ ResetTimer
  \/ Reset

Spec == Init /\ [][Next]_vars /\ WF_vars(Tick)

-----------------------------------------------------------------------------
(* Where the two ends of a channel agree: between two ticks both are idle  *)
(* or both are at the same bit of a byte with one stop bit.                *)
ToAligned ==
  \/ acia.TX_State = "idle" /\ kbd.RX_State = "idle"
  \/ /\ acia.TX_State = kbd.RX_State /\ acia.TX_State \in {"data", "stop"}
     /\ acia.TX_Size = kbd.RX_Size /\ acia.TX_StopBits = 1

FromAligned ==
  \/ kbd.TX_State = "idle" /\ acia.RX_State = "idle"
  \/ /\ kbd.TX_State = acia.RX_State /\ kbd.TX_State \in {"data", "stop"}
     /\ kbd.TX_Size = acia.RX_Size /\ acia.RX_StopBits = 1

(* The byte on a line: the bits in the receiving shift register and those  *)
(* left in the sending one.                                                *)
ByteOnLine(state, RSR, size, TSR) ==
  CASE state = "data" -> <<SubSeq(RSR, size, ByteBits - 1) \o SubSeq(TSR, 1, size)>>
    [] state = "stop" -> <<RSR>>
    [] OTHER -> <<>>

InRing(i) == kbd.Buffer[(kbd.BufferHead + i - 1) % SIZE_KEYBOARD_BUFFER]

ToLink == INSTANCE ByteLink WITH
  QueueSize <- 0, queue <- <<>>, full <- FALSE, lost <- FALSE,
  aligned <- ToAligned,
  hold    <- IF acia.TDRE THEN <<>> ELSE <<acia.TDR>>,
  frame   <- ByteOnLine(kbd.RX_State, kbd.RSR, kbd.RX_Size, acia.TSR),
  got     <- kbd.RDR

FromLink == INSTANCE ByteLink WITH
  QueueSize <- SIZE_KEYBOARD_BUFFER, hold <- <<>>,
  aligned <- FromAligned,
  queue   <- [i \in 1 .. kbd.NbBytesInOutputBuffer |-> InRing(i)],
  frame   <- ByteOnLine(acia.RX_State, acia.RSR, acia.RX_Size, kbd.TSR),
  got     <- acia.RDR,
  full    <- acia.RDRF,
  lost    <- acia.RX_Overrun

(* The types of the variables: registers keep their width. *)
TypeOK ==
  /\ acia \in ACIAState
  /\ kbd \in SCIState
  /\ line \in {"low", "high"}
  /\ seen \in BOOLEAN

(* What a program writes to TDR arrives at the IKBD byte by byte, in       *)
(* order, unchanged, as long as both agree where a byte starts.            *)
ToKeyboard == ToLink!ToKeyboard

(* What the IKBD puts into its ring arrives in RDR byte by byte, in order, *)
(* unchanged; a byte that finds RDR full sets the overrun, and the next    *)
(* read of RDR is told.                                                    *)
FromKeyboard == FromLink!FromKeyboard

(* The channels lose their alignment only to a reset of one end during a   *)
(* byte, to a break, and to a format that the IKBD does not have.          *)
Disturbed(cr) == cr.tx = 3 \/ cr.word # 5 \/ IsMasterReset(cr)
StaysAligned ==
  [][(ToAligned /\ ~ToAligned') \/ (FromAligned /\ ~FromAligned') =>
       \/ Reset
       \/ Disturbed(acia.CR)
       \/ Disturbed(acia'.CR)]_vars

(* An overrun stays in the status register until the 68000 has read a      *)
(* status that shows it ("OVRN / DCD bits are cleared if SR was read       *)
(* before reading RDR", acia.c:830), whatever it read before.              *)
OverrunSeen ==
  [][acia.OVRN /\ ~acia'.OVRN => seen \/ IsMasterReset(acia'.CR)]_vars

(* While the ACIA has a cause for an interrupt its line to the MFP is low, *)
(* though the line only follows changes of SR.IRQ, and a master reset and  *)
(* the reset of the MFP set it on their own.                               *)
RequestOnLine == InterruptCause(acia) => line = "low"

(* A byte in TDR is taken by the transmitter, unless a break is sent; and  *)
(* when the program stops sending, the ends agree again, whatever happened *)
(* before.                                                                 *)
TransmitterRecovers ==
  /\ (~acia.TDRE /\ acia.Clock_Divider # 0) ~> (acia.TDRE \/ acia.TX_SendBrk)
  /\ <>[](acia.TDRE /\ ~acia.TX_SendBrk /\ acia.Clock_Divider # 0) => []<>ToAligned
=============================================================================
