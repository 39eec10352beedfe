----------------------------- MODULE IKBDSerial -----------------------------
(***************************************************************************)
(* The serial interface of the keyboard processor (src/src/ikbd.c, "This   *)
(* part emulates the IKBD's Serial Communication Interface"): operators on *)
(* a record of its registers and of the output ring in front of it.  It    *)
(* knows one format, 8 data bits, no parity, 1 stop bit.                   *)
(*                                                                         *)
(* Outside of these functions TDR is always empty (IKBD_Check_New_TDR      *)
(* fills it, IKBD_SCI_Prepare_TX takes it in the same call) and so is RDR  *)
(* (IKBD_Process_RDR takes it in the call that filled it): the status bits *)
(* TDRE and RDRF are constant and the overrun branch is dead.              *)
(***************************************************************************)
EXTENDS ACIA

CONSTANT SIZE_KEYBOARD_BUFFER    \* 1024, a power of 2

ASSUME BufferAssumption == SIZE_KEYBOARD_BUFFER \in Nat \ {0}

Slots == 0 .. SIZE_KEYBOARD_BUFFER - 1
MaxDelay == 2                    \* bound: delays in bits of 1024 cycles (the longest is 17)
NoDelay == -1                    \* a byte sent with a delay of 0 cycles

SCIState ==
  [TX_State : States \ {"parity"}, TSR : Byte, TX_Size : 0 .. ByteBits, TX_Delay : 0 .. MaxDelay,
   RX_State : States \ {"parity"}, RSR : Byte, RX_Size : 0 .. ByteBits, RDR : Byte,
   ORFE : BOOLEAN,
   Buffer : [Slots -> Byte], BufferHead : Slots, BufferTail : Slots,
   NbBytesInOutputBuffer : 0 .. SIZE_KEYBOARD_BUFFER, PauseOutput : BOOLEAN,
   bDuringResetCriticalTime : BOOLEAN]

(* The serial part and the ring at power on, before the first reset. *)
SCI_Init ==
  [TX_State |-> "idle", TSR |-> Zero, TX_Size |-> 0, TX_Delay |-> 0,
   RX_State |-> "idle", RSR |-> Zero, RX_Size |-> 0, RDR |-> Zero, ORFE |-> FALSE,
   Buffer |-> [i \in Slots |-> Zero], BufferHead |-> 0, BufferTail |-> 0,
   NbBytesInOutputBuffer |-> 0, PauseOutput |-> FALSE, bDuringResetCriticalTime |-> FALSE]

(* IKBD_Boot_ROM, as far as it concerns the link: the output is flushed    *)
(* and nothing is sent until the reset timer is over.                      *)
IKBD_Boot_ROM(k) ==
  [k EXCEPT !.BufferHead = 0, !.BufferTail = 0, !.NbBytesInOutputBuffer = 0,
            !.PauseOutput = FALSE, !.bDuringResetCriticalTime = TRUE]

IKBD_Reset(k) ==
  IKBD_Boot_ROM([k EXCEPT !.TX_State = "idle", !.TSR = Zero, !.TX_Size = 0, !.TX_Delay = 0,
                          !.RX_State = "idle", !.RSR = Zero, !.RX_Size = 0, !.ORFE = FALSE])

-----------------------------------------------------------------------------
(* The output ring. *)

IKBD_OutputBuffer_CheckFreeCount(k, n) == SIZE_KEYBOARD_BUFFER - k.NbBytesInOutputBuffer >= n

Next_Slot(i) == (i + 1) % SIZE_KEYBOARD_BUFFER

(* A byte is dropped while the IKBD boots, before the ACIA has a baud rate *)
(* (divider 0) and when the ring is full; without a delay of its own it    *)
(* leaves the delay of earlier bytes as it is.                             *)
IKBD_Send_Byte_Delay(k, divider, byte, delay) ==
  IF k.bDuringResetCriticalTime \/ divider = 0 THEN k
  ELSE LET d == IF delay = NoDelay THEN k ELSE [k EXCEPT !.TX_Delay = delay]
       IN  IF IKBD_OutputBuffer_CheckFreeCount(k, 1)
           THEN [d EXCEPT !.Buffer[k.BufferTail] = byte, !.BufferTail = Next_Slot(@),
                          !.NbBytesInOutputBuffer = @ + 1]
           ELSE d

CanSendNow(k) == k.NbBytesInOutputBuffer > 0 /\ ~k.PauseOutput

(* IKBD_Check_New_TDR and IKBD_SCI_Prepare_TX. *)
IKBD_Check_New_TDR(k) ==
  IF CanSendNow(k)
  THEN [k EXCEPT !.TSR = k.Buffer[k.BufferHead], !.TX_Size = ByteBits, !.TX_State = "data",
                 !.BufferHead = Next_Slot(@), !.NbBytesInOutputBuffer = @ - 1]
  ELSE k

-----------------------------------------------------------------------------
(* IKBD_SCI_Set_Line_TX: the bit it puts on the line, and its new state.   *)

SCI_TX_Bit(k) ==
  CASE k.TX_State = "idle" -> IF k.TX_Delay = 0 /\ CanSendNow(k) THEN 0 ELSE 1
    [] k.TX_State = "data" -> k.TSR[1]
    [] k.TX_State = "stop" -> 1

IKBD_SCI_Set_Line_TX(k) ==
  CASE k.TX_State = "idle" ->
         IF k.TX_Delay > 0 THEN [k EXCEPT !.TX_Delay = @ - 1] ELSE IKBD_Check_New_TDR(k)
    [] k.TX_State = "data" ->
         [k EXCEPT !.TSR = ShiftRight(@), !.TX_Size = @ - 1,
                   !.TX_State = IF k.TX_Size = 1 THEN "stop" ELSE @]
    [] k.TX_State = "stop" -> [k EXCEPT !.TX_State = "idle"]

(* IKBD_SCI_Get_Line_RX.  A byte with a valid stop bit is handed to        *)
(* IKBD_Process_RDR; RDR keeps it.                                         *)
SCI_StopBit(k, bit) ==
  [k EXCEPT !.RX_State = "idle", !.ORFE = bit = 0, !.RDR = IF bit = 1 THEN k.RSR ELSE @]

SCI_OneBitLess(k, bit) ==                \* the stop bit is expected too early
  LET byte == SetTopBit(k.RSR, bit)
  IN  [k EXCEPT !.RX_Size = @ - 1, !.RSR = IF k.RX_Size > 2 THEN ShiftRight(byte) ELSE byte,
                !.RX_State = IF k.RX_Size > 2 THEN @ ELSE "stop"]

SCI_DataBit(k, bit) ==
  LET byte == SetTopBit(k.RSR, bit)
  IN  [k EXCEPT !.RX_Size = @ - 1,
                !.RSR = IF k.RX_Size > 1 THEN ShiftRight(byte) ELSE byte,
                !.RX_State = IF k.RX_Size > 1 THEN @ ELSE "stop"]

IKBD_SCI_Get_Line_RX(k, bit) ==
  CASE k.RX_State = "idle" ->
         IF bit = 0 THEN [k EXCEPT !.RSR = Zero, !.RX_Size = ByteBits, !.RX_State = "data"] ELSE k
    [] k.RX_State = "data" -> SCI_DataBit(k, bit)
    [] k.RX_State = "stop" -> SCI_StopBit(k, bit)

ReceivesByte(k, bit) == k.RX_State = "stop" /\ bit = 1
=============================================================================
