-------------------------------- MODULE ACIA --------------------------------
(***************************************************************************)
(* The MC6850 (src/src/acia.c) that connects the 68000 with the keyboard   *)
(* processor.  Its functions, as operators on a record of its registers;   *)
(* a bit of SR is a Boolean field.  Bits enter and leave one at a time, a  *)
(* shift register is a tuple of bits, lowest bit first.                    *)
(*                                                                         *)
(* CTS, DCD and RTS are not connected in an ST: the code reads 0 for them  *)
(* and they are left out.  A clock tick is modelled up to and from the     *)
(* line: TX_Bit is the bit Clock_TX puts on it, ACIA_Clock_RX takes the    *)
(* bit it reads there.                                                     *)
(***************************************************************************)
EXTENDS Integers, Sequences

CONSTANT ByteBits    \* 8, the bits of a data register

ASSUME ByteBitsAssumption == ByteBits \in Nat \ {0, 1}

Bit == {0, 1}
Byte == [1 .. ByteBits -> Bit]
Zero == [i \in 1 .. ByteBits |-> 0]

ShiftRight(byte) == [i \in 1 .. ByteBits |-> IF i = ByteBits THEN 0 ELSE byte[i + 1]]
SetTopBit(byte, bit) == IF bit = 1 THEN [byte EXCEPT ![ByteBits] = 1] ELSE byte

(* ACIA_Serial_Params. *)
Format(data, parity, stop) == [DataBits |-> data, Parity |-> parity, StopBits |-> stop]

ACIA_Serial_Params == <<
  Format(ByteBits - 1, "even", 2), Format(ByteBits - 1, "odd", 2),
  Format(ByteBits - 1, "even", 1), Format(ByteBits - 1, "odd", 1),
  Format(ByteBits, "none", 2), Format(ByteBits, "none", 1),
  Format(ByteBits, "even", 1), Format(ByteBits, "odd", 1) >>

(* The control register: counter divide, word select, transmitter control, *)
(* receive interrupt enable.                                               *)
ControlRegister == [divide : 0 .. 3, word : 0 .. 7, tx : 0 .. 3, rie : BOOLEAN]

SerialParams(a) == ACIA_Serial_Params[a.CR.word + 1]

ACIA_Counter_Divide == <<1, 16, 64>>

States == {"idle", "data", "parity", "stop"}

ACIAState ==
  [CR : ControlRegister, TDR : Byte, RDR : Byte, Clock_Divider : {0, 1, 16, 64},
   RDRF : BOOLEAN, TDRE : BOOLEAN, FE : BOOLEAN, OVRN : BOOLEAN, PE : BOOLEAN, IRQ : BOOLEAN,
   SR_Read : BOOLEAN, RX_Overrun : BOOLEAN, TX_EnableInt : BOOLEAN, TX_SendBrk : BOOLEAN,
   TX_State : States, TSR : Byte, TX_Size : 0 .. ByteBits, TX_Parity : Bit, TX_StopBits : 0 .. 2,
   RX_State : States, RSR : Byte, RX_Size : 0 .. ByteBits, RX_Parity : Bit, RX_StopBits : 0 .. 2]

(* ACIA_Init clears the structure. *)
ACIA_Init ==
  [CR |-> [divide |-> 0, word |-> 0, tx |-> 0, rie |-> FALSE], TDR |-> Zero, RDR |-> Zero,
   Clock_Divider |-> 0, RDRF |-> FALSE, TDRE |-> FALSE, FE |-> FALSE, OVRN |-> FALSE,
   PE |-> FALSE, IRQ |-> FALSE, SR_Read |-> FALSE, RX_Overrun |-> FALSE,
   TX_EnableInt |-> FALSE, TX_SendBrk |-> FALSE,
   TX_State |-> "idle", TSR |-> Zero, TX_Size |-> 0, TX_Parity |-> 0, TX_StopBits |-> 0,
   RX_State |-> "idle", RSR |-> Zero, RX_Size |-> 0, RX_Parity |-> 0, RX_StopBits |-> 0]

-----------------------------------------------------------------------------
(* The interrupt request.  The line follows changes of SR.IRQ only.        *)

InterruptCause(a) ==
  \/ a.CR.rie /\ (a.RDRF \/ a.RX_Overrun)
  \/ a.TX_EnableInt /\ a.TDRE

ACIA_UpdateIRQ(a) == [a EXCEPT !.IRQ = InterruptCause(a)]

(* The level of the MFP's input after an ACIA went from a to b. *)
ACIA_Set_Line_IRQ(line, a, b) ==
  IF a.IRQ = b.IRQ THEN line ELSE IF b.IRQ THEN "low" ELSE "high"

-----------------------------------------------------------------------------
(* Accesses of the 68000. *)

ACIA_MasterReset(a) ==
  [a EXCEPT !.RDRF = FALSE, !.TDRE = TRUE, !.FE = FALSE, !.OVRN = FALSE, !.PE = FALSE,
            !.IRQ = FALSE, !.RX_Overrun = FALSE,
            !.TX_State = "idle", !.TSR = Zero, !.TX_Size = 0,
            !.RX_State = "idle", !.RSR = Zero, !.RX_Size = 0]

IsMasterReset(cr) == cr.divide = 3

ACIA_Write_CR(a, cr) ==
  LET b == IF IsMasterReset(cr) THEN ACIA_MasterReset(a)
           ELSE IF cr.divide # a.CR.divide
                THEN [a EXCEPT !.Clock_Divider = ACIA_Counter_Divide[cr.divide + 1]]
                ELSE a
  IN  ACIA_UpdateIRQ([b EXCEPT !.TX_EnableInt = cr.tx = 1, !.TX_SendBrk = cr.tx = 3, !.CR = cr])

ACIA_Read_SR(a) == [a EXCEPT !.SR_Read = TRUE]

StatusReadIsSticky(a) ==                 \* the read of SR is not used up
  ACIA_UpdateIRQ([a EXCEPT !.RDRF = FALSE, !.PE = FALSE,
                           !.OVRN = a.RX_Overrun \/ (a.OVRN /\ ~a.SR_Read),
                           !.RX_Overrun = FALSE])

ACIA_Read_RDR(a) ==
  ACIA_UpdateIRQ([a EXCEPT !.RDRF = FALSE, !.PE = FALSE, !.SR_Read = FALSE,
                           !.OVRN = a.RX_Overrun \/ (a.OVRN /\ ~a.SR_Read),
                           !.RX_Overrun = FALSE])

ACIA_Write_TDR(a, byte) == ACIA_UpdateIRQ([a EXCEPT !.TDR = byte, !.TDRE = FALSE])

-----------------------------------------------------------------------------
(* The transmitter. *)

PrepareKeepsTDR(a) ==                    \* TDR still counts as full
  [a EXCEPT !.TSR = a.TDR, !.TX_Parity = 0, !.TX_Size = SerialParams(a).DataBits,
            !.TX_StopBits = SerialParams(a).StopBits]

ACIA_Prepare_TX(a) ==
  [a EXCEPT !.TSR = a.TDR, !.TX_Parity = 0, !.TX_Size = SerialParams(a).DataBits,
            !.TX_StopBits = SerialParams(a).StopBits, !.TDRE = TRUE]

AfterData(a) == IF SerialParams(a).Parity = "none" THEN "stop" ELSE "parity"

(* In the idle state, the registers as they are when the bit is chosen. *)
TX_Ready(a) == IF a.TDRE THEN a ELSE ACIA_Prepare_TX(a)

(* The bit that ACIA_Clock_TX puts on the line. *)
TX_Bit(a) ==
  CASE a.TX_State = "idle"   -> IF a.TX_SendBrk \/ TX_Ready(a).TX_Size # 0 THEN 0 ELSE 1
    [] a.TX_State = "data"   -> a.TSR[1]
    [] a.TX_State = "parity" -> IF SerialParams(a).Parity = "even" THEN a.TX_Parity ELSE 1 - a.TX_Parity
    [] a.TX_State = "stop"   -> 1

TX_TestsSizeFirst(a) ==                  \* TSR is found empty before TDR is looked at
  IF a.TX_SendBrk \/ a.TX_Size = 0 THEN a ELSE [TX_Ready(a) EXCEPT !.TX_State = "data"]

TX_Idle(a) ==
  IF a.TX_SendBrk THEN a
  ELSE LET b == TX_Ready(a)
       IN  IF b.TX_Size = 0 THEN b ELSE [b EXCEPT !.TX_State = "data"]

TX_DataBit(a) ==
  [a EXCEPT !.TX_Parity = (@ + a.TSR[1]) % 2, !.TSR = ShiftRight(@), !.TX_Size = @ - 1,
            !.TX_State = IF a.TX_Size = 1 THEN AfterData(a) ELSE @]

TX_StopBit(a) ==
  [a EXCEPT !.TX_StopBits = @ - 1, !.TX_State = IF a.TX_StopBits = 1 THEN "idle" ELSE @]

ACIA_Clock_TX(a) ==
  ACIA_UpdateIRQ(
    CASE a.TX_State = "idle"   -> TX_Idle(a)
      [] a.TX_State = "data"   -> TX_DataBit(a)
      [] a.TX_State = "parity" -> [a EXCEPT !.TX_State = "stop"]
      [] a.TX_State = "stop"   -> TX_StopBit(a))

-----------------------------------------------------------------------------
(* The receiver. *)

ACIA_Prepare_RX(a) ==
  [a EXCEPT !.RSR = Zero, !.RX_Parity = 0, !.RX_Size = SerialParams(a).DataBits,
            !.RX_StopBits = SerialParams(a).StopBits]

RX_DataBit(a, bit) ==
  LET byte == SetTopBit(a.RSR, bit)
  IN  [a EXCEPT !.RX_Parity = (@ + bit) % 2, !.RX_Size = @ - 1,
                !.RSR = IF a.RX_Size > 1 THEN ShiftRight(byte) ELSE byte,
                !.RX_State = IF a.RX_Size > 1 THEN @ ELSE AfterData(a)]

(* Even parity fails both tests of the code: PE is set for every byte. *)
RX_ParityBit(a, bit) ==
  [a EXCEPT !.PE = @ \/ SerialParams(a).Parity = "even" \/ a.RX_Parity = bit,
            !.RX_State = "stop"]

RX_OverwritesRDR(a) ==                   \* the new byte wins, no overrun
  [a EXCEPT !.FE = FALSE, !.RX_State = "idle", !.RDR = a.RSR, !.RDRF = TRUE]

(* RSR is lost if RDR was not read. *)
RX_Complete(a) ==
  LET b == [a EXCEPT !.FE = FALSE, !.RX_State = "idle"]
  IN  IF a.RDRF THEN [b EXCEPT !.RX_Overrun = TRUE] ELSE [b EXCEPT !.RDR = a.RSR, !.RDRF = TRUE]

RX_FramingError(a) == [a EXCEPT !.FE = TRUE, !.RDR = a.RSR, !.RX_State = "idle"]

RX_StopBit(a, bit) ==
  IF bit = 0 THEN RX_FramingError(a)
  ELSE LET b == [a EXCEPT !.RX_StopBits = @ - 1]
       IN  IF b.RX_StopBits = 0 THEN RX_Complete(b) ELSE b

RX_Step(a, bit) ==
  CASE a.RX_State = "idle" ->
         IF bit = 0 THEN [ACIA_Prepare_RX(a) EXCEPT !.RX_State = "data"] ELSE a
    [] a.RX_State = "data"   -> RX_DataBit(a, bit)
    [] a.RX_State = "parity" -> RX_ParityBit(a, bit)
    [] a.RX_State = "stop"   -> RX_StopBit(a, bit)

ACIA_Clock_RX(a, bit) == ACIA_UpdateIRQ(RX_Step(a, bit))
=============================================================================
