-------------------------- MODULE SerialLinkProofs --------------------------
(***************************************************************************)
(* Theorems about module SerialLink, for every number of bits, every size  *)
(* of the ring and every choice of bytes, CR values and delays.  What an   *)
(* operator of ACIA or IKBDSerial does to the parts of its record is one   *)
(* lemma each (...Keeps, ...Ticks); TickParts puts the four of a tick      *)
(* together; the rest only uses these.                                     *)
(***************************************************************************)
EXTENDS SerialLink, SequenceTheorems, TLAPS

(* A shift register is in state "data" as long as it has bits left. *)
SizeOK(state, size) == (state = "data") <=> size > 0

ACIAOK(a) ==
  /\ a \in ACIAState
  /\ SizeOK(a.TX_State, a.TX_Size) /\ SizeOK(a.RX_State, a.RX_Size)
  /\ a.TX_State # "idle" => a.TX_StopBits > 0
  /\ a.RX_State # "idle" => a.RX_StopBits > 0
  /\ a.RX_State = "data" => a.RSR[ByteBits] = 0
  /\ a.TX_SendBrk = (a.CR.tx = 3)

SCIOK(k) ==
  /\ k \in SCIState
  /\ SizeOK(k.TX_State, k.TX_Size) /\ SizeOK(k.RX_State, k.RX_Size)
  /\ k.RX_State = "data" => k.RSR[ByteBits] = 0
  /\ k.BufferTail = (k.BufferHead + k.NbBytesInOutputBuffer) % SIZE_KEYBOARD_BUFFER

(* What an operator leaves alone. *)
SameTX(a, b) ==
  /\ b.TX_State = a.TX_State /\ b.TSR = a.TSR /\ b.TX_Size = a.TX_Size
  /\ b.TX_StopBits = a.TX_StopBits /\ b.TDR = a.TDR /\ b.TDRE = a.TDRE
SameRX(a, b) ==
  /\ b.RX_State = a.RX_State /\ b.RSR = a.RSR /\ b.RX_Size = a.RX_Size
  /\ b.RX_StopBits = a.RX_StopBits /\ b.RDR = a.RDR /\ b.RDRF = a.RDRF
  /\ b.RX_Overrun = a.RX_Overrun
SameSR(a, b) == b.OVRN = a.OVRN /\ b.SR_Read = a.SR_Read
SameCR(a, b) == b.CR = a.CR /\ b.TX_SendBrk = a.TX_SendBrk

(* IRQ is up to date. *)
Requests(a) == a.IRQ = InterruptCause(a)

-----------------------------------------------------------------------------
(* Bytes. *)

LEMMA ZeroByte == Zero \in Byte /\ \A i \in 1 .. ByteBits : Zero[i] = 0
  BY DEF Zero, Byte, Bit

LEMMA ShiftByte ==
  ASSUME NEW byte \in Byte
  PROVE /\ ShiftRight(byte) \in Byte
        /\ \A i \in 1 .. ByteBits : ShiftRight(byte)[i] = IF i = ByteBits THEN 0 ELSE byte[i + 1]
  BY ByteBitsAssumption DEF ShiftRight, Byte, Bit

LEMMA TopBitByte ==
  ASSUME NEW byte \in Byte, NEW bit \in Bit, byte[ByteBits] = 0
  PROVE /\ SetTopBit(byte, bit) \in Byte
        /\ \A i \in 1 .. ByteBits : SetTopBit(byte, bit)[i] = IF i = ByteBits THEN bit ELSE byte[i]
  BY ByteBitsAssumption DEF SetTopBit, Byte, Bit

LEMMA ParityBit == ASSUME NEW p \in Bit, NEW b \in Bit PROVE (p + b) % 2 \in Bit
  BY DEF Bit

LEMMA Formats ==
  ASSUME NEW a \in ACIAState
  PROVE LET f == SerialParams(a) IN
        /\ f.DataBits \in 1 .. ByteBits /\ f.StopBits \in {1, 2} /\ f.Parity \in {"none", "odd", "even"}
        /\ a.CR.word = 5 => f = Format(ByteBits, "none", 1)
  BY ByteBitsAssumption DEF ACIAState, ControlRegister, SerialParams, ACIA_Serial_Params, Format

-----------------------------------------------------------------------------
(* The ACIA. *)

LEMMA UpdateIRQKeeps ==
  ASSUME NEW a, ACIAOK(a)
  PROVE LET b == ACIA_UpdateIRQ(a) IN
        /\ ACIAOK(b) /\ Requests(b)
        /\ SameTX(a, b) /\ SameRX(a, b) /\ SameSR(a, b) /\ SameCR(a, b)
        /\ InterruptCause(b) = InterruptCause(a)
<1> DEFINE b == [a EXCEPT !.IRQ = InterruptCause(a)]
<1>1. b \in ACIAState
  BY DEF ACIAOK, ACIAState, InterruptCause, ControlRegister
<1>2. /\ SameTX(a, b) /\ SameRX(a, b) /\ SameSR(a, b) /\ SameCR(a, b) /\ b.IRQ = InterruptCause(a)
      /\ b.TX_EnableInt = a.TX_EnableInt
  BY DEF ACIAOK, ACIAState, SameTX, SameRX, SameSR, SameCR
<1> HIDE DEF b
<1>3. InterruptCause(b) = InterruptCause(a)
  BY <1>2 DEF InterruptCause, SameTX, SameRX, SameCR
<1>4. ACIAOK(b)
  BY <1>1, <1>2 DEF ACIAOK, SameTX, SameRX, SameCR
<1> QED BY <1>2, <1>3, <1>4 DEF ACIA_UpdateIRQ, Requests, b

(* An operator ends with ACIA_UpdateIRQ. *)
LEMMA ThenUpdateIRQ ==
  ASSUME NEW a, ACIAOK(a)
  PROVE LET b == ACIA_UpdateIRQ(a) IN
        /\ ACIAOK(b) /\ Requests(b)
        /\ \A c : SameTX(c, a) => SameTX(c, b)
        /\ \A c : SameRX(c, a) => SameRX(c, b)
        /\ \A c : SameSR(c, a) => SameSR(c, b)
        /\ \A c : SameCR(c, a) => SameCR(c, b)
  BY UpdateIRQKeeps DEF SameTX, SameRX, SameSR, SameCR

LEMMA WriteTDRKeeps ==
  ASSUME NEW a, ACIAOK(a), NEW byte \in Byte
  PROVE LET b == ACIA_Write_TDR(a, byte) IN
        /\ ACIAOK(b) /\ Requests(b) /\ SameRX(a, b) /\ SameSR(a, b) /\ SameCR(a, b)
        /\ b.TX_State = a.TX_State /\ b.TSR = a.TSR /\ b.TX_Size = a.TX_Size
        /\ b.TX_StopBits = a.TX_StopBits
        /\ b.TDR = byte /\ b.TDRE = FALSE
<1> DEFINE c == [a EXCEPT !.TDR = byte, !.TDRE = FALSE]
<1>1. c \in ACIAState
  BY DEF ACIAOK, ACIAState
<1>2. /\ SameRX(a, c) /\ SameSR(a, c) /\ SameCR(a, c)
      /\ c.TX_State = a.TX_State /\ c.TSR = a.TSR /\ c.TX_Size = a.TX_Size
      /\ c.TX_StopBits = a.TX_StopBits /\ c.TDR = byte /\ c.TDRE = FALSE
  BY DEF ACIAOK, ACIAState, SameRX, SameSR, SameCR
<1> HIDE DEF c
<1>3. ACIAOK(c)
  BY <1>1, <1>2 DEF ACIAOK, SameRX, SameCR
<1>4. LET b == ACIA_UpdateIRQ(c) IN
      ACIAOK(b) /\ Requests(b) /\ SameTX(c, b) /\ SameRX(a, b) /\ SameSR(a, b) /\ SameCR(a, b)
  BY <1>2, <1>3, UpdateIRQKeeps, ThenUpdateIRQ
<1> QED BY <1>2, <1>4 DEF ACIA_Write_TDR, c, SameTX

(* A master reset, of the registers. *)
Cleared(a, b) ==
  /\ b.TX_State = "idle" /\ b.TDRE = TRUE /\ b.TX_Size = 0 /\ b.TDR = a.TDR
  /\ b.RX_State = "idle" /\ b.RX_Size = 0 /\ b.RDR = a.RDR
  /\ b.RDRF = FALSE /\ b.RX_Overrun = FALSE /\ b.OVRN = FALSE

LEMMA MasterResetClears ==
  ASSUME NEW a, ACIAOK(a)
  PROVE LET b == ACIA_MasterReset(a) IN
        ACIAOK(b) /\ Cleared(a, b) /\ SameCR(a, b) /\ b.IRQ = FALSE
<1> DEFINE b == ACIA_MasterReset(a)
<1>1. b \in ACIAState
  <2>1. 0 \in 0 .. ByteBits
    BY ByteBitsAssumption
  <2> DEFINE x == [a EXCEPT !.RDRF = FALSE, !.TDRE = TRUE, !.FE = FALSE]
             y == [x EXCEPT !.OVRN = FALSE, !.PE = FALSE]
             c == [y EXCEPT !.IRQ = FALSE, !.RX_Overrun = FALSE]
             d == [c EXCEPT !.TX_State = "idle", !.TSR = Zero, !.TX_Size = 0]
             e == [d EXCEPT !.RX_State = "idle", !.RSR = Zero, !.RX_Size = 0]
  <2>2. c \in ACIAState
    <3>1. x \in ACIAState
      BY DEF ACIAOK, ACIAState
    <3>2. y \in ACIAState
      <4> HIDE DEF x
      <4> QED BY ONLY <3>1 DEF ACIAState
    <3> HIDE DEF y
    <3> QED BY ONLY <3>2 DEF ACIAState
  <2>3. d \in ACIAState
    <3> HIDE DEF c
    <3> QED BY <2>1, <2>2, ZeroByte DEF ACIAState, States
  <2>4. e \in ACIAState
    <3> HIDE DEF d
    <3> QED BY <2>1, <2>3, ZeroByte DEF ACIAState, States
  <2>5. b = e
    BY DEF ACIA_MasterReset
  <2> HIDE DEF b, e
  <2> QED BY <2>4, <2>5
<1>2. Cleared(a, b) /\ SameCR(a, b) /\ b.IRQ = FALSE
  BY DEF ACIAOK, ACIAState, ACIA_MasterReset, Cleared, SameCR
<1> HIDE DEF b
<1>3. ACIAOK(b)
  BY <1>1, <1>2 DEF ACIAOK, Cleared, SameCR, SizeOK
<1> QED BY <1>2, <1>3 DEF b

(* A write to CR. *)
LEMMA WriteCRKeeps ==
  ASSUME NEW a, ACIAOK(a), NEW cr \in ControlRegister
  PROVE LET b == ACIA_Write_CR(a, cr) IN
        /\ ACIAOK(b) /\ Requests(b) /\ b.CR = cr /\ b.TX_SendBrk = (cr.tx = 3)
        /\ IF IsMasterReset(cr) THEN Cleared(a, b)
           ELSE SameTX(a, b) /\ SameRX(a, b) /\ SameSR(a, b)
<1> DEFINE d == [a EXCEPT !.Clock_Divider = ACIA_Counter_Divide[cr.divide + 1]]
           c == IF IsMasterReset(cr) THEN ACIA_MasterReset(a)
                ELSE IF cr.divide # a.CR.divide THEN d ELSE a
           e == [c EXCEPT !.TX_EnableInt = cr.tx = 1, !.TX_SendBrk = cr.tx = 3, !.CR = cr]
           Parts(x) == IF IsMasterReset(cr) THEN Cleared(a, x)
                       ELSE SameTX(a, x) /\ SameRX(a, x) /\ SameSR(a, x)
<1>1. ASSUME ~IsMasterReset(cr)
      PROVE  ACIAOK(d) /\ SameTX(a, d) /\ SameRX(a, d) /\ SameSR(a, d)
  <2>1. ACIA_Counter_Divide[cr.divide + 1] \in {1, 16, 64}
    BY <1>1 DEF ControlRegister, ACIA_Counter_Divide, IsMasterReset
  <2>2. /\ d \in ACIAState /\ SameTX(a, d) /\ SameRX(a, d) /\ SameSR(a, d) /\ SameCR(a, d)
    BY <2>1 DEF ACIAOK, ACIAState, SameTX, SameRX, SameSR, SameCR
  <2> HIDE DEF d
  <2> QED BY <2>2 DEF ACIAOK, SameTX, SameRX, SameCR
<1>2. ACIAOK(c) /\ Parts(c)
  <2> HIDE DEF d
  <2> QED BY <1>1, MasterResetClears DEF SameTX, SameRX, SameSR
<1> HIDE DEF c, d
<1>3. /\ e \in ACIAState /\ e.CR = cr /\ e.TX_SendBrk = (cr.tx = 3)
      /\ SameTX(c, e) /\ SameRX(c, e) /\ SameSR(c, e)
  <2> DEFINE en == cr.tx = 1
             brk == cr.tx = 3
  <2>1. en \in BOOLEAN /\ brk \in BOOLEAN /\ c \in ACIAState
    BY <1>2 DEF ACIAOK
  <2>2. e = [c EXCEPT !.TX_EnableInt = en, !.TX_SendBrk = brk, !.CR = cr]
    OBVIOUS
  <2>3. e.TX_SendBrk = brk
    <3> HIDE DEF en, brk, e
    <3> QED BY <2>1, <2>2 DEF ACIAState
  <2>4. e \in ACIAState
    <3> HIDE DEF en, brk, e
    <3> DEFINE x == [c EXCEPT !.TX_EnableInt = en, !.TX_SendBrk = brk]
    <3>1. x \in ACIAState
      BY ONLY <2>1 DEF ACIAState
    <3>2. e = [x EXCEPT !.CR = cr]
      BY <2>2
    <3> HIDE DEF x
    <3> QED BY ONLY cr \in ControlRegister, <3>1, <3>2 DEF ACIAState
  <2>5. e.CR = cr /\ SameTX(c, e) /\ SameRX(c, e) /\ SameSR(c, e)
    <3> HIDE DEF en, brk, e
    <3> QED BY ONLY <2>1, <2>2 DEF ACIAState, SameTX, SameRX, SameSR
  <2> QED BY <2>3, <2>4, <2>5
<1> HIDE DEF e
<1>4. ACIAOK(e)
  BY <1>2, <1>3 DEF ACIAOK, SameTX, SameRX
<1>5. Parts(e)
  <2>1. CASE IsMasterReset(cr)
    BY <1>2, <1>3, <2>1 DEF Cleared, SameTX, SameRX, SameSR
  <2>2. CASE ~IsMasterReset(cr)
    BY <1>2, <1>3, <2>2 DEF SameTX, SameRX, SameSR
  <2> QED BY <2>1, <2>2
<1> DEFINE b == ACIA_UpdateIRQ(e)
<1>6. /\ ACIAOK(b) /\ Requests(b)
      /\ SameTX(e, b) /\ SameRX(e, b) /\ SameSR(e, b) /\ SameCR(e, b)
  BY <1>4, UpdateIRQKeeps
<1>7. b = ACIA_Write_CR(a, cr)
  BY DEF ACIA_Write_CR, c, d, e
<1> HIDE DEF b
<1>8. Parts(b)
  <2>1. CASE IsMasterReset(cr)
    BY <1>5, <1>6, <2>1 DEF Cleared, SameTX, SameRX, SameSR
  <2>2. CASE ~IsMasterReset(cr)
    BY <1>5, <1>6, <2>2 DEF SameTX, SameRX, SameSR
  <2> QED BY <2>1, <2>2
<1>9. b.CR = cr /\ b.TX_SendBrk = (cr.tx = 3)
  BY <1>3, <1>6 DEF SameCR
<1> QED BY <1>6, <1>7, <1>8, <1>9

(* Reads of SR and of RDR. *)
LEMMA ReadSRKeeps ==
  ASSUME NEW a, ACIAOK(a)
  PROVE LET b == ACIA_Read_SR(a) IN
        /\ ACIAOK(b) /\ SameTX(a, b) /\ SameRX(a, b) /\ SameCR(a, b)
        /\ b.OVRN = a.OVRN /\ b.SR_Read = TRUE /\ b.IRQ = a.IRQ
        /\ InterruptCause(b) = InterruptCause(a)
<1> DEFINE b == [a EXCEPT !.SR_Read = TRUE]
<1>1. /\ b \in ACIAState /\ SameTX(a, b) /\ SameRX(a, b) /\ SameCR(a, b)
      /\ b.OVRN = a.OVRN /\ b.SR_Read = TRUE /\ b.IRQ = a.IRQ /\ b.TX_EnableInt = a.TX_EnableInt
  BY DEF ACIAOK, ACIAState, SameTX, SameRX, SameCR
<1>2. b = ACIA_Read_SR(a)
  BY DEF ACIA_Read_SR
<1> HIDE DEF b
<1>3. ACIAOK(b) /\ InterruptCause(b) = InterruptCause(a)
  BY <1>1 DEF ACIAOK, InterruptCause, SameTX, SameRX, SameCR
<1> QED BY <1>1, <1>2, <1>3

LEMMA ReadRDRKeeps ==
  ASSUME NEW a, ACIAOK(a)
  PROVE LET b == ACIA_Read_RDR(a) IN
        /\ ACIAOK(b) /\ Requests(b) /\ SameTX(a, b) /\ SameCR(a, b)
        /\ b.RX_State = a.RX_State /\ b.RSR = a.RSR /\ b.RX_Size = a.RX_Size
        /\ b.RX_StopBits = a.RX_StopBits /\ b.RDR = a.RDR
        /\ b.RDRF = FALSE /\ b.RX_Overrun = FALSE /\ b.SR_Read = FALSE
        /\ b.OVRN = (a.RX_Overrun \/ (a.OVRN /\ ~a.SR_Read))
<1> DEFINE new == a.RX_Overrun \/ (a.OVRN /\ ~a.SR_Read)
           c == [a EXCEPT !.RDRF = FALSE, !.PE = FALSE, !.SR_Read = FALSE, !.OVRN = new,
                          !.RX_Overrun = FALSE]
           b == ACIA_UpdateIRQ(c)
           Read(x) == /\ x.RX_State = a.RX_State /\ x.RSR = a.RSR /\ x.RX_Size = a.RX_Size
                      /\ x.RX_StopBits = a.RX_StopBits /\ x.RDR = a.RDR
                      /\ x.RDRF = FALSE /\ x.RX_Overrun = FALSE /\ x.SR_Read = FALSE
                      /\ x.OVRN = new
<1>0. new \in BOOLEAN
  BY DEF ACIAOK, ACIAState
<1>1. c \in ACIAState /\ SameTX(a, c) /\ SameCR(a, c) /\ Read(c)
  <2> HIDE DEF new
  <2>1. a \in ACIAState
    BY DEF ACIAOK
  <2>2. c \in ACIAState
    <3> DEFINE x == [a EXCEPT !.RDRF = FALSE, !.PE = FALSE, !.SR_Read = FALSE]
               y == [x EXCEPT !.OVRN = new, !.RX_Overrun = FALSE]
    <3>1. x \in ACIAState
      BY ONLY <2>1 DEF ACIAState
    <3>2. y \in ACIAState
      <4> HIDE DEF x
      <4> QED BY ONLY <1>0, <3>1 DEF ACIAState
    <3> QED BY <3>2
  <2>3. SameTX(a, c) /\ SameCR(a, c)
    BY ONLY <2>1 DEF ACIAState, SameTX, SameCR
  <2>4. Read(c)
    BY ONLY <2>1 DEF ACIAState
  <2> QED BY <2>2, <2>3, <2>4
<1>2. b = ACIA_Read_RDR(a)
  BY DEF ACIA_Read_RDR
<1> HIDE DEF c, new
<1>3. ACIAOK(c)
  BY <1>1 DEF ACIAOK, SameTX, SameCR
<1>4. /\ ACIAOK(b) /\ Requests(b)
      /\ SameTX(c, b) /\ SameRX(c, b) /\ SameSR(c, b) /\ SameCR(c, b)
  BY <1>3, UpdateIRQKeeps
<1> HIDE DEF b
<1>5. SameTX(a, b) /\ SameCR(a, b) /\ Read(b)
  BY <1>1, <1>4 DEF SameTX, SameCR, SameRX, SameSR
<1> QED BY <1>2, <1>4, <1>5 DEF new

-----------------------------------------------------------------------------
(* One bit of the transmitter. *)

(* What is sent next: nothing, a break or a start bit; a data bit; a       *)
(* parity bit; a stop bit.                                                 *)
IdleTick(a, b) ==
  IF a.TX_SendBrk \/ a.TDRE
  THEN SameTX(a, b) /\ TX_Bit(a) = (IF a.TX_SendBrk THEN 0 ELSE 1)
  ELSE /\ TX_Bit(a) = 0 /\ b.TX_State = "data" /\ b.TSR = a.TDR /\ b.TDRE = TRUE
       /\ b.TX_Size = SerialParams(a).DataBits /\ b.TX_StopBits = SerialParams(a).StopBits

DataTick(a, b) ==
  /\ TX_Bit(a) = a.TSR[1] /\ b.TSR = ShiftRight(a.TSR) /\ b.TX_Size = a.TX_Size - 1
  /\ b.TX_State = IF a.TX_Size = 1 THEN AfterData(a) ELSE "data"
  /\ b.TX_StopBits = a.TX_StopBits /\ b.TDRE = a.TDRE

ParityTick(a, b) ==
  /\ b.TX_State = "stop" /\ b.TSR = a.TSR /\ b.TX_Size = a.TX_Size
  /\ b.TX_StopBits = a.TX_StopBits /\ b.TDRE = a.TDRE

StopTick(a, b) ==
  /\ TX_Bit(a) = 1 /\ b.TX_StopBits = a.TX_StopBits - 1
  /\ b.TX_State = IF a.TX_StopBits = 1 THEN "idle" ELSE "stop"
  /\ b.TSR = a.TSR /\ b.TX_Size = a.TX_Size /\ b.TDRE = a.TDRE

TXTick(a, b) ==
  /\ a.TX_State = "idle" => IdleTick(a, b)
  /\ a.TX_State = "data" => DataTick(a, b)
  /\ a.TX_State = "parity" => ParityTick(a, b)
  /\ a.TX_State = "stop" => StopTick(a, b)

LEMMA PrepareTX ==
  ASSUME NEW a, ACIAOK(a)
  PROVE LET b == ACIA_Prepare_TX(a) IN
        /\ b \in ACIAState /\ SameRX(a, b) /\ SameSR(a, b) /\ SameCR(a, b)
        /\ b.TX_State = a.TX_State /\ b.TSR = a.TDR /\ b.TDRE = TRUE /\ b.TDR = a.TDR
        /\ b.TX_Size = SerialParams(a).DataBits /\ b.TX_StopBits = SerialParams(a).StopBits
        /\ b.TX_Size > 0 /\ b.TX_StopBits > 0
<1> DEFINE n == SerialParams(a).DataBits
           m == SerialParams(a).StopBits
<1>1. a \in ACIAState
  BY DEF ACIAOK
<1>2. n \in 0 .. ByteBits /\ m \in 0 .. 2 /\ n > 0 /\ m > 0 /\ 0 \in Bit
  BY <1>1, Formats, ByteBitsAssumption DEF Bit
<1> HIDE DEF n, m
<1>3. [a EXCEPT !.TSR = a.TDR, !.TX_Parity = 0, !.TX_Size = n, !.TX_StopBits = m, !.TDRE = TRUE]
        = ACIA_Prepare_TX(a)
  BY DEF n, m, ACIA_Prepare_TX
<1> DEFINE b == [a EXCEPT !.TSR = a.TDR, !.TX_Parity = 0, !.TX_Size = n, !.TX_StopBits = m,
                          !.TDRE = TRUE]
<1>4. b \in ACIAState
  BY ONLY <1>1, <1>2 DEF ACIAState
<1>5. /\ SameRX(a, b) /\ SameSR(a, b) /\ SameCR(a, b)
      /\ b.TX_State = a.TX_State /\ b.TSR = a.TDR /\ b.TDRE = TRUE /\ b.TDR = a.TDR
      /\ b.TX_Size = n /\ b.TX_StopBits = m
  BY ONLY <1>1, <1>2 DEF ACIAState, SameRX, SameSR, SameCR
<1> HIDE DEF b
<1> QED BY <1>2, <1>3, <1>4, <1>5 DEF n, m, b

(* A step of the transmitter before ACIA_UpdateIRQ. *)
TXStep(a) ==
  CASE a.TX_State = "idle"   -> TX_Idle(a)
    [] a.TX_State = "data"   -> TX_DataBit(a)
    [] a.TX_State = "parity" -> [a EXCEPT !.TX_State = "stop"]
    [] a.TX_State = "stop"   -> TX_StopBit(a)

TXFrame(a, b) ==
  b \in ACIAState /\ SameRX(a, b) /\ SameSR(a, b) /\ SameCR(a, b) /\ b.TDR = a.TDR

LEMMA TXStepTicks ==
  ASSUME NEW a, ACIAOK(a)
  PROVE  TXFrame(a, TXStep(a)) /\ TXTick(a, TXStep(a)) /\ TX_Bit(a) \in Bit
<1>0. a \in ACIAState /\ a.TX_State \in States
  BY DEF ACIAOK, ACIAState
<1>1. CASE a.TX_State = "idle"
  <2>0. a.TX_Size = 0
    BY <1>1 DEF ACIAOK, ACIAState, SizeOK
  <2>1. CASE a.TX_SendBrk \/ a.TDRE
    <3>1. TXStep(a) = a
      BY <1>1, <2>0, <2>1 DEF TXStep, TX_Idle, TX_Ready
    <3>2. TX_Bit(a) = IF a.TX_SendBrk THEN 0 ELSE 1
      BY <1>1, <2>0, <2>1 DEF TX_Bit, TX_Ready
    <3> QED
      BY <1>0, <1>1, <2>1, <3>1, <3>2
      DEF TXFrame, TXTick, IdleTick, SameTX, SameRX, SameSR, SameCR, Bit
  <2>2. CASE ~(a.TX_SendBrk \/ a.TDRE)
    <3> DEFINE p == ACIA_Prepare_TX(a)
               b == [p EXCEPT !.TX_State = "data"]
    <3>1. /\ p \in ACIAState /\ SameRX(a, p) /\ SameSR(a, p) /\ SameCR(a, p)
          /\ p.TSR = a.TDR /\ p.TDRE = TRUE /\ p.TDR = a.TDR
          /\ p.TX_Size = SerialParams(a).DataBits /\ p.TX_StopBits = SerialParams(a).StopBits
          /\ p.TX_Size > 0
      BY PrepareTX
    <3>2. TXStep(a) = b /\ TX_Bit(a) = 0
      <4>1. TX_Ready(a) = p
        BY <2>2 DEF TX_Ready
      <4> HIDE DEF p
      <4>2. p.TX_Size # 0
        BY <3>1 DEF ACIAState
      <4> QED BY <1>1, <2>2, <4>1, <4>2 DEF TXStep, TX_Idle, TX_Bit
    <3>3. TXFrame(a, b) /\ IdleTick(a, b)
      <4> HIDE DEF p
      <4> QED
        BY <2>2, <3>1, <3>2
        DEF ACIAState, States, TXFrame, IdleTick, SameRX, SameSR, SameCR
    <3> QED BY <1>1, <3>2, <3>3 DEF TXTick, Bit
  <2> QED BY <2>1, <2>2
<1>2. CASE a.TX_State = "data"
  <2> DEFINE p == (a.TX_Parity + a.TSR[1]) % 2
             t == ShiftRight(a.TSR)
             n == a.TX_Size - 1
             s == IF a.TX_Size = 1 THEN AfterData(a) ELSE a.TX_State
             b == [a EXCEPT !.TX_Parity = p, !.TSR = t, !.TX_Size = n, !.TX_State = s]
  <2>1. a.TSR[1] \in Bit /\ a.TX_Parity \in Bit /\ a.TSR \in Byte /\ a.TX_Size \in 1 .. ByteBits
    BY <1>0, <1>2, ByteBitsAssumption DEF ACIAOK, ACIAState, Byte, SizeOK
  <2>2. p \in Bit /\ t \in Byte /\ n \in 0 .. ByteBits /\ s \in States
    BY <2>1, <1>2, ParityBit, ShiftByte, ByteBitsAssumption DEF AfterData, States
  <2>3. TXStep(a) = b
    BY <1>2 DEF TXStep, TX_DataBit
  <2>4. TX_Bit(a) = a.TSR[1]
    BY <1>2 DEF TX_Bit
  <2>5. b \in ACIAState
    <3> HIDE DEF p, t, n, s
    <3> QED BY <1>0, <2>2 DEF ACIAState
  <2>6. /\ SameRX(a, b) /\ SameSR(a, b) /\ SameCR(a, b) /\ b.TDR = a.TDR
        /\ b.TSR = t /\ b.TX_Size = n /\ b.TX_State = s
        /\ b.TX_StopBits = a.TX_StopBits /\ b.TDRE = a.TDRE
    <3> HIDE DEF p, t, n, s
    <3> QED BY <1>0 DEF ACIAState, SameRX, SameSR, SameCR
  <2> QED
    BY <1>2, <2>1, <2>3, <2>4, <2>5, <2>6 DEF TXFrame, TXTick, DataTick
<1>3. CASE a.TX_State = "parity"
  <2> DEFINE b == [a EXCEPT !.TX_State = "stop"]
  <2>1. b \in ACIAState /\ SameRX(a, b) /\ SameSR(a, b) /\ SameCR(a, b) /\ b.TDR = a.TDR
        /\ ParityTick(a, b)
    BY <1>0 DEF ACIAState, States, SameRX, SameSR, SameCR, ParityTick
  <2>2. TXStep(a) = b
    BY <1>3 DEF TXStep
  <2>3. TX_Bit(a) \in Bit
    BY <1>0, <1>3 DEF TX_Bit, ACIAState, Bit
  <2> QED BY <1>3, <2>1, <2>2, <2>3 DEF TXFrame, TXTick
<1>4. CASE a.TX_State = "stop"
  <2> DEFINE n == a.TX_StopBits - 1
             s == IF a.TX_StopBits = 1 THEN "idle" ELSE a.TX_State
             b == [a EXCEPT !.TX_StopBits = n, !.TX_State = s]
  <2>1. n \in 0 .. 2 /\ s \in States
    BY <1>0, <1>4 DEF ACIAOK, ACIAState, States
  <2>2. TXStep(a) = b /\ TX_Bit(a) = 1
    BY <1>4 DEF TXStep, TX_StopBit, TX_Bit
  <2>3. b \in ACIAState
    <3> HIDE DEF n, s
    <3> QED BY <1>0, <2>1 DEF ACIAState
  <2>4. /\ SameRX(a, b) /\ SameSR(a, b) /\ SameCR(a, b) /\ b.TDR = a.TDR
        /\ b.TSR = a.TSR /\ b.TX_Size = a.TX_Size /\ b.TX_State = s
        /\ b.TX_StopBits = n /\ b.TDRE = a.TDRE
    <3> HIDE DEF n, s
    <3> QED BY <1>0 DEF ACIAState, SameRX, SameSR, SameCR
  <2> QED
    BY <1>4, <2>2, <2>3, <2>4 DEF TXFrame, TXTick, StopTick, Bit
<1> QED BY <1>0, <1>1, <1>2, <1>3, <1>4 DEF States

LEMMA ClockTXTicks ==
  ASSUME NEW a, ACIAOK(a)
  PROVE LET b == ACIA_Clock_TX(a) IN
        /\ ACIAOK(b) /\ Requests(b) /\ SameRX(a, b) /\ SameSR(a, b) /\ SameCR(a, b)
        /\ b.TDR = a.TDR /\ TXTick(a, b) /\ TX_Bit(a) \in Bit
<1> DEFINE c == TXStep(a)
           b == ACIA_UpdateIRQ(c)
<1>1. TXFrame(a, c) /\ TXTick(a, c) /\ TX_Bit(a) \in Bit
  BY TXStepTicks
<1>2. b = ACIA_Clock_TX(a)
  BY DEF TXStep, ACIA_Clock_TX
<1>3. a \in ACIAState /\ c \in ACIAState /\ a.TX_State \in States
  BY <1>1 DEF ACIAOK, ACIAState, TXFrame
<1> HIDE DEF c
<1>4. SizeOK(c.TX_State, c.TX_Size) /\ (c.TX_State # "idle" => c.TX_StopBits > 0)
  <2>1. CASE a.TX_State = "idle"
    BY <1>1, <1>3, <2>1, Formats DEF TXTick, IdleTick, SameTX, ACIAOK, SizeOK
  <2>2. CASE a.TX_State = "data"
    BY <1>1, <1>3, <2>2 DEF TXTick, DataTick, AfterData, ACIAOK, SizeOK, ACIAState
  <2>3. CASE a.TX_State = "parity"
    BY <1>1, <1>3, <2>3 DEF TXTick, ParityTick, ACIAOK, SizeOK, ACIAState
  <2>4. CASE a.TX_State = "stop"
    BY <1>1, <1>3, <2>4 DEF TXTick, StopTick, ACIAOK, SizeOK, ACIAState
  <2> QED BY <1>3, <2>1, <2>2, <2>3, <2>4 DEF States
<1>5. ACIAOK(c)
  BY <1>1, <1>3, <1>4 DEF ACIAOK, TXFrame, SameRX, SameCR
<1>6. /\ ACIAOK(b) /\ Requests(b)
      /\ SameTX(c, b) /\ SameRX(c, b) /\ SameSR(c, b) /\ SameCR(c, b)
  BY <1>5, UpdateIRQKeeps
<1> HIDE DEF b
<1>7. /\ SameRX(a, b) /\ SameSR(a, b) /\ SameCR(a, b) /\ b.TDR = a.TDR
  BY <1>1, <1>6 DEF TXFrame, SameTX, SameRX, SameSR, SameCR
<1>8. TXTick(a, b)
  BY <1>1, <1>6 DEF TXTick, IdleTick, DataTick, ParityTick, StopTick, SameTX
<1> QED BY <1>1, <1>2, <1>6, <1>7, <1>8
-----------------------------------------------------------------------------
(* One bit of the receiver. *)

SameReg(a, b) == b.RDR = a.RDR /\ b.RDRF = a.RDRF /\ b.RX_Overrun = a.RX_Overrun

RXIdleTick(a, b, bit) ==
  IF bit = 0
  THEN /\ b.RX_State = "data" /\ b.RSR = Zero
       /\ b.RX_Size = SerialParams(a).DataBits /\ b.RX_StopBits = SerialParams(a).StopBits
       /\ SameReg(a, b)
  ELSE SameRX(a, b)

RXDataTick(a, b, bit) ==
  /\ b.RX_Size = a.RX_Size - 1 /\ b.RX_StopBits = a.RX_StopBits /\ SameReg(a, b)
  /\ IF a.RX_Size > 1 THEN b.RX_State = "data" /\ b.RSR = ShiftRight(SetTopBit(a.RSR, bit))
                      ELSE b.RX_State = AfterData(a) /\ b.RSR = SetTopBit(a.RSR, bit)

RXParityTick(a, b) ==
  /\ b.RX_State = "stop" /\ b.RSR = a.RSR /\ b.RX_Size = a.RX_Size
  /\ b.RX_StopBits = a.RX_StopBits /\ SameReg(a, b)

RXStopTick(a, b, bit) ==
  /\ b.RSR = a.RSR /\ b.RX_Size = a.RX_Size
  /\ bit = 1 => b.RX_StopBits = a.RX_StopBits - 1
  /\ IF bit = 1 /\ a.RX_StopBits > 1
     THEN b.RX_State = "stop" /\ SameReg(a, b)
     ELSE /\ b.RX_State = "idle"
          /\ bit = 1 => IF a.RDRF THEN b.RX_Overrun = TRUE /\ b.RDR = a.RDR /\ b.RDRF = a.RDRF
                        ELSE b.RDR = a.RSR /\ b.RDRF = TRUE /\ b.RX_Overrun = a.RX_Overrun

RXTick(a, b, bit) ==
  /\ a.RX_State = "idle" => RXIdleTick(a, b, bit)
  /\ a.RX_State = "data" => RXDataTick(a, b, bit)
  /\ a.RX_State = "parity" => RXParityTick(a, b)
  /\ a.RX_State = "stop" => RXStopTick(a, b, bit)

RXFrame(a, b) == b \in ACIAState /\ SameTX(a, b) /\ SameSR(a, b) /\ SameCR(a, b)

LEMMA RXStepTicks ==
  ASSUME NEW a, ACIAOK(a), NEW bit \in Bit
  PROVE  RXFrame(a, RX_Step(a, bit)) /\ RXTick(a, RX_Step(a, bit), bit)
<1>0. a \in ACIAState /\ a.RX_State \in States
  BY DEF ACIAOK, ACIAState
<1>1. CASE a.RX_State = "idle"
  <2>1. CASE bit = 1
    <3>1. RX_Step(a, bit) = a
      BY <1>1, <2>1 DEF RX_Step
    <3> QED
      BY <1>0, <1>1, <2>1, <3>1
      DEF RXFrame, RXTick, RXIdleTick, SameTX, SameRX, SameSR, SameCR
  <2>2. CASE bit = 0
    <3> DEFINE n == SerialParams(a).DataBits
               m == SerialParams(a).StopBits
               b == [a EXCEPT !.RSR = Zero, !.RX_Parity = 0, !.RX_Size = n, !.RX_StopBits = m,
                              !.RX_State = "data"]
    <3>1. n \in 0 .. ByteBits /\ m \in 0 .. 2 /\ 0 \in Bit /\ "data" \in States /\ Zero \in Byte
      BY <1>0, Formats, ZeroByte, ByteBitsAssumption DEF Bit, States
    <3>2. RX_Step(a, bit) = b
      BY <1>1, <2>2 DEF RX_Step, ACIA_Prepare_RX
    <3>3. /\ b \in ACIAState /\ SameTX(a, b) /\ SameSR(a, b) /\ SameCR(a, b) /\ SameReg(a, b)
          /\ b.RX_State = "data" /\ b.RSR = Zero /\ b.RX_Size = n /\ b.RX_StopBits = m
      <4> HIDE DEF n, m
      <4> QED BY <1>0, <3>1 DEF ACIAState, SameTX, SameSR, SameCR, SameReg
    <3> QED BY <1>1, <2>2, <3>2, <3>3 DEF RXFrame, RXTick, RXIdleTick
  <2> QED BY <2>1, <2>2 DEF Bit
<1>2. CASE a.RX_State = "data"
  <2> DEFINE p == (a.RX_Parity + bit) % 2
             n == a.RX_Size - 1
             y == SetTopBit(a.RSR, bit)
             t == IF a.RX_Size > 1 THEN ShiftRight(y) ELSE y
             s == IF a.RX_Size > 1 THEN a.RX_State ELSE AfterData(a)
             b == [a EXCEPT !.RX_Parity = p, !.RX_Size = n, !.RSR = t, !.RX_State = s]
  <2>1. a.RX_Parity \in Bit /\ a.RSR \in Byte /\ a.RSR[ByteBits] = 0 /\ a.RX_Size \in 1 .. ByteBits
    BY <1>0, <1>2 DEF ACIAOK, ACIAState, SizeOK
  <2>2. p \in Bit /\ n \in 0 .. ByteBits /\ s \in States
    BY <2>1, <1>2, ParityBit, ByteBitsAssumption DEF AfterData, States
  <2>3. t \in Byte
    <3>1. y \in Byte
      BY <2>1, TopBitByte
    <3> HIDE DEF y
    <3> QED BY <3>1, ShiftByte
  <2>4. RX_Step(a, bit) = b
    BY <1>2 DEF RX_Step, RX_DataBit
  <2>5. b \in ACIAState
    <3> HIDE DEF p, t, n, s
    <3> QED BY <1>0, <2>2, <2>3 DEF ACIAState
  <2>6. /\ SameTX(a, b) /\ SameSR(a, b) /\ SameCR(a, b) /\ SameReg(a, b)
        /\ b.RSR = t /\ b.RX_Size = n /\ b.RX_State = s /\ b.RX_StopBits = a.RX_StopBits
    <3> HIDE DEF p, t, n, s
    <3> QED BY <1>0 DEF ACIAState, SameTX, SameSR, SameCR, SameReg
  <2> HIDE DEF b
  <2>7. RXDataTick(a, b, bit)
    BY <1>2, <2>6 DEF RXDataTick
  <2> QED
    BY <1>2, <2>4, <2>5, <2>6, <2>7 DEF RXFrame, RXTick
<1>3. CASE a.RX_State = "parity"
  <2> DEFINE e == a.PE \/ SerialParams(a).Parity = "even" \/ a.RX_Parity = bit
             b == [a EXCEPT !.PE = e, !.RX_State = "stop"]
  <2>1. e \in BOOLEAN /\ "stop" \in States
    BY <1>0 DEF ACIAState, States
  <2>2. RX_Step(a, bit) = b
    BY <1>3 DEF RX_Step, RX_ParityBit
  <2>3. b \in ACIAState /\ SameTX(a, b) /\ SameSR(a, b) /\ SameCR(a, b) /\ RXParityTick(a, b)
    <3> HIDE DEF e
    <3> QED BY <1>0, <2>1 DEF ACIAState, SameTX, SameSR, SameCR, SameReg, RXParityTick
  <2> QED BY <1>3, <2>2, <2>3 DEF RXFrame, RXTick
<1>4. CASE a.RX_State = "stop"
  <2>0. a.RX_StopBits \in 1 .. 2
    BY <1>0, <1>4 DEF ACIAOK, ACIAState
  <2>1. CASE bit = 0
    <3> DEFINE b == [a EXCEPT !.FE = TRUE, !.RDR = a.RSR, !.RX_State = "idle"]
    <3>1. RX_Step(a, bit) = b
      BY <1>4, <2>1 DEF RX_Step, RX_StopBit, RX_FramingError
    <3>2. /\ b \in ACIAState /\ SameTX(a, b) /\ SameSR(a, b) /\ SameCR(a, b)
          /\ b.RSR = a.RSR /\ b.RX_Size = a.RX_Size /\ b.RX_State = "idle"
      BY <1>0 DEF ACIAState, States, SameTX, SameSR, SameCR
    <3> HIDE DEF b
    <3> QED BY <1>4, <2>1, <3>1, <3>2 DEF RXFrame, RXTick, RXStopTick
  <2>2. CASE bit = 1
    <3> DEFINE n == a.RX_StopBits - 1
               b == [a EXCEPT !.RX_StopBits = n]
               c == [b EXCEPT !.FE = FALSE, !.RX_State = "idle"]
               d == IF a.RDRF THEN [c EXCEPT !.RX_Overrun = TRUE]
                              ELSE [c EXCEPT !.RDR = a.RSR, !.RDRF = TRUE]
    <3>1. n \in 0 .. 1 /\ n \in 0 .. 2
      BY <2>0
    <3>2. /\ b \in ACIAState /\ SameTX(a, b) /\ SameSR(a, b) /\ SameCR(a, b) /\ SameReg(a, b)
          /\ b.RSR = a.RSR /\ b.RX_Size = a.RX_Size /\ b.RX_State = "stop" /\ b.RX_StopBits = n
      <4> HIDE DEF n
      <4> QED BY <1>0, <1>4, <3>1 DEF ACIAState, SameTX, SameSR, SameCR, SameReg
    <3>3. RX_Step(a, bit) = IF n = 0 THEN d ELSE b
      <4> HIDE DEF n
      <4>1. RX_Step(a, bit) = IF b.RX_StopBits = 0 THEN RX_Complete(b) ELSE b
        BY <1>4, <2>2 DEF RX_Step, RX_StopBit, n
      <4>2. RX_Complete(b) = d
        <5>1. b.RDRF = a.RDRF /\ b.RSR = a.RSR
          BY <3>2 DEF SameReg
        <5> HIDE DEF b
        <5> QED BY <5>1 DEF RX_Complete
      <4> QED BY <4>1, <4>2, <3>2
    <3>4. /\ c \in ACIAState /\ SameTX(a, c) /\ SameSR(a, c) /\ SameCR(a, c) /\ SameReg(a, c)
          /\ c.RSR = a.RSR /\ c.RX_Size = a.RX_Size /\ c.RX_State = "idle" /\ c.RX_StopBits = n
      <4> HIDE DEF b, n
      <4> QED BY <3>2 DEF ACIAState, States, SameTX, SameSR, SameCR, SameReg
    <3>5. /\ d \in ACIAState /\ SameTX(a, d) /\ SameSR(a, d) /\ SameCR(a, d)
          /\ d.RSR = a.RSR /\ d.RX_Size = a.RX_Size /\ d.RX_State = "idle" /\ d.RX_StopBits = n
          /\ IF a.RDRF THEN d.RX_Overrun = TRUE /\ d.RDR = a.RDR /\ d.RDRF = a.RDRF
             ELSE d.RDR = a.RSR /\ d.RDRF = TRUE /\ d.RX_Overrun = a.RX_Overrun
      <4> HIDE DEF c, n
      <4>1. CASE a.RDRF
        <5>1. d = [c EXCEPT !.RX_Overrun = TRUE]
          BY <4>1
        <5> HIDE DEF d
        <5> QED BY ONLY <3>4, <4>1, <5>1 DEF ACIAState, SameTX, SameSR, SameCR, SameReg
      <4>2. CASE ~a.RDRF
        <5>1. d = [c EXCEPT !.RDR = a.RSR, !.RDRF = TRUE] /\ a.RSR \in Byte
          BY <1>0, <4>2 DEF ACIAState
        <5> HIDE DEF d
        <5> QED BY ONLY <3>4, <4>2, <5>1 DEF ACIAState, SameTX, SameSR, SameCR, SameReg
      <4> QED BY <4>1, <4>2
    <3> HIDE DEF b, c, d
    <3>6. CASE n = 0
      <4>1. a.RX_StopBits = 1
        BY <2>0, <3>6
      <4> QED BY <1>4, <2>2, <3>3, <3>5, <3>6, <4>1 DEF RXFrame, RXTick, RXStopTick
    <3>7. CASE n # 0
      <4>1. a.RX_StopBits > 1
        BY <2>0, <3>7
      <4> QED BY <1>4, <2>2, <3>2, <3>3, <3>7, <4>1 DEF RXFrame, RXTick, RXStopTick
    <3> QED BY <3>6, <3>7
  <2> QED BY <2>1, <2>2 DEF Bit
<1> QED BY <1>0, <1>1, <1>2, <1>3, <1>4 DEF States

LEMMA ClockRXTicks ==
  ASSUME NEW a, ACIAOK(a), NEW bit \in Bit
  PROVE LET b == ACIA_Clock_RX(a, bit) IN
        /\ ACIAOK(b) /\ Requests(b) /\ SameTX(a, b) /\ SameSR(a, b) /\ SameCR(a, b)
        /\ RXTick(a, b, bit)
<1> DEFINE c == RX_Step(a, bit)
           b == ACIA_UpdateIRQ(c)
<1>1. RXFrame(a, c) /\ RXTick(a, c, bit)
  BY RXStepTicks
<1>2. b = ACIA_Clock_RX(a, bit)
  BY DEF ACIA_Clock_RX
<1>3. a \in ACIAState /\ c \in ACIAState /\ a.RX_State \in States
  BY <1>1 DEF ACIAOK, ACIAState, RXFrame
<1> HIDE DEF c
<1>4. /\ SizeOK(c.RX_State, c.RX_Size) /\ (c.RX_State # "idle" => c.RX_StopBits > 0)
      /\ c.RX_State = "data" => c.RSR[ByteBits] = 0
  <2>1. CASE a.RX_State = "idle"
    <3>1. SerialParams(a).DataBits > 0 /\ SerialParams(a).StopBits > 0 /\ Zero[ByteBits] = 0
      BY <1>3, Formats, ZeroByte, ByteBitsAssumption
    <3> QED BY <1>1, <2>1, <3>1 DEF RXTick, RXIdleTick, SameRX, ACIAOK, SizeOK
  <2>2. CASE a.RX_State = "data"
    <3>1. ShiftRight(SetTopBit(a.RSR, bit))[ByteBits] = 0
      BY ByteBitsAssumption DEF ShiftRight
    <3>2. a.RX_Size \in 1 .. ByteBits /\ a.RX_StopBits > 0
      BY <1>3, <2>2 DEF ACIAOK, ACIAState, SizeOK
    <3>3. AfterData(a) \in {"stop", "parity"}
      BY DEF AfterData
    <3> QED BY <1>1, <2>2, <3>1, <3>2, <3>3, ByteBitsAssumption DEF RXTick, RXDataTick, SizeOK
  <2>3. CASE a.RX_State = "parity"
    BY <1>1, <1>3, <2>3 DEF RXTick, RXParityTick, ACIAOK, SizeOK, ACIAState
  <2>4. CASE a.RX_State = "stop"
    BY <1>1, <1>3, <2>4 DEF RXTick, RXStopTick, ACIAOK, SizeOK, ACIAState
  <2> QED BY <1>3, <2>1, <2>2, <2>3, <2>4 DEF States
<1>5. ACIAOK(c)
  BY <1>1, <1>3, <1>4 DEF ACIAOK, RXFrame, SameTX, SameCR
<1>6. /\ ACIAOK(b) /\ Requests(b)
      /\ SameTX(c, b) /\ SameRX(c, b) /\ SameSR(c, b) /\ SameCR(c, b)
  BY <1>5, UpdateIRQKeeps
<1> HIDE DEF b
<1>7. SameTX(a, b) /\ SameSR(a, b) /\ SameCR(a, b)
  BY <1>1, <1>6 DEF RXFrame, SameTX, SameSR, SameCR
<1>8. RXTick(a, b, bit)
  BY <1>1, <1>6 DEF RXTick, RXIdleTick, RXDataTick, RXParityTick, RXStopTick, SameReg, SameRX
<1> QED BY <1>2, <1>6, <1>7, <1>8
-----------------------------------------------------------------------------
(* The serial interface of the IKBD. *)

SameKTX(k, m) == m.TX_State = k.TX_State /\ m.TSR = k.TSR /\ m.TX_Size = k.TX_Size
SameKRX(k, m) ==
  m.RX_State = k.RX_State /\ m.RSR = k.RSR /\ m.RX_Size = k.RX_Size /\ m.RDR = k.RDR
SameRing(k, m) ==
  /\ m.Buffer = k.Buffer /\ m.BufferHead = k.BufferHead /\ m.BufferTail = k.BufferTail
  /\ m.NbBytesInOutputBuffer = k.NbBytesInOutputBuffer

LEMMA RingIndex ==
  ASSUME NEW h \in Slots, NEW i \in 0 .. SIZE_KEYBOARD_BUFFER
  PROVE  /\ (h + i) % SIZE_KEYBOARD_BUFFER =
              IF h + i < SIZE_KEYBOARD_BUFFER THEN h + i ELSE h + i - SIZE_KEYBOARD_BUFFER
         /\ (h + i) % SIZE_KEYBOARD_BUFFER \in Slots
<1>1. ASSUME NEW S \in Nat \ {0}, NEW x \in 0 .. S - 1, NEW y \in 0 .. S
      PROVE  (x + y) % S = IF x + y < S THEN x + y ELSE x + y - S
  OBVIOUS
<1>2. SIZE_KEYBOARD_BUFFER \in Nat \ {0} /\ h \in 0 .. SIZE_KEYBOARD_BUFFER - 1
  BY BufferAssumption DEF Slots
<1> DEFINE r == (h + i) % SIZE_KEYBOARD_BUFFER
<1>3. r = IF h + i < SIZE_KEYBOARD_BUFFER THEN h + i ELSE h + i - SIZE_KEYBOARD_BUFFER
  BY <1>1, <1>2
<1> HIDE DEF r
<1>4. r \in Slots
  BY <1>2, <1>3 DEF Slots
<1> QED BY <1>3, <1>4 DEF r

LEMMA NextSlot ==
  ASSUME NEW h \in Slots
  PROVE  Next_Slot(h) \in Slots /\ Next_Slot(h) = (IF h + 1 < SIZE_KEYBOARD_BUFFER THEN h + 1 ELSE 0)
<1>1. 1 \in 0 .. SIZE_KEYBOARD_BUFFER
  BY BufferAssumption
<1> DEFINE r == (h + 1) % SIZE_KEYBOARD_BUFFER
<1>2. r \in Slots /\ r = IF h + 1 < SIZE_KEYBOARD_BUFFER THEN h + 1 ELSE h + 1 - SIZE_KEYBOARD_BUFFER
  BY <1>1, RingIndex
<1> HIDE DEF r
<1>3. r = IF h + 1 < SIZE_KEYBOARD_BUFFER THEN h + 1 ELSE 0
  BY <1>2, BufferAssumption DEF Slots
<1> QED BY <1>2, <1>3 DEF r, Next_Slot

LEMMA BootFlushes ==
  ASSUME NEW k, SCIOK(k)
  PROVE LET m == IKBD_Boot_ROM(k) IN
        /\ SCIOK(m) /\ SameKTX(k, m) /\ SameKRX(k, m)
        /\ m.NbBytesInOutputBuffer = 0 /\ m.BufferHead = 0
<1> DEFINE m == [k EXCEPT !.BufferHead = 0, !.BufferTail = 0, !.NbBytesInOutputBuffer = 0,
                          !.PauseOutput = FALSE, !.bDuringResetCriticalTime = TRUE]
<1>1. 0 \in Slots /\ 0 \in 0 .. SIZE_KEYBOARD_BUFFER /\ k \in SCIState
  BY BufferAssumption DEF Slots, SCIOK
<1>2. /\ m \in SCIState /\ SameKTX(k, m) /\ SameKRX(k, m)
      /\ m.NbBytesInOutputBuffer = 0 /\ m.BufferHead = 0 /\ m.BufferTail = 0
  BY <1>1 DEF SCIState, SameKTX, SameKRX
<1> HIDE DEF m
<1>3. 0 = (0 + 0) % SIZE_KEYBOARD_BUFFER
  BY <1>1, RingIndex, BufferAssumption
<1>4. SCIOK(m)
  BY <1>2, <1>3 DEF SCIOK, SameKTX, SameKRX
<1> QED BY <1>2, <1>4 DEF IKBD_Boot_ROM, m

LEMMA ResetFlushes ==
  ASSUME NEW k, SCIOK(k)
  PROVE LET m == IKBD_Reset(k) IN
        /\ SCIOK(m) /\ m.RDR = k.RDR /\ m.NbBytesInOutputBuffer = 0 /\ m.BufferHead = 0
        /\ m.TX_State = "idle" /\ m.RX_State = "idle"
<1> DEFINE c == [k EXCEPT !.TX_State = "idle", !.TSR = Zero, !.TX_Size = 0, !.TX_Delay = 0,
                          !.RX_State = "idle", !.RSR = Zero, !.RX_Size = 0, !.ORFE = FALSE]
<1>1. /\ 0 \in 0 .. ByteBits /\ 0 \in 0 .. MaxDelay /\ "idle" \in States \ {"parity"}
      /\ Zero \in Byte /\ k \in SCIState
  BY ByteBitsAssumption, ZeroByte DEF States, MaxDelay, SCIOK
<1>2. /\ c \in SCIState /\ c.RDR = k.RDR /\ c.TX_State = "idle" /\ c.RX_State = "idle"
      /\ c.TX_Size = 0 /\ c.RX_Size = 0 /\ SameRing(k, c)
  BY <1>1 DEF SCIState, SameRing
<1> HIDE DEF c
<1>3. SCIOK(c)
  BY <1>2 DEF SCIOK, SizeOK, SameRing
<1>4. IKBD_Reset(k) = IKBD_Boot_ROM(c)
  BY DEF IKBD_Reset, c
<1> QED BY <1>2, <1>3, <1>4, BootFlushes DEF SameKTX, SameKRX

(* The status bits that the link does not see. *)
LEMMA StatusOnly ==
  ASSUME NEW k, SCIOK(k), NEW p \in BOOLEAN
  PROVE  /\ LET m == [k EXCEPT !.PauseOutput = p]
            IN  SCIOK(m) /\ SameKTX(k, m) /\ SameKRX(k, m) /\ SameRing(k, m)
         /\ LET m == [k EXCEPT !.bDuringResetCriticalTime = p]
            IN  SCIOK(m) /\ SameKTX(k, m) /\ SameKRX(k, m) /\ SameRing(k, m)
         /\ \A d \in 0 .. MaxDelay :
              LET m == [k EXCEPT !.TX_Delay = d]
              IN  SCIOK(m) /\ SameKTX(k, m) /\ SameKRX(k, m) /\ SameRing(k, m)
<1>0. k \in SCIState
  BY DEF SCIOK
<1>1. ASSUME NEW m \in SCIState, SameKTX(k, m) /\ SameKRX(k, m) /\ SameRing(k, m)
      PROVE  SCIOK(m)
  BY <1>1 DEF SCIOK, SameKTX, SameKRX, SameRing
<1>2. LET m == [k EXCEPT !.PauseOutput = p]
      IN  m \in SCIState /\ SameKTX(k, m) /\ SameKRX(k, m) /\ SameRing(k, m)
  BY <1>0 DEF SCIState, SameKTX, SameKRX, SameRing
<1>3. LET m == [k EXCEPT !.bDuringResetCriticalTime = p]
      IN  m \in SCIState /\ SameKTX(k, m) /\ SameKRX(k, m) /\ SameRing(k, m)
  BY <1>0 DEF SCIState, SameKTX, SameKRX, SameRing
<1>4. ASSUME NEW d \in 0 .. MaxDelay
      PROVE  LET m == [k EXCEPT !.TX_Delay = d]
             IN  m \in SCIState /\ SameKTX(k, m) /\ SameKRX(k, m) /\ SameRing(k, m)
  BY <1>0 DEF SCIState, SameKTX, SameKRX, SameRing
<1> QED BY <1>1, <1>2, <1>3, <1>4

(* A byte is put into the ring, behind those that wait, or dropped. *)
Queued(k, m, byte) ==
  /\ k.NbBytesInOutputBuffer < SIZE_KEYBOARD_BUFFER
  /\ m.Buffer = [k.Buffer EXCEPT ![k.BufferTail] = byte]
  /\ m.BufferHead = k.BufferHead
  /\ m.NbBytesInOutputBuffer = k.NbBytesInOutputBuffer + 1

LEMMA SendQueues ==
  ASSUME NEW k, SCIOK(k), NEW divider, NEW byte \in Byte, NEW delay \in {NoDelay} \cup 0 .. MaxDelay
  PROVE LET m == IKBD_Send_Byte_Delay(k, divider, byte, delay) IN
        /\ SCIOK(m) /\ SameKTX(k, m) /\ SameKRX(k, m)
        /\ SameRing(k, m) \/ Queued(k, m, byte)
<1> DEFINE d == IF delay = NoDelay THEN k ELSE [k EXCEPT !.TX_Delay = delay]
           e == [d EXCEPT !.Buffer[k.BufferTail] = byte, !.BufferTail = Next_Slot(k.BufferTail),
                          !.NbBytesInOutputBuffer = k.NbBytesInOutputBuffer + 1]
           m == IKBD_Send_Byte_Delay(k, divider, byte, delay)
<1>0. SCIOK(d) /\ SameKTX(k, d) /\ SameKRX(k, d) /\ SameRing(k, d)
  BY StatusOnly DEF SameKTX, SameKRX, SameRing
<1> HIDE DEF d
<1>1. CASE ~(k.bDuringResetCriticalTime \/ divider = 0) /\ IKBD_OutputBuffer_CheckFreeCount(k, 1)
  <2>1. /\ k.NbBytesInOutputBuffer \in 0 .. SIZE_KEYBOARD_BUFFER - 1 /\ k.BufferHead \in Slots
        /\ k.BufferTail \in Slots
        /\ k.BufferTail = (k.BufferHead + k.NbBytesInOutputBuffer) % SIZE_KEYBOARD_BUFFER
    BY <1>1, BufferAssumption DEF SCIOK, SCIState, IKBD_OutputBuffer_CheckFreeCount
  <2>2. Next_Slot(k.BufferTail) \in Slots /\ k.NbBytesInOutputBuffer + 1 \in 0 .. SIZE_KEYBOARD_BUFFER
    BY <2>1, NextSlot, BufferAssumption
  <2>3. /\ e \in SCIState /\ SameKTX(d, e) /\ SameKRX(d, e)
        /\ e.Buffer = [d.Buffer EXCEPT ![k.BufferTail] = byte] /\ e.BufferHead = d.BufferHead
        /\ e.BufferTail = Next_Slot(k.BufferTail)
        /\ e.NbBytesInOutputBuffer = k.NbBytesInOutputBuffer + 1
    BY <1>0, <2>1, <2>2 DEF SCIOK, SCIState, SameKTX, SameKRX
  <2>4. m = e
    BY <1>0, <1>1 DEF IKBD_Send_Byte_Delay, SameRing, d
  <2> HIDE DEF e
  <2>5. Next_Slot(k.BufferTail) = (k.BufferHead + (k.NbBytesInOutputBuffer + 1)) % SIZE_KEYBOARD_BUFFER
    <3> DEFINE h == k.BufferHead
               n == k.NbBytesInOutputBuffer
               t == (h + n) % SIZE_KEYBOARD_BUFFER
               u == (h + (n + 1)) % SIZE_KEYBOARD_BUFFER
    <3>1. n \in 0 .. SIZE_KEYBOARD_BUFFER /\ n + 1 \in 0 .. SIZE_KEYBOARD_BUFFER /\ h \in Slots
      BY <2>1, BufferAssumption
    <3>2. t = IF h + n < SIZE_KEYBOARD_BUFFER THEN h + n ELSE h + n - SIZE_KEYBOARD_BUFFER
      BY <3>1, RingIndex
    <3>3. u = IF h + (n + 1) < SIZE_KEYBOARD_BUFFER THEN h + (n + 1)
              ELSE h + (n + 1) - SIZE_KEYBOARD_BUFFER
      BY <3>1, RingIndex
    <3>4. Next_Slot(t) = IF t + 1 < SIZE_KEYBOARD_BUFFER THEN t + 1 ELSE 0
      BY <3>1, RingIndex, NextSlot
    <3>5. k.BufferTail = t
      BY <2>1
    <3> HIDE DEF t, u, h, n
    <3>6. Next_Slot(t) = u
      BY <3>1, <3>2, <3>3, <3>4, BufferAssumption DEF Slots
    <3> QED BY <3>5, <3>6 DEF u, h, n
  <2>6. SCIOK(e)
    BY <1>0, <2>3, <2>5 DEF SCIOK, SameKTX, SameKRX, SameRing
  <2>7. Queued(k, e, byte)
    BY <1>0, <2>1, <2>3, BufferAssumption DEF Queued, SameRing
  <2> QED BY <1>0, <2>3, <2>4, <2>6, <2>7 DEF SameKTX, SameKRX
<1>2. CASE (k.bDuringResetCriticalTime \/ divider = 0) \/ ~IKBD_OutputBuffer_CheckFreeCount(k, 1)
  <2>1. m = k \/ m = d
    BY <1>2 DEF IKBD_Send_Byte_Delay, d
  <2>2. SameKTX(k, k) /\ SameKRX(k, k) /\ SameRing(k, k)
    BY DEF SameKTX, SameKRX, SameRing
  <2> QED BY <1>0, <2>1, <2>2
<1> QED BY <1>1, <1>2
(* One bit into the IKBD. *)
KRXTick(k, m, bit) ==
  /\ k.RX_State = "idle" =>
       IF bit = 0 THEN /\ m.RX_State = "data" /\ m.RSR = Zero /\ m.RX_Size = ByteBits
                       /\ m.RDR = k.RDR
       ELSE SameKRX(k, m)
  /\ k.RX_State = "data" =>
       /\ m.RX_Size = k.RX_Size - 1 /\ m.RDR = k.RDR
       /\ IF k.RX_Size > 1 THEN m.RX_State = "data" /\ m.RSR = ShiftRight(SetTopBit(k.RSR, bit))
                           ELSE m.RX_State = "stop" /\ m.RSR = SetTopBit(k.RSR, bit)
  /\ k.RX_State = "stop" =>
       /\ m.RX_State = "idle" /\ m.RSR = k.RSR /\ m.RX_Size = k.RX_Size
       /\ m.RDR = IF bit = 1 THEN k.RSR ELSE k.RDR

LEMMA GetLineTicks ==
  ASSUME NEW k, SCIOK(k), NEW bit \in Bit
  PROVE LET m == IKBD_SCI_Get_Line_RX(k, bit) IN
        /\ SCIOK(m) /\ SameKTX(k, m) /\ SameRing(k, m) /\ KRXTick(k, m, bit)
        /\ m.TX_Delay = k.TX_Delay /\ m.PauseOutput = k.PauseOutput
<1> DEFINE m == IKBD_SCI_Get_Line_RX(k, bit)
           Rest(x) == /\ x \in SCIState /\ SameKTX(k, x) /\ SameRing(k, x)
                      /\ x.TX_Delay = k.TX_Delay /\ x.PauseOutput = k.PauseOutput
           Size(x) == /\ SizeOK(x.RX_State, x.RX_Size)
                      /\ x.RX_State = "data" => x.RSR[ByteBits] = 0
<1>0. k \in SCIState /\ k.RX_State \in {"idle", "data", "stop"}
  BY DEF SCIOK, SCIState, States
<1>1. Rest(k)
  BY <1>0 DEF SameKTX, SameRing
<1>2. CASE k.RX_State = "idle"
  <2>1. CASE bit = 1
    <3>1. m = k
      BY <1>2, <2>1 DEF IKBD_SCI_Get_Line_RX
    <3> QED BY <1>1, <1>2, <2>1, <3>1 DEF KRXTick, SameKRX
  <2>2. CASE bit = 0
    <3> DEFINE c == [k EXCEPT !.RSR = Zero, !.RX_Size = ByteBits, !.RX_State = "data"]
    <3>1. m = c
      BY <1>2, <2>2 DEF IKBD_SCI_Get_Line_RX
    <3>2. ByteBits \in 0 .. ByteBits /\ ByteBits > 0 /\ "data" \in States \ {"parity"}
      BY ByteBitsAssumption DEF States
    <3>3. /\ Rest(c) /\ c.RX_State = "data" /\ c.RSR = Zero /\ c.RX_Size = ByteBits
          /\ c.RDR = k.RDR
      BY <1>0, <3>2, ZeroByte DEF SCIState, SameKTX, SameRing
    <3> HIDE DEF c
    <3>4. Zero[ByteBits] = 0
      BY ZeroByte, ByteBitsAssumption
    <3>5. Size(c)
      BY <3>2, <3>3, <3>4 DEF SizeOK
    <3>6. SCIOK(c)
      BY <3>3, <3>5 DEF SCIOK, SameKTX, SameRing
    <3>7. KRXTick(k, c, bit)
      BY <1>2, <2>2, <3>3 DEF KRXTick
    <3> QED BY <3>1, <3>3, <3>6, <3>7
  <2> QED BY <2>1, <2>2 DEF Bit
<1>3. CASE k.RX_State = "data"
  <2> DEFINE y == SetTopBit(k.RSR, bit)
             n == k.RX_Size - 1
             t == IF k.RX_Size > 1 THEN ShiftRight(y) ELSE y
             s == IF k.RX_Size > 1 THEN k.RX_State ELSE "stop"
             c == [k EXCEPT !.RX_Size = n, !.RSR = t, !.RX_State = s]
  <2>1. k.RSR \in Byte /\ k.RSR[ByteBits] = 0 /\ k.RX_Size \in 1 .. ByteBits
    BY <1>0, <1>3 DEF SCIOK, SCIState, SizeOK
  <2>2. t \in Byte
    <3>1. y \in Byte
      BY <2>1, TopBitByte
    <3> HIDE DEF y
    <3> QED BY <3>1, ShiftByte
  <2>3. n \in 0 .. ByteBits /\ s \in States \ {"parity"}
    BY <1>3, <2>1, ByteBitsAssumption DEF States
  <2>4. m = c
    BY <1>3 DEF IKBD_SCI_Get_Line_RX, SCI_DataBit
  <2>5. Rest(c) /\ c.RDR = k.RDR /\ c.RX_Size = n /\ c.RSR = t /\ c.RX_State = s
    <3> HIDE DEF n, t, s
    <3> QED BY <1>0, <2>2, <2>3 DEF SCIState, SameKTX, SameRing
  <2> HIDE DEF c
  <2>6. Size(c)
    <3>1. ShiftRight(y)[ByteBits] = 0
      BY ByteBitsAssumption DEF ShiftRight
    <3> QED BY <1>3, <2>1, <2>5, <3>1, ByteBitsAssumption DEF SizeOK
  <2>7. SCIOK(c)
    BY <2>5, <2>6 DEF SCIOK, SameKTX, SameRing
  <2>8. KRXTick(k, c, bit)
    BY <1>3, <2>5 DEF KRXTick
  <2> QED BY <2>4, <2>5, <2>7, <2>8
<1>4. CASE k.RX_State = "stop"
  <2> DEFINE e == bit = 0
             r == IF bit = 1 THEN k.RSR ELSE k.RDR
             c == [k EXCEPT !.RX_State = "idle", !.ORFE = e, !.RDR = r]
  <2>1. e \in BOOLEAN /\ r \in Byte /\ "idle" \in States \ {"parity"}
    BY <1>0 DEF SCIState, States
  <2>2. m = c
    BY <1>4 DEF IKBD_SCI_Get_Line_RX, SCI_StopBit
  <2>3. /\ Rest(c) /\ c.RX_State = "idle" /\ c.RSR = k.RSR /\ c.RX_Size = k.RX_Size
        /\ c.RDR = r
    <3> HIDE DEF e, r
    <3> QED BY <1>0, <2>1 DEF SCIState, SameKTX, SameRing
  <2> HIDE DEF c
  <2>4. SCIOK(c)
    BY <1>4, <2>3 DEF SCIOK, SizeOK, SameKTX, SameRing
  <2>5. KRXTick(k, c, bit)
    BY <1>4, <2>3 DEF KRXTick
  <2> QED BY <2>2, <2>3, <2>4, <2>5
<1> QED BY <1>0, <1>2, <1>3, <1>4

(* One bit out of the IKBD. *)
Sends(k) == k.TX_Delay = 0 /\ CanSendNow(k)

KTXTick(k, m) ==
  /\ k.TX_State = "idle" =>
       IF Sends(k)
       THEN /\ SCI_TX_Bit(k) = 0 /\ m.TX_State = "data" /\ m.TX_Size = ByteBits
            /\ m.TSR = k.Buffer[k.BufferHead] /\ m.Buffer = k.Buffer
            /\ m.BufferHead = Next_Slot(k.BufferHead) /\ k.NbBytesInOutputBuffer > 0
            /\ m.NbBytesInOutputBuffer = k.NbBytesInOutputBuffer - 1
       ELSE SCI_TX_Bit(k) = 1 /\ SameKTX(k, m) /\ SameRing(k, m)
  /\ k.TX_State = "data" =>
       /\ SCI_TX_Bit(k) = k.TSR[1] /\ m.TSR = ShiftRight(k.TSR) /\ m.TX_Size = k.TX_Size - 1
       /\ m.TX_State = IF k.TX_Size = 1 THEN "stop" ELSE "data"
       /\ SameRing(k, m)
  /\ k.TX_State = "stop" =>
       SCI_TX_Bit(k) = 1 /\ m.TX_State = "idle" /\ m.TSR = k.TSR /\ SameRing(k, m)

LEMMA SetLineTicks ==
  ASSUME NEW k, SCIOK(k)
  PROVE LET m == IKBD_SCI_Set_Line_TX(k) IN
        SCIOK(m) /\ SameKRX(k, m) /\ KTXTick(k, m) /\ SCI_TX_Bit(k) \in Bit
<1> DEFINE m == IKBD_SCI_Set_Line_TX(k)
<1>0. k \in SCIState /\ k.TX_State \in {"idle", "data", "stop"}
  BY DEF SCIOK, SCIState, States
<1>1. CASE k.TX_State = "idle" /\ ~Sends(k)
  <2>1. SCI_TX_Bit(k) = 1
    BY <1>1 DEF SCI_TX_Bit, Sends
  <2>2. SCIOK(m) /\ SameKTX(k, m) /\ SameKRX(k, m) /\ SameRing(k, m)
    <3>1. CASE k.TX_Delay > 0
      <4>1. k.TX_Delay - 1 \in 0 .. MaxDelay
        BY <1>0, <3>1 DEF SCIState, MaxDelay
      <4>2. m = [k EXCEPT !.TX_Delay = k.TX_Delay - 1]
        BY <1>0, <1>1, <3>1 DEF IKBD_SCI_Set_Line_TX
      <4> DEFINE d == k.TX_Delay - 1
      <4> HIDE DEF d
      <4>3. d \in 0 .. MaxDelay /\ m = [k EXCEPT !.TX_Delay = d]
        BY <4>1, <4>2 DEF d
      <4> HIDE DEF m
      <4> QED BY ONLY SCIOK(k), <4>3, StatusOnly
    <3>2. CASE ~(k.TX_Delay > 0)
      <4>1. k.TX_Delay = 0
        BY <1>0, <3>2 DEF SCIState, MaxDelay
      <4>2. m = k
        BY <1>1, <4>1 DEF IKBD_SCI_Set_Line_TX, IKBD_Check_New_TDR, Sends
      <4> QED BY <4>2 DEF SameKTX, SameKRX, SameRing
    <3> QED BY <3>1, <3>2
  <2> QED BY <1>1, <2>1, <2>2 DEF KTXTick, Bit
<1>2. CASE k.TX_State = "idle" /\ Sends(k)
  <2> DEFINE t == k.Buffer[k.BufferHead]
             h == Next_Slot(k.BufferHead)
             n == k.NbBytesInOutputBuffer - 1
             c == [k EXCEPT !.TSR = t, !.TX_Size = ByteBits, !.TX_State = "data",
                            !.BufferHead = h, !.NbBytesInOutputBuffer = n]
  <2>1. /\ k.NbBytesInOutputBuffer \in 1 .. SIZE_KEYBOARD_BUFFER /\ k.BufferHead \in Slots
        /\ k.BufferTail = (k.BufferHead + k.NbBytesInOutputBuffer) % SIZE_KEYBOARD_BUFFER
    BY <1>0, <1>2, BufferAssumption DEF SCIOK, SCIState, Sends, CanSendNow
  <2>2. t \in Byte /\ h \in Slots /\ n \in 0 .. SIZE_KEYBOARD_BUFFER /\ "data" \in States \ {"parity"}
    BY <1>0, <2>1, NextSlot, BufferAssumption DEF SCIState, States
  <2>3. m = c /\ SCI_TX_Bit(k) = 0
    <3>1. k.TX_Delay = 0 /\ CanSendNow(k)
      BY <1>2 DEF Sends
    <3> QED BY <1>2, <3>1 DEF IKBD_SCI_Set_Line_TX, IKBD_Check_New_TDR, SCI_TX_Bit
  <2>4. /\ c \in SCIState /\ SameKRX(k, c) /\ c.TSR = t /\ c.TX_Size = ByteBits
        /\ c.TX_State = "data" /\ c.BufferHead = h /\ c.NbBytesInOutputBuffer = n
        /\ c.Buffer = k.Buffer /\ c.BufferTail = k.BufferTail
    <3>1. ByteBits \in 0 .. ByteBits
      BY ByteBitsAssumption
    <3> HIDE DEF t, h, n
    <3> QED BY <1>0, <2>2, <3>1 DEF SCIState, SameKRX
  <2> HIDE DEF c
  <2>5. k.BufferTail = (h + n) % SIZE_KEYBOARD_BUFFER
    <3> DEFINE g == k.BufferHead
               l == k.NbBytesInOutputBuffer
               x == (g + l) % SIZE_KEYBOARD_BUFFER
               y == (h + n) % SIZE_KEYBOARD_BUFFER
    <3>1. x = IF g + l < SIZE_KEYBOARD_BUFFER THEN g + l ELSE g + l - SIZE_KEYBOARD_BUFFER
      BY <2>1, RingIndex
    <3>2. y = IF h + n < SIZE_KEYBOARD_BUFFER THEN h + n ELSE h + n - SIZE_KEYBOARD_BUFFER
      BY <2>2, RingIndex
    <3>3. h = IF g + 1 < SIZE_KEYBOARD_BUFFER THEN g + 1 ELSE 0
      BY <2>1, NextSlot
    <3>4. n = l - 1 /\ g \in Slots /\ l \in 1 .. SIZE_KEYBOARD_BUFFER /\ k.BufferTail = x
      BY <2>1
    <3> HIDE DEF x, y, h, n, g, l
    <3>5. x = y
      BY <3>1, <3>2, <3>3, <3>4, BufferAssumption DEF Slots
    <3> QED BY <3>4, <3>5 DEF y
  <2>6. SCIOK(c)
    BY <2>4, <2>5, ByteBitsAssumption DEF SCIOK, SizeOK, SameKRX
  <2>7. KTXTick(k, c)
    BY <1>2, <2>1, <2>3, <2>4, BufferAssumption DEF KTXTick
  <2> QED BY <2>3, <2>4, <2>6, <2>7 DEF Bit
<1>3. CASE k.TX_State = "data"
  <2> DEFINE t == ShiftRight(k.TSR)
             n == k.TX_Size - 1
             s == IF k.TX_Size = 1 THEN "stop" ELSE k.TX_State
             c == [k EXCEPT !.TSR = t, !.TX_Size = n, !.TX_State = s]
  <2>1. k.TSR \in Byte /\ k.TX_Size \in 1 .. ByteBits /\ k.TSR[1] \in Bit
    BY <1>0, <1>3, ByteBitsAssumption DEF SCIOK, SCIState, SizeOK, Byte
  <2>2. t \in Byte /\ n \in 0 .. ByteBits /\ s \in States \ {"parity"}
    BY <1>3, <2>1, ShiftByte, ByteBitsAssumption DEF States
  <2>3. m = c /\ SCI_TX_Bit(k) = k.TSR[1]
    BY <1>3 DEF IKBD_SCI_Set_Line_TX, SCI_TX_Bit
  <2>4. /\ c \in SCIState /\ SameKRX(k, c) /\ SameRing(k, c) /\ c.TSR = t /\ c.TX_Size = n
        /\ c.TX_State = s
    <3> HIDE DEF t, n, s
    <3> QED BY <1>0, <2>2 DEF SCIState, SameKRX, SameRing
  <2> HIDE DEF c
  <2>5. SCIOK(c)
    BY <1>3, <2>1, <2>4, ByteBitsAssumption DEF SCIOK, SizeOK, SameKRX, SameRing
  <2>6. KTXTick(k, c)
    BY <1>3, <2>3, <2>4 DEF KTXTick
  <2> QED BY <2>1, <2>3, <2>4, <2>5, <2>6
<1>4. CASE k.TX_State = "stop"
  <2> DEFINE c == [k EXCEPT !.TX_State = "idle"]
  <2>1. m = c /\ SCI_TX_Bit(k) = 1
    BY <1>4 DEF IKBD_SCI_Set_Line_TX, SCI_TX_Bit
  <2>2. /\ c \in SCIState /\ SameKRX(k, c) /\ SameRing(k, c) /\ c.TSR = k.TSR
        /\ c.TX_Size = k.TX_Size /\ c.TX_State = "idle"
    BY <1>0 DEF SCIState, States, SameKRX, SameRing
  <2> HIDE DEF c
  <2>3. SCIOK(c)
    BY <1>4, <2>2 DEF SCIOK, SizeOK, SameKRX, SameRing
  <2>4. KTXTick(k, c)
    BY <1>4, <2>1, <2>2 DEF KTXTick
  <2> QED BY <2>1, <2>2, <2>3, <2>4 DEF Bit
<1> QED BY <1>0, <1>1, <1>2, <1>3, <1>4
-----------------------------------------------------------------------------
(* The inductive invariant of the link.  It keeps every register in its    *)
(* range and the size, the state and the stop bits of a shift register in  *)
(* step; it says that IRQ is the cause of an interrupt in every state,     *)
(* which a line that only follows changes of IRQ needs; and that a status  *)
(* which counts as read while OVRN is set was read with OVRN set.          *)
IRQOnLine(a, l) == l \in {"low", "high"} /\ (a.IRQ => l = "low")

LinkInv ==
  /\ ACIAOK(acia) /\ SCIOK(kbd) /\ Requests(acia) /\ IRQOnLine(acia, line)
  /\ seen \in BOOLEAN /\ (acia.OVRN /\ acia.SR_Read => seen)

LEMMA SetLine ==
  ASSUME NEW a, NEW b, NEW l, IRQOnLine(a, l), a.IRQ \in BOOLEAN, b.IRQ \in BOOLEAN
  PROVE  IRQOnLine(b, ACIA_Set_Line_IRQ(l, a, b))
  BY DEF IRQOnLine, ACIA_Set_Line_IRQ

(* What Tick does, of the two channels one by one. *)
LEMMA TickParts ==
  ASSUME LinkInv, Tick
  PROVE  /\ ACIAOK(acia') /\ SCIOK(kbd') /\ Requests(acia') /\ IRQOnLine(acia', line')
         /\ SameSR(acia, acia') /\ SameCR(acia, acia')
         /\ TX_Bit(acia) \in Bit /\ acia'.TDR = acia.TDR
         /\ TXTick(acia, acia') /\ KRXTick(kbd, kbd', TX_Bit(acia))
         /\ SCI_TX_Bit(kbd) \in Bit
         /\ KTXTick(kbd, kbd') /\ RXTick(acia, acia', SCI_TX_Bit(kbd))
<1> DEFINE a == ACIA_Clock_TX(acia)
           bit == TX_Bit(acia)
           k == IKBD_SCI_Get_Line_RX(kbd, bit)
           out == SCI_TX_Bit(k)
           b == ACIA_Clock_RX(a, out)
           m == IKBD_SCI_Set_Line_TX(k)
           l == ACIA_Set_Line_IRQ(line, acia, a)
<1>1. ACIAOK(acia) /\ SCIOK(kbd) /\ IRQOnLine(acia, line)
  BY DEF LinkInv
<1>2. acia' = b /\ kbd' = m /\ line' = ACIA_Set_Line_IRQ(l, a, b)
  BY DEF Tick
<1>3. /\ ACIAOK(a) /\ SameRX(acia, a) /\ SameSR(acia, a) /\ SameCR(acia, a)
      /\ a.TDR = acia.TDR /\ TXTick(acia, a) /\ bit \in Bit
  BY <1>1, ClockTXTicks
<1> HIDE DEF a, bit
<1>4. /\ SCIOK(k) /\ SameKTX(kbd, k) /\ SameRing(kbd, k) /\ KRXTick(kbd, k, bit)
      /\ k.TX_Delay = kbd.TX_Delay /\ k.PauseOutput = kbd.PauseOutput
  BY <1>1, <1>3, GetLineTicks
<1> HIDE DEF k
<1>5. SCIOK(m) /\ SameKRX(k, m) /\ KTXTick(k, m) /\ out \in Bit
  BY <1>4, SetLineTicks
<1> HIDE DEF m, out
<1>6. /\ ACIAOK(b) /\ Requests(b) /\ SameTX(a, b) /\ SameSR(a, b) /\ SameCR(a, b)
      /\ RXTick(a, b, out)
  BY <1>3, <1>5, ClockRXTicks
<1> HIDE DEF b
<1>7. IRQOnLine(acia', line')
  <2>1. acia.IRQ \in BOOLEAN /\ a.IRQ \in BOOLEAN /\ b.IRQ \in BOOLEAN
    BY <1>1, <1>3, <1>6 DEF ACIAOK, ACIAState
  <2>2. IRQOnLine(a, l)
    BY <1>1, <2>1, SetLine
  <2> HIDE DEF l
  <2> QED BY <1>2, <2>1, <2>2, SetLine
<1>8. SameSR(acia, b) /\ SameCR(acia, b) /\ b.TDR = acia.TDR
  BY <1>3, <1>6 DEF SameSR, SameCR, SameTX
<1>9. TXTick(acia, b)
  BY <1>3, <1>6 DEF TXTick, IdleTick, DataTick, ParityTick, StopTick, SameTX
<1>10. KRXTick(kbd, m, bit)
  BY <1>4, <1>5 DEF KRXTick, SameKRX
<1>11. out = SCI_TX_Bit(kbd)
  BY <1>4 DEF out, SCI_TX_Bit, CanSendNow, SameKTX, SameRing
<1>12. KTXTick(kbd, m)
  <2>1. Sends(k) = Sends(kbd) /\ SCI_TX_Bit(k) = SCI_TX_Bit(kbd)
    BY <1>4, <1>11 DEF out, Sends, CanSendNow, SameRing
  <2> QED BY <1>4, <1>5, <2>1 DEF KTXTick, SameKTX, SameRing
<1>13. RXTick(acia, b, out)
  <2>1. SerialParams(a) = SerialParams(acia) /\ AfterData(a) = AfterData(acia)
    BY <1>3 DEF SerialParams, AfterData, SameCR
  <2> QED
    BY <1>3, <1>6, <2>1
    DEF RXTick, RXIdleTick, RXDataTick, RXParityTick, RXStopTick, SameReg, SameRX
<1> QED
  BY <1>2, <1>3, <1>5, <1>6, <1>7, <1>8, <1>9, <1>10, <1>11, <1>12, <1>13 DEF bit

LEMMA LinkInit == Init => LinkInv
<1> SUFFICES ASSUME Init PROVE LinkInv
  OBVIOUS
<1>1. 0 \in 0 .. ByteBits /\ Zero \in Byte
  BY ByteBitsAssumption, ZeroByte
<1>2. acia \in ACIAState
  BY <1>1 DEF Init, ACIA_Init, ACIAState, ControlRegister, States, Bit
<1>3. /\ acia.TX_State = "idle" /\ acia.RX_State = "idle" /\ acia.TX_Size = 0 /\ acia.RX_Size = 0
      /\ acia.TX_SendBrk = FALSE /\ acia.CR.tx = 0 /\ acia.IRQ = FALSE /\ acia.OVRN = FALSE
      /\ acia.CR.rie = FALSE /\ acia.TX_EnableInt = FALSE
  BY DEF Init, ACIA_Init
<1>4. ACIAOK(acia) /\ Requests(acia)
  <2>1. InterruptCause(acia) = FALSE
    BY <1>3 DEF InterruptCause
  <2>2. (acia.CR.tx = 3) = FALSE
    BY <1>3
  <2>3. SizeOK(acia.TX_State, acia.TX_Size) /\ SizeOK(acia.RX_State, acia.RX_Size)
    BY <1>3 DEF SizeOK
  <2> QED BY <1>2, <1>3, <2>1, <2>2, <2>3 DEF ACIAOK, Requests
<1>5. SCIOK(SCI_Init)
  <2>1. 0 \in Slots /\ 0 \in 0 .. SIZE_KEYBOARD_BUFFER
    BY BufferAssumption DEF Slots
  <2>2. SCI_Init \in SCIState
    BY <1>1, <2>1 DEF SCI_Init, SCIState, States, MaxDelay
  <2>3. 0 = (0 + 0) % SIZE_KEYBOARD_BUFFER
    BY <2>1, RingIndex, BufferAssumption
  <2> QED BY <2>2, <2>3 DEF SCIOK, SCI_Init, SizeOK
<1>6. SCIOK(kbd)
  BY <1>5, ResetFlushes DEF Init
<1> QED BY <1>3, <1>4, <1>6 DEF Init, LinkInv, IRQOnLine

(* The steps that are no tick of the timer. *)
LEMMA SendStep ==
  ASSUME SCIOK(kbd), NEW byte \in KeyBytes, NEW delay \in Delays
  PROVE  /\ SendByte(byte, delay) =>
              /\ SCIOK(kbd') /\ SameKTX(kbd, kbd') /\ SameKRX(kbd, kbd')
              /\ SameRing(kbd, kbd') \/ Queued(kbd, kbd', byte)
         /\ kbd' = IKBD_Send_Byte_Delay([kbd EXCEPT !.bDuringResetCriticalTime = FALSE],
                                        acia.Clock_Divider, byte, delay) =>
              /\ SCIOK(kbd') /\ SameKTX(kbd, kbd') /\ SameKRX(kbd, kbd')
              /\ SameRing(kbd, kbd') \/ Queued(kbd, kbd', byte)
<1>1. byte \in Byte /\ delay \in {NoDelay} \cup 0 .. MaxDelay
  BY LinkAssumption
<1>2. SendByte(byte, delay) =>
        /\ SCIOK(kbd') /\ SameKTX(kbd, kbd') /\ SameKRX(kbd, kbd')
        /\ SameRing(kbd, kbd') \/ Queued(kbd, kbd', byte)
  BY <1>1, SendQueues DEF SendByte
<1> DEFINE k == [kbd EXCEPT !.bDuringResetCriticalTime = FALSE]
           m == IKBD_Send_Byte_Delay(k, acia.Clock_Divider, byte, delay)
<1>3. SCIOK(k) /\ SameKTX(kbd, k) /\ SameKRX(kbd, k) /\ SameRing(kbd, k)
  BY StatusOnly
<1> HIDE DEF k
<1>4. SCIOK(m) /\ SameKTX(k, m) /\ SameKRX(k, m) /\ (SameRing(k, m) \/ Queued(k, m, byte))
  BY <1>1, <1>3, SendQueues
<1> HIDE DEF m
<1>5. SameKTX(kbd, m) /\ SameKRX(kbd, m) /\ (SameRing(kbd, m) \/ Queued(kbd, m, byte))
  BY <1>3, <1>4 DEF SameKTX, SameKRX, SameRing, Queued
<1> QED BY <1>2, <1>4, <1>5 DEF m, k

LEMMA LinkStep == LinkInv /\ [Next]_vars => LinkInv'
<1> SUFFICES ASSUME LinkInv, [Next]_vars PROVE LinkInv'
  OBVIOUS
<1>0. ACIAOK(acia) /\ SCIOK(kbd) /\ acia.IRQ \in BOOLEAN /\ acia.OVRN \in BOOLEAN
  BY DEF LinkInv, ACIAOK, ACIAState
<1>1. ASSUME NEW cr \in CRValues, WriteCR(cr) PROVE LinkInv'
  <2> DEFINE a == ACIA_Write_CR(acia, cr)
  <2>1. cr \in ControlRegister
    BY LinkAssumption
  <2>2. /\ ACIAOK(a) /\ Requests(a)
        /\ IF IsMasterReset(cr) THEN Cleared(acia, a)
           ELSE SameTX(acia, a) /\ SameRX(acia, a) /\ SameSR(acia, a)
    BY <1>0, <2>1, WriteCRKeeps
  <2>3. /\ acia' = a /\ kbd' = kbd /\ seen' = (seen /\ a.OVRN)
        /\ line' = IF IsMasterReset(cr)
                   THEN ACIA_Set_Line_IRQ("high", [acia EXCEPT !.IRQ = FALSE], a)
                   ELSE ACIA_Set_Line_IRQ(line, acia, a)
    BY <1>1 DEF WriteCR
  <2> HIDE DEF a
  <2>4. a.IRQ \in BOOLEAN /\ a.OVRN \in BOOLEAN
    BY <2>2 DEF ACIAOK, ACIAState
  <2>5. IRQOnLine(acia', line')
    <3>1. CASE IsMasterReset(cr)
      <4>1. [acia EXCEPT !.IRQ = FALSE].IRQ = FALSE
        BY <1>0 DEF ACIAOK, ACIAState
      <4> QED BY <2>3, <2>4, <3>1, <4>1, SetLine DEF IRQOnLine
    <3>2. CASE ~IsMasterReset(cr)
      BY <1>0, <2>3, <2>4, <3>2, SetLine DEF LinkInv
    <3> QED BY <3>1, <3>2
  <2>6. seen' \in BOOLEAN /\ (acia'.OVRN /\ acia'.SR_Read => seen')
    <3>1. CASE IsMasterReset(cr)
      BY <2>2, <2>3, <3>1 DEF Cleared, LinkInv
    <3>2. CASE ~IsMasterReset(cr)
      BY <2>2, <2>3, <2>4, <3>2 DEF SameSR, LinkInv
    <3> QED BY <3>1, <3>2
  <2> QED BY <1>0, <2>2, <2>3, <2>5, <2>6 DEF LinkInv
<1>2. ASSUME NEW byte \in TxBytes, WriteTDR(byte) PROVE LinkInv'
  <2> DEFINE a == ACIA_Write_TDR(acia, byte)
  <2>1. ACIAOK(a) /\ Requests(a) /\ SameSR(acia, a)
    BY <1>0, LinkAssumption, WriteTDRKeeps
  <2>2. acia' = a /\ kbd' = kbd /\ seen' = seen /\ line' = ACIA_Set_Line_IRQ(line, acia, a)
    BY <1>2 DEF WriteTDR, Set
  <2> HIDE DEF a
  <2>3. a.IRQ \in BOOLEAN
    BY <2>1 DEF ACIAOK, ACIAState
  <2> QED BY <1>0, <2>1, <2>2, <2>3, SetLine DEF LinkInv, SameSR
<1>3. ASSUME ReadSR PROVE LinkInv'
  <2> DEFINE a == ACIA_Read_SR(acia)
  <2>1. /\ ACIAOK(a) /\ a.OVRN = acia.OVRN /\ a.IRQ = acia.IRQ
        /\ InterruptCause(a) = InterruptCause(acia)
    BY <1>0, ReadSRKeeps
  <2>2. acia' = a /\ kbd' = kbd /\ seen' = acia.OVRN /\ line' = ACIA_Set_Line_IRQ(line, acia, a)
    BY <1>3 DEF ReadSR, Set
  <2> HIDE DEF a
  <2>3. line' = line
    BY <2>1, <2>2 DEF ACIA_Set_Line_IRQ
  <2> QED BY <1>0, <2>1, <2>2, <2>3 DEF LinkInv, Requests, IRQOnLine
<1>4. ASSUME ReadRDR PROVE LinkInv'
  <2> DEFINE a == ACIA_Read_RDR(acia)
  <2>1. ACIAOK(a) /\ Requests(a) /\ a.SR_Read = FALSE
    BY <1>0, ReadRDRKeeps
  <2>2. /\ acia' = a /\ kbd' = kbd /\ line' = ACIA_Set_Line_IRQ(line, acia, a)
        /\ seen' \in BOOLEAN
    BY <1>4 DEF ReadRDR, Set
  <2> HIDE DEF a
  <2>3. a.IRQ \in BOOLEAN
    BY <2>1 DEF ACIAOK, ACIAState
  <2> QED BY <1>0, <2>1, <2>2, <2>3, SetLine DEF LinkInv
<1>5. ASSUME Tick PROVE LinkInv'
  <2>1. seen' = seen
    BY <1>5 DEF Tick
  <2> QED BY <1>5, <2>1, TickParts DEF LinkInv, SameSR
<1>6. ASSUME SCIOK(kbd'), UNCHANGED <<acia, seen>>, line' = line \/ line' = "low"
      PROVE  LinkInv'
  BY <1>6 DEF LinkInv, IRQOnLine
<1>7. ASSUME NEW byte \in KeyBytes, NEW delay \in Delays, SendByte(byte, delay) PROVE LinkInv'
  BY <1>0, <1>6, <1>7, SendStep DEF SendByte
<1>8. ASSUME NEW paused \in BOOLEAN, Pause(paused) PROVE LinkInv'
  BY <1>0, <1>6, <1>8, StatusOnly DEF Pause
<1>9. ASSUME Boot PROVE LinkInv'
  BY <1>0, <1>6, <1>9, BootFlushes DEF Boot
<1>10. ASSUME ResetTimer PROVE LinkInv'
  BY <1>0, <1>6, <1>10, SendStep DEF ResetTimer
<1>11. ASSUME Reset PROVE LinkInv'
  BY <1>0, <1>6, <1>11, ResetFlushes DEF Reset
<1>12. ASSUME UNCHANGED vars PROVE LinkInv'
  BY <1>12 DEF vars, LinkInv, ACIAOK, SCIOK, Requests, InterruptCause
<1> QED BY <1>1, <1>2, <1>3, <1>4, <1>5, <1>7, <1>8, <1>9, <1>10, <1>11, <1>12 DEF Next

(* The inductive invariant of the link, of every access and every bit.     *)
THEOREM LinkInvariant == Spec => []LinkInv
  BY LinkInit, LinkStep, PTL DEF Spec

(* Registers keep their width, the ring its bounds, and no shift register  *)
(* is ever in a state that its functions do not know.                      *)
THEOREM LinkTypes == Spec => []TypeOK
<1>1. LinkInv => TypeOK
  BY DEF LinkInv, TypeOK, ACIAOK, SCIOK, IRQOnLine
<1> QED BY <1>1, LinkInvariant, PTL

(* The line to the MFP is low whenever the ACIA has a cause to interrupt,  *)
(* though ACIA_Set_Line_IRQ only acts on changes of SR.IRQ.                *)
THEOREM RequestsReachTheLine == Spec => []RequestOnLine
<1>1. LinkInv => RequestOnLine
  BY DEF LinkInv, RequestOnLine, Requests, IRQOnLine
<1> QED BY <1>1, LinkInvariant, PTL

(* An overrun is cleared only after a status that shows it has been read.  *)
LEMMA OverrunStep ==
  LinkInv /\ [Next]_vars =>
    [acia.OVRN /\ ~acia'.OVRN => seen \/ IsMasterReset(acia'.CR)]_vars
<1> SUFFICES ASSUME LinkInv, Next, acia.OVRN, ~acia'.OVRN
             PROVE  seen \/ IsMasterReset(acia'.CR)
  BY DEF vars
<1>0. ACIAOK(acia)
  BY DEF LinkInv
<1>1. ASSUME NEW cr \in CRValues, WriteCR(cr) PROVE IsMasterReset(acia'.CR)
  <2>1. cr \in ControlRegister /\ acia' = ACIA_Write_CR(acia, cr)
    BY <1>1, LinkAssumption DEF WriteCR
  <2> QED BY <1>0, <2>1, WriteCRKeeps DEF SameSR
<1>2. ASSUME NEW byte \in TxBytes, WriteTDR(byte) PROVE FALSE
  BY <1>0, <1>2, LinkAssumption, WriteTDRKeeps DEF WriteTDR, Set, SameSR
<1>3. ASSUME ReadSR PROVE FALSE
  BY <1>0, <1>3, ReadSRKeeps DEF ReadSR, Set
<1>4. ASSUME ReadRDR PROVE seen
  BY <1>0, <1>4, ReadRDRKeeps DEF ReadRDR, Set, LinkInv
<1>5. ASSUME Tick PROVE FALSE
  BY <1>5, TickParts DEF SameSR
<1>6. ASSUME acia' = acia PROVE FALSE
  BY <1>6
<1> QED
  BY <1>1, <1>2, <1>3, <1>4, <1>5, <1>6 DEF Next, SendByte, Pause, Boot, ResetTimer, Reset

(* The program is told of every byte that it lost: OVRN stays until a      *)
(* status that shows it was read (ACIA_Read_RDR, acia.c:830).              *)
THEOREM OverrunsAreTold == Spec => OverrunSeen
<1>1. LinkInv /\ [Next]_vars =>
        [acia.OVRN /\ ~acia'.OVRN => seen \/ IsMasterReset(acia'.CR)]_vars
  BY OverrunStep
<1> QED BY <1>1, LinkInvariant, PTL DEF Spec, OverrunSeen

-----------------------------------------------------------------------------
(* The transmitter drains.  The bits of the byte being sent that are still *)
(* to come, at most: whether a parity bit follows the data is decided only *)
(* then, by the CR of that moment (AfterData).                             *)
BitsLeft(a) ==
  CASE a.TX_State = "idle"   -> 0
    [] a.TX_State = "data"   -> a.TX_Size + 1 + a.TX_StopBits
    [] a.TX_State = "parity" -> 1 + a.TX_StopBits
    [] a.TX_State = "stop"   -> a.TX_StopBits

(* A byte in TDR waits for at most ByteBits + 4 bits of the timer, unless  *)
(* a break is sent: the byte before it has at most ByteBits + 3 bits left, *)
(* each bit of the timer sends one, no access of the 68000 and nothing the *)
(* IKBD does adds any, even a change of the format in the middle of a byte *)
(* or a new byte in TDR, and the first bit after the last takes TDR        *)
(* (ACIA_Clock_TX, acia.c).                                                *)
TransmitterDrains ==
  [][/\ BitsLeft(acia) <= ByteBits + 3
     /\ Tick /\ acia.TX_State # "idle" => BitsLeft(acia') < BitsLeft(acia)
     /\ Tick /\ acia.TX_State = "idle" /\ ~acia.TX_SendBrk => acia'.TDRE
     /\ Tick \/ BitsLeft(acia') <= BitsLeft(acia)]_vars

LEMMA BitsLeftType ==
  ASSUME NEW a, ACIAOK(a)
  PROVE  BitsLeft(a) \in 0 .. ByteBits + 3
<1>1. /\ a.TX_State \in States /\ a.TX_Size \in 0 .. ByteBits /\ a.TX_StopBits \in 0 .. 2
      /\ ByteBits \in Nat
  BY ByteBitsAssumption DEF ACIAOK, ACIAState
<1>2. CASE a.TX_State = "idle"
  BY <1>1, <1>2 DEF BitsLeft
<1>3. CASE a.TX_State = "data"
  BY <1>1, <1>3 DEF BitsLeft
<1>4. CASE a.TX_State = "parity"
  BY <1>1, <1>4 DEF BitsLeft
<1>5. CASE a.TX_State = "stop"
  BY <1>1, <1>5 DEF BitsLeft
<1> QED BY <1>1, <1>2, <1>3, <1>4, <1>5 DEF States

LEMMA TickDrains ==
  ASSUME NEW a, NEW b, ACIAOK(a), ACIAOK(b), TXTick(a, b), a.TX_State # "idle"
  PROVE  BitsLeft(b) < BitsLeft(a)
<1>1. /\ a.TX_State \in States /\ a.TX_Size \in 0 .. ByteBits /\ a.TX_StopBits \in 1 .. 2
      /\ ByteBits \in Nat
  BY ByteBitsAssumption DEF ACIAOK, ACIAState
<1>2. CASE a.TX_State = "data"
  <2>1. a.TX_Size > 0 /\ b.TX_Size = a.TX_Size - 1 /\ b.TX_StopBits = a.TX_StopBits
    BY <1>2 DEF ACIAOK, SizeOK, TXTick, DataTick
  <2>2. b.TX_State \in {"data", "parity", "stop"}
    BY <1>2 DEF TXTick, DataTick, AfterData
  <2>3. BitsLeft(a) = a.TX_Size + 1 + a.TX_StopBits
    BY <1>2 DEF BitsLeft
  <2>4. BitsLeft(b) \in {b.TX_Size + 1 + b.TX_StopBits, 1 + b.TX_StopBits, b.TX_StopBits}
    BY <2>2 DEF BitsLeft
  <2> QED BY <1>1, <2>1, <2>3, <2>4
<1>3. CASE a.TX_State = "parity"
  <2>1. b.TX_State = "stop" /\ b.TX_StopBits = a.TX_StopBits
    BY <1>3 DEF TXTick, ParityTick
  <2>2. BitsLeft(a) = 1 + a.TX_StopBits /\ BitsLeft(b) = a.TX_StopBits
    BY <1>3, <2>1 DEF BitsLeft
  <2> QED BY <1>1, <2>2
<1>4. CASE a.TX_State = "stop"
  <2>1. /\ b.TX_StopBits = a.TX_StopBits - 1
        /\ b.TX_State = IF a.TX_StopBits = 1 THEN "idle" ELSE "stop"
    BY <1>4 DEF TXTick, StopTick
  <2>2. BitsLeft(a) = a.TX_StopBits
    BY <1>4 DEF BitsLeft
  <2>3. BitsLeft(b) \in {0, a.TX_StopBits - 1}
    BY <2>1 DEF BitsLeft
  <2> QED BY <1>1, <2>2, <2>3
<1> QED BY <1>1, <1>2, <1>3, <1>4 DEF States

(* Only the timer moves the transmitter; a master reset empties it.        *)
LEMMA OthersAddNone ==
  ASSUME LinkInv, [Next]_vars
  PROVE  Tick \/ BitsLeft(acia') <= BitsLeft(acia)
<1>0. ACIAOK(acia) /\ BitsLeft(acia) \in Nat
  BY BitsLeftType, ByteBitsAssumption DEF LinkInv
<1>1. ASSUME /\ acia'.TX_State = acia.TX_State /\ acia'.TX_Size = acia.TX_Size
             /\ acia'.TX_StopBits = acia.TX_StopBits
      PROVE  BitsLeft(acia') <= BitsLeft(acia)
  <2>1. BitsLeft(acia') = BitsLeft(acia)
    BY <1>1 DEF BitsLeft
  <2> QED BY <1>0, <2>1
<1>2. ASSUME NEW cr \in CRValues, WriteCR(cr) PROVE BitsLeft(acia') <= BitsLeft(acia)
  <2>1. cr \in ControlRegister /\ acia' = ACIA_Write_CR(acia, cr)
    BY <1>2, LinkAssumption DEF WriteCR
  <2>2. IF IsMasterReset(cr) THEN Cleared(acia, acia') ELSE SameTX(acia, acia')
    BY <1>0, <2>1, WriteCRKeeps
  <2>3. CASE IsMasterReset(cr)
    <3>1. BitsLeft(acia') = 0
      BY <2>2, <2>3 DEF Cleared, BitsLeft
    <3> QED BY <1>0, <3>1
  <2>4. CASE ~IsMasterReset(cr)
    BY <1>1, <2>2, <2>4 DEF SameTX
  <2> QED BY <2>3, <2>4
<1>3. ASSUME NEW byte \in TxBytes, WriteTDR(byte) PROVE BitsLeft(acia') <= BitsLeft(acia)
  BY <1>0, <1>1, <1>3, LinkAssumption, WriteTDRKeeps DEF WriteTDR, Set
<1>4. ASSUME ReadSR PROVE BitsLeft(acia') <= BitsLeft(acia)
  BY <1>0, <1>1, <1>4, ReadSRKeeps DEF ReadSR, Set, SameTX
<1>5. ASSUME ReadRDR PROVE BitsLeft(acia') <= BitsLeft(acia)
  BY <1>0, <1>1, <1>5, ReadRDRKeeps DEF ReadRDR, Set, SameTX
<1>6. ASSUME acia' = acia PROVE BitsLeft(acia') <= BitsLeft(acia)
  BY <1>1, <1>6
<1> QED
  BY <1>2, <1>3, <1>4, <1>5, <1>6
  DEF Next, SendByte, Pause, Boot, ResetTimer, Reset, vars

(* The transmitter drains: the step by step part of TransmitterRecovers.   *)
(* No sequence of register accesses keeps a byte in the shift register of  *)
(* a clocked ACIA, whatever CR is changed to (ACIA_Clock_TX, acia.c).      *)
THEOREM TransmitterAlwaysDrains == Spec => TransmitterDrains
<1>1. LinkInv /\ [Next]_vars =>
        [/\ BitsLeft(acia) <= ByteBits + 3
         /\ Tick /\ acia.TX_State # "idle" => BitsLeft(acia') < BitsLeft(acia)
         /\ Tick /\ acia.TX_State = "idle" /\ ~acia.TX_SendBrk => acia'.TDRE
         /\ Tick \/ BitsLeft(acia') <= BitsLeft(acia)]_vars
  <2> SUFFICES ASSUME LinkInv, [Next]_vars
               PROVE  /\ BitsLeft(acia) <= ByteBits + 3
                      /\ Tick /\ acia.TX_State # "idle" => BitsLeft(acia') < BitsLeft(acia)
                      /\ Tick /\ acia.TX_State = "idle" /\ ~acia.TX_SendBrk => acia'.TDRE
                      /\ Tick \/ BitsLeft(acia') <= BitsLeft(acia)
    OBVIOUS
  <2>1. BitsLeft(acia) <= ByteBits + 3
    BY BitsLeftType, ByteBitsAssumption DEF LinkInv
  <2>2. ASSUME Tick, acia.TX_State # "idle" PROVE BitsLeft(acia') < BitsLeft(acia)
    <3>1. ACIAOK(acia) /\ ACIAOK(acia') /\ TXTick(acia, acia')
      BY <2>2, TickParts DEF LinkInv
    <3> QED BY <2>2, <3>1, TickDrains
  <2>3. ASSUME Tick, acia.TX_State = "idle", ~acia.TX_SendBrk PROVE acia'.TDRE
    <3>1. TXTick(acia, acia')
      BY <2>3, TickParts
    <3> QED BY <2>3, <3>1 DEF TXTick, IdleTick, SameTX
  <2>4. Tick \/ BitsLeft(acia') <= BitsLeft(acia)
    BY OthersAddNone
  <2> QED BY <2>1, <2>2, <2>3, <2>4
<1> QED BY <1>1, LinkInvariant, PTL DEF Spec, TransmitterDrains

-----------------------------------------------------------------------------
(* Where a byte starts.  Two ends that agree before a step agree after it, *)
(* unless the IKBD is reset or CR asks for what the IKBD does not have.    *)

LEMMA QuietFormat ==
  ASSUME ACIAOK(acia), ~Disturbed(acia.CR)
  PROVE  /\ acia.TX_SendBrk = FALSE /\ SerialParams(acia) = Format(ByteBits, "none", 1)
         /\ SerialParams(acia).DataBits = ByteBits /\ SerialParams(acia).StopBits = 1
         /\ AfterData(acia) = "stop"
<1>1. acia.CR.word = 5 /\ acia.CR.tx # 3 /\ acia \in ACIAState
  BY DEF Disturbed, ACIAOK
<1>2. SerialParams(acia) = Format(ByteBits, "none", 1)
  BY <1>1, Formats
<1>3. /\ SerialParams(acia).DataBits = ByteBits /\ SerialParams(acia).StopBits = 1
      /\ SerialParams(acia).Parity = "none"
  BY <1>2 DEF Format
<1>4. AfterData(acia) = "stop"
  BY <1>3 DEF AfterData
<1>5. acia.TX_SendBrk = FALSE
  BY <1>1 DEF ACIAOK
<1> QED BY <1>2, <1>3, <1>4, <1>5

LEMMA ToTickAligned ==
  ASSUME LinkInv, Tick, ToAligned, ~Disturbed(acia.CR)
  PROVE  ToAligned'
<1>0. ACIAOK(acia) /\ SCIOK(kbd)
  BY DEF LinkInv
<1>1. /\ acia.TX_SendBrk = FALSE /\ SerialParams(acia).DataBits = ByteBits
      /\ SerialParams(acia).StopBits = 1 /\ AfterData(acia) = "stop"
  BY <1>0, QuietFormat
<1>2. /\ TXTick(acia, acia') /\ KRXTick(kbd, kbd', TX_Bit(acia))
  BY TickParts
<1>3. CASE acia.TX_State = "idle" /\ kbd.RX_State = "idle"
  BY <1>1, <1>2, <1>3 DEF TXTick, IdleTick, KRXTick, SameTX, SameKRX, ToAligned
<1>4. CASE /\ acia.TX_State = "data" /\ kbd.RX_State = "data"
           /\ acia.TX_Size = kbd.RX_Size /\ acia.TX_StopBits = 1
  <2>1. acia.TX_Size \in 1 .. ByteBits
    BY <1>0, <1>4 DEF ACIAOK, ACIAState, SizeOK
  <2> QED BY <1>1, <1>2, <1>4, <2>1, ByteBitsAssumption DEF TXTick, DataTick, KRXTick, ToAligned
<1>5. CASE acia.TX_State = "stop" /\ kbd.RX_State = "stop" /\ acia.TX_StopBits = 1
  BY <1>2, <1>5 DEF TXTick, StopTick, KRXTick, ToAligned
<1> QED BY <1>3, <1>4, <1>5 DEF ToAligned

LEMMA FromTickAligned ==
  ASSUME LinkInv, Tick, FromAligned, ~Disturbed(acia.CR)
  PROVE  FromAligned'
<1>0. ACIAOK(acia) /\ SCIOK(kbd)
  BY DEF LinkInv
<1>1. /\ SerialParams(acia).DataBits = ByteBits
      /\ SerialParams(acia).StopBits = 1 /\ AfterData(acia) = "stop"
  BY <1>0, QuietFormat
<1>2. KTXTick(kbd, kbd') /\ RXTick(acia, acia', SCI_TX_Bit(kbd))
  BY TickParts
<1>3. CASE acia.RX_State = "idle" /\ kbd.TX_State = "idle"
  <2>1. CASE Sends(kbd)
    BY <1>1, <1>2, <1>3, <2>1 DEF RXTick, RXIdleTick, KTXTick, FromAligned
  <2>2. CASE ~Sends(kbd)
    BY <1>2, <1>3, <2>2 DEF RXTick, RXIdleTick, KTXTick, SameRX, SameKTX, FromAligned
  <2> QED BY <2>1, <2>2
<1>4. CASE /\ acia.RX_State = "data" /\ kbd.TX_State = "data"
           /\ kbd.TX_Size = acia.RX_Size /\ acia.RX_StopBits = 1
  <2>1. acia.RX_Size \in 1 .. ByteBits
    BY <1>0, <1>4 DEF ACIAOK, ACIAState, SizeOK
  <2> QED BY <1>1, <1>2, <1>4, <2>1, ByteBitsAssumption DEF RXTick, RXDataTick, KTXTick, FromAligned
<1>5. CASE acia.RX_State = "stop" /\ kbd.TX_State = "stop" /\ acia.RX_StopBits = 1
  BY <1>2, <1>5 DEF RXTick, RXStopTick, KTXTick, FromAligned
<1> QED BY <1>3, <1>4, <1>5 DEF FromAligned

LEMMA AlignedStep ==
  LinkInv /\ [Next]_vars =>
    [(ToAligned /\ ~ToAligned') \/ (FromAligned /\ ~FromAligned') =>
        \/ Reset
        \/ Disturbed(acia.CR)
        \/ Disturbed(acia'.CR)]_vars
<1> SUFFICES ASSUME LinkInv, Next, ~Reset, ~Disturbed(acia.CR), ~Disturbed(acia'.CR)
             PROVE  (ToAligned => ToAligned') /\ (FromAligned => FromAligned')
  BY DEF vars
<1>0. ACIAOK(acia) /\ SCIOK(kbd)
  BY DEF LinkInv
<1> DEFINE Frozen ==
      /\ acia'.TX_State = acia.TX_State /\ acia'.TX_Size = acia.TX_Size
      /\ acia'.TX_StopBits = acia.TX_StopBits
      /\ acia'.RX_State = acia.RX_State /\ acia'.RX_Size = acia.RX_Size
      /\ acia'.RX_StopBits = acia.RX_StopBits
      /\ kbd'.TX_State = kbd.TX_State /\ kbd'.TX_Size = kbd.TX_Size
      /\ kbd'.RX_State = kbd.RX_State /\ kbd'.RX_Size = kbd.RX_Size
<1>1. Frozen => (ToAligned => ToAligned') /\ (FromAligned => FromAligned')
  BY DEF ToAligned, FromAligned
<1> HIDE DEF Frozen
<1>2. ASSUME NEW cr \in CRValues, WriteCR(cr) PROVE Frozen
  <2>1. cr \in ControlRegister /\ acia' = ACIA_Write_CR(acia, cr) /\ kbd' = kbd
    BY <1>2, LinkAssumption DEF WriteCR
  <2>2. acia'.CR = cr
    BY <1>0, <2>1, WriteCRKeeps
  <2>3. ~IsMasterReset(cr)
    BY <2>2 DEF Disturbed
  <2>4. SameTX(acia, acia') /\ SameRX(acia, acia')
    BY <1>0, <2>1, <2>3, WriteCRKeeps
  <2> QED BY <2>1, <2>4 DEF SameTX, SameRX, Frozen
<1>3. ASSUME NEW byte \in TxBytes, WriteTDR(byte) PROVE Frozen
  <2>1. acia' = ACIA_Write_TDR(acia, byte) /\ kbd' = kbd /\ byte \in Byte
    BY <1>3, LinkAssumption DEF WriteTDR, Set
  <2> QED BY <1>0, <2>1, WriteTDRKeeps DEF SameRX, Frozen
<1>4. ASSUME ReadSR PROVE Frozen
  <2>1. acia' = ACIA_Read_SR(acia) /\ kbd' = kbd
    BY <1>4 DEF ReadSR, Set
  <2> QED BY <1>0, <2>1, ReadSRKeeps DEF SameTX, SameRX, Frozen
<1>5. ASSUME ReadRDR PROVE Frozen
  <2>1. acia' = ACIA_Read_RDR(acia) /\ kbd' = kbd
    BY <1>5 DEF ReadRDR, Set
  <2> QED BY <1>0, <2>1, ReadRDRKeeps DEF SameTX, Frozen
<1>6. ASSUME SameKTX(kbd, kbd'), SameKRX(kbd, kbd'), acia' = acia PROVE Frozen
  BY <1>6 DEF SameKTX, SameKRX, Frozen
<1>7. ASSUME NEW byte \in KeyBytes, NEW delay \in Delays, SendByte(byte, delay) PROVE Frozen
  BY <1>0, <1>6, <1>7, SendStep DEF SendByte
<1>8. ASSUME NEW paused \in BOOLEAN, Pause(paused) PROVE Frozen
  BY <1>0, <1>6, <1>8, StatusOnly DEF Pause
<1>9. ASSUME Boot PROVE Frozen
  BY <1>0, <1>6, <1>9, BootFlushes DEF Boot
<1>10. ASSUME ResetTimer PROVE Frozen
  BY <1>0, <1>6, <1>10, SendStep DEF ResetTimer
<1>11. ASSUME Tick PROVE (ToAligned => ToAligned') /\ (FromAligned => FromAligned')
  BY <1>11, ToTickAligned, FromTickAligned
<1> QED
  BY <1>1, <1>2, <1>3, <1>4, <1>5, <1>7, <1>8, <1>9, <1>10, <1>11 DEF Next

(* The channels lose their alignment only to a reset of one end, to a      *)
(* break and to a format that the IKBD does not have.                      *)
THEOREM AlignmentIsKept == Spec => StaysAligned
<1>1. LinkInv /\ [Next]_vars =>
        [(ToAligned /\ ~ToAligned') \/ (FromAligned /\ ~FromAligned') =>
            \/ Reset
            \/ Disturbed(acia.CR)
            \/ Disturbed(acia'.CR)]_vars
  BY AlignedStep
<1> QED BY <1>1, LinkInvariant, PTL DEF Spec, StaysAligned
-----------------------------------------------------------------------------
(* The byte on a line.  While a bit moves from the sending to the          *)
(* receiving shift register, the byte that both make up stays the same.    *)

Joined(RSR, size, TSR) == SubSeq(RSR, size, ByteBits - 1) \o SubSeq(TSR, 1, size)

LEMMA JoinedBits ==
  ASSUME NEW r \in Byte, NEW t \in Byte, NEW n \in 1 .. ByteBits
  PROVE  /\ Joined(r, n, t) \in Byte
         /\ \A i \in 1 .. ByteBits :
              Joined(r, n, t)[i] = IF i <= ByteBits - n THEN r[n + i - 1] ELSE t[i - (ByteBits - n)]
<1> DEFINE u == SubSeq(r, n, ByteBits - 1)
           v == SubSeq(t, 1, n)
<1>0. ByteBits \in Nat \ {0, 1}
  BY ByteBitsAssumption
<1>1. /\ u \in Seq(Bit) /\ Len(u) = ByteBits - n
      /\ \A i \in 1 .. ByteBits - n : u[i] = r[n + i - 1]
  <2>1. \A i \in n .. ByteBits - 1 : r[i] \in Bit
    BY <1>0 DEF Byte
  <2>2. n \in Int /\ ByteBits - 1 \in Int
    BY <1>0
  <2>3. /\ u \in Seq(Bit) /\ Len(u) = (IF n <= ByteBits - 1 THEN (ByteBits - 1) - n + 1 ELSE 0)
        /\ \A i \in 1 .. (ByteBits - 1) - n + 1 : u[i] = r[n + i - 1]
    BY <2>1, <2>2, SubSeqProperties
  <2> HIDE DEF u
  <2> QED BY <1>0, <2>3
<1>2. v \in Seq(Bit) /\ Len(v) = n /\ \A i \in 1 .. n : v[i] = t[i]
  <2>1. \A i \in 1 .. n : t[i] \in Bit
    BY <1>0 DEF Byte
  <2>2. 1 \in Int /\ n \in Int
    BY <1>0
  <2>3. /\ v \in Seq(Bit) /\ Len(v) = (IF 1 <= n THEN n - 1 + 1 ELSE 0)
        /\ \A i \in 1 .. n - 1 + 1 : v[i] = t[1 + i - 1]
    BY <2>1, <2>2, SubSeqProperties
  <2> HIDE DEF v
  <2> QED BY <1>0, <2>3
<1> DEFINE w == u \o v
<1> HIDE DEF u, v
<1>3. /\ w \in Seq(Bit) /\ Len(w) = Len(u) + Len(v)
      /\ \A i \in 1 .. Len(u) + Len(v) : w[i] = IF i <= Len(u) THEN u[i] ELSE v[i - Len(u)]
  BY <1>1, <1>2, ConcatProperties
<1>4. w = Joined(r, n, t)
  BY DEF Joined, u, v
<1> HIDE DEF w
<1>5. Len(w) = ByteBits
  BY <1>0, <1>1, <1>2, <1>3
<1>6. w \in Byte
  BY <1>3, <1>5, LenProperties DEF Byte
<1>7. \A i \in 1 .. ByteBits : w[i] = IF i <= ByteBits - n THEN r[n + i - 1] ELSE t[i - (ByteBits - n)]
  <2>1. ASSUME NEW i \in 1 .. ByteBits, i <= ByteBits - n
        PROVE  w[i] = r[n + i - 1]
    <3>1. Len(u) = ByteBits - n /\ i \in 1 .. Len(u) + Len(v) /\ i \in 1 .. ByteBits - n
      BY <1>0, <1>1, <1>2, <2>1
    <3>2. w[i] = u[i]
      BY <1>3, <2>1, <3>1
    <3> QED BY <1>1, <3>1, <3>2
  <2>2. ASSUME NEW i \in 1 .. ByteBits, ~(i <= ByteBits - n)
        PROVE  w[i] = t[i - (ByteBits - n)]
    <3>1. /\ Len(u) = ByteBits - n /\ i \in 1 .. Len(u) + Len(v)
          /\ i - (ByteBits - n) \in 1 .. n
      BY <1>0, <1>1, <1>2, <2>2
    <3>2. w[i] = v[i - (ByteBits - n)]
      BY <1>3, <2>2, <3>1
    <3> QED BY <1>2, <3>1, <3>2
  <2> QED BY <2>1, <2>2
<1> QED BY <1>4, <1>6, <1>7

LEMMA BytesEqual ==
  ASSUME NEW b \in Byte, NEW c \in Byte, \A i \in 1 .. ByteBits : b[i] = c[i]
  PROVE  b = c
<1>1. b = [i \in 1 .. ByteBits |-> b[i]] /\ c = [i \in 1 .. ByteBits |-> c[i]]
  BY Zenon DEF Byte
<1>2. [i \in 1 .. ByteBits |-> b[i]] = [i \in 1 .. ByteBits |-> c[i]]
  BY Zenon
<1> QED BY <1>1, <1>2, Zenon

LEMMA BitMoves ==
  ASSUME NEW r \in Byte, NEW t \in Byte, NEW n \in 1 .. ByteBits, r[ByteBits] = 0
  PROVE  IF n > 1
         THEN Joined(ShiftRight(SetTopBit(r, t[1])), n - 1, ShiftRight(t)) = Joined(r, n, t)
         ELSE SetTopBit(r, t[1]) = Joined(r, n, t)
<1> DEFINE y == SetTopBit(r, t[1])
<1>0. ByteBits \in Nat \ {0, 1}
  BY ByteBitsAssumption
<1>1. /\ y \in Byte
      /\ \A i \in 1 .. ByteBits : y[i] = IF i = ByteBits THEN t[1] ELSE r[i]
  <2>1. t[1] \in Bit
    BY <1>0 DEF Byte
  <2> QED BY <2>1, TopBitByte
<1> HIDE DEF y
<1> DEFINE j == Joined(r, n, t)
<1>2. /\ j \in Byte
      /\ \A i \in 1 .. ByteBits : j[i] = IF i <= ByteBits - n THEN r[n + i - 1] ELSE t[i - (ByteBits - n)]
  BY JoinedBits
<1> HIDE DEF j
<1>3. CASE n > 1
  <2> DEFINE p == ShiftRight(y)
             q == ShiftRight(t)
             m == n - 1
             k == Joined(p, m, q)
  <2>1. p \in Byte /\ \A i \in 1 .. ByteBits : p[i] = IF i = ByteBits THEN 0 ELSE y[i + 1]
    BY <1>1, ShiftByte
  <2>2. q \in Byte /\ \A i \in 1 .. ByteBits : q[i] = IF i = ByteBits THEN 0 ELSE t[i + 1]
    BY ShiftByte
  <2>3. m \in 1 .. ByteBits
    BY <1>0, <1>3
  <2> HIDE DEF p, q, m
  <2>4. /\ k \in Byte
        /\ \A i \in 1 .. ByteBits : k[i] = IF i <= ByteBits - m THEN p[m + i - 1] ELSE q[i - (ByteBits - m)]
    BY <2>1, <2>2, <2>3, JoinedBits
  <2> HIDE DEF k
  <2> USE DEF m
  <2>5. ASSUME NEW i \in 1 .. ByteBits PROVE k[i] = j[i]
    <3>1. CASE i <= ByteBits - n
      <4>1. /\ m + i - 1 \in 1 .. ByteBits - 1 /\ m + i - 1 + 1 = n + i - 1
            /\ n + i - 1 \in 1 .. ByteBits - 1 /\ i <= ByteBits - m
        BY <1>0, <1>3, <3>1
      <4>2. k[i] = p[m + i - 1] /\ p[m + i - 1] = y[n + i - 1]
        BY <1>0, <2>1, <2>4, <4>1
      <4>3. y[n + i - 1] = r[n + i - 1]
        BY <1>0, <1>1, <4>1
      <4> QED BY <1>2, <3>1, <4>2, <4>3
    <3>2. CASE i = ByteBits - n + 1
      <4>1. /\ m + i - 1 = ByteBits - 1 /\ ByteBits - 1 \in 1 .. ByteBits
            /\ i <= ByteBits - m /\ ~(i <= ByteBits - n) /\ i - (ByteBits - n) = 1
        BY <1>0, <1>3, <3>2
      <4>2. k[i] = p[ByteBits - 1] /\ p[ByteBits - 1] = y[ByteBits] /\ y[ByteBits] = t[1]
        BY <1>0, <1>1, <2>1, <2>4, <4>1
      <4> QED BY <1>2, <4>1, <4>2
    <3>3. CASE i > ByteBits - n + 1
      <4>1. /\ ~(i <= ByteBits - m) /\ ~(i <= ByteBits - n)
            /\ i - (ByteBits - m) \in 1 .. ByteBits - 1
            /\ i - (ByteBits - m) + 1 = i - (ByteBits - n)
        BY <1>0, <1>3, <3>3
      <4>2. k[i] = q[i - (ByteBits - m)] /\ q[i - (ByteBits - m)] = t[i - (ByteBits - n)]
        BY <1>0, <2>2, <2>4, <4>1
      <4> QED BY <1>2, <4>1, <4>2
    <3> QED BY <1>0, <3>1, <3>2, <3>3
  <2>6. k = j
    BY <1>2, <2>4, <2>5, BytesEqual
  <2> QED BY <1>3, <2>6 DEF k, p, q, y, j
<1>4. CASE n = 1
  <2>1. ASSUME NEW i \in 1 .. ByteBits PROVE y[i] = j[i]
    BY <1>0, <1>1, <1>2, <1>4
  <2>2. y = j
    BY <1>1, <1>2, <2>1, BytesEqual
  <2> QED BY <1>4, <2>2 DEF y, j
<1> QED BY <1>0, <1>3, <1>4

LEMMA NothingMoved ==
  ASSUME NEW t \in Byte PROVE Joined(Zero, ByteBits, t) = t
<1>1. ByteBits \in 1 .. ByteBits /\ Zero \in Byte
  BY ByteBitsAssumption, ZeroByte
<1> DEFINE j == Joined(Zero, ByteBits, t)
<1>2. /\ j \in Byte
      /\ \A i \in 1 .. ByteBits :
           j[i] = IF i <= ByteBits - ByteBits THEN Zero[ByteBits + i - 1] ELSE t[i - (ByteBits - ByteBits)]
  BY <1>1, JoinedBits
<1> HIDE DEF j
<1>3. \A i \in 1 .. ByteBits : j[i] = t[i]
  BY <1>2, ByteBitsAssumption
<1> QED BY <1>2, <1>3, BytesEqual DEF j
LEMMA Frames ==
  ASSUME NEW RSR, NEW n, NEW TSR
  PROVE  /\ ByteOnLine("idle", RSR, n, TSR) = <<>>
         /\ ByteOnLine("data", RSR, n, TSR) = <<Joined(RSR, n, TSR)>>
         /\ ByteOnLine("stop", RSR, n, TSR) = <<RSR>>
  BY DEF ByteOnLine, Joined

-----------------------------------------------------------------------------
(* The channel to the IKBD implements the one of ByteLink.  TDR is the     *)
(* register that holds a byte; the byte on the line is put together from   *)
(* the two shift registers.  Bits that move are stutters, a byte starts    *)
(* with the start bit and is delivered with the stop bit.                  *)

ToHold == IF acia.TDRE THEN <<>> ELSE <<acia.TDR>>
ToFrame == ByteOnLine(kbd.RX_State, kbd.RSR, kbd.RX_Size, acia.TSR)

ToSame == UNCHANGED <<ToHold, ToFrame, kbd.RDR>>
ToWrites == \E b \in Byte : ToHold' = <<b>> /\ UNCHANGED <<ToFrame, kbd.RDR>>
ToStarts == /\ ToHold # <<>> /\ ToFrame = <<>>
            /\ ToFrame' = ToHold /\ ToHold' = <<>> /\ kbd'.RDR = kbd.RDR
ToDelivers == /\ ToFrame # <<>> /\ kbd'.RDR = Head(ToFrame) /\ ToFrame' = <<>>
              /\ ToHold' = ToHold
ToClears == ToHold' = <<>> /\ ToFrame = <<>> /\ UNCHANGED <<ToFrame, kbd.RDR>>

LEMMA ToTick ==
  ASSUME LinkInv, Tick, ToAligned, ToAligned'
  PROVE  ToSame \/ ToStarts \/ ToDelivers
<1>0. ACIAOK(acia) /\ SCIOK(kbd) /\ acia.TDR \in Byte
  BY DEF LinkInv, ACIAOK, ACIAState
<1>1. TXTick(acia, acia') /\ KRXTick(kbd, kbd', TX_Bit(acia)) /\ acia'.TDR = acia.TDR
  BY TickParts
<1>2. CASE acia.TX_State = "idle" /\ kbd.RX_State = "idle"
  <2>0. ToFrame = <<>>
    BY <1>2, Frames DEF ToFrame
  <2>1. CASE acia.TX_SendBrk
    <3>1. acia'.TX_State = "idle" /\ kbd'.RX_State = "data"
      BY <1>1, <1>2, <2>1 DEF TXTick, IdleTick, SameTX, KRXTick
    <3> QED BY <3>1 DEF ToAligned
  <2>2. CASE ~acia.TX_SendBrk /\ acia.TDRE
    <3>1. SameTX(acia, acia') /\ TX_Bit(acia) = 1
      BY <1>1, <1>2, <2>2 DEF TXTick, IdleTick
    <3>2. SameKRX(kbd, kbd')
      BY <1>1, <1>2, <3>1 DEF KRXTick
    <3> QED BY <3>1, <3>2 DEF SameTX, SameKRX, ToSame, ToHold, ToFrame
  <2>3. CASE ~acia.TX_SendBrk /\ ~acia.TDRE
    <3>1. TX_Bit(acia) = 0 /\ acia'.TSR = acia.TDR /\ acia'.TDRE = TRUE
      BY <1>1, <1>2, <2>3 DEF TXTick, IdleTick
    <3>2. /\ kbd'.RX_State = "data" /\ kbd'.RSR = Zero /\ kbd'.RX_Size = ByteBits
          /\ kbd'.RDR = kbd.RDR
      BY <1>1, <1>2, <3>1 DEF KRXTick
    <3>3. ToFrame' = <<acia.TDR>>
      BY <1>0, <3>1, <3>2, Frames, NothingMoved DEF ToFrame
    <3>4. ToHold = <<acia.TDR>> /\ ToHold' = <<>>
      BY <2>3, <3>1 DEF ToHold
    <3> QED BY <2>0, <3>2, <3>3, <3>4 DEF ToStarts
  <2> QED BY <2>1, <2>2, <2>3
<1>3. CASE acia.TX_State = "data" /\ kbd.RX_State = "data" /\ acia.TX_Size = kbd.RX_Size
  <2> DEFINE n == kbd.RX_Size
             y == SetTopBit(kbd.RSR, acia.TSR[1])
  <2>1. /\ n \in 1 .. ByteBits /\ kbd.RSR \in Byte /\ kbd.RSR[ByteBits] = 0 /\ acia.TSR \in Byte
    BY <1>0, <1>3, ByteBitsAssumption DEF ACIAOK, ACIAState, SCIOK, SCIState, SizeOK
  <2>2. IF n > 1 THEN Joined(ShiftRight(y), n - 1, ShiftRight(acia.TSR)) = Joined(kbd.RSR, n, acia.TSR)
                 ELSE y = Joined(kbd.RSR, n, acia.TSR)
    BY <2>1, BitMoves
  <2>3. acia'.TSR = ShiftRight(acia.TSR) /\ acia'.TDRE = acia.TDRE /\ TX_Bit(acia) = acia.TSR[1]
    BY <1>1, <1>3 DEF TXTick, DataTick
  <2>4. /\ kbd'.RX_Size = n - 1 /\ kbd'.RDR = kbd.RDR
        /\ IF n > 1 THEN kbd'.RX_State = "data" /\ kbd'.RSR = ShiftRight(y)
                    ELSE kbd'.RX_State = "stop" /\ kbd'.RSR = y
    BY <1>1, <1>3, <2>3 DEF KRXTick
  <2>5. ToFrame = <<Joined(kbd.RSR, n, acia.TSR)>>
    BY <1>3, Frames DEF ToFrame
  <2>6. ToFrame' = ByteOnLine(kbd'.RX_State, kbd'.RSR, kbd'.RX_Size, acia'.TSR)
    BY DEF ToFrame
  <2> HIDE DEF y, n
  <2>7. ToFrame' = ToFrame
    <3>1. CASE n > 1
      BY <2>2, <2>3, <2>4, <2>5, <2>6, <3>1, Frames
    <3>2. CASE ~(n > 1)
      BY <2>2, <2>4, <2>5, <2>6, <3>2, Frames
    <3> QED BY <3>1, <3>2
  <2> QED BY <1>1, <2>3, <2>4, <2>7 DEF ToSame, ToHold
<1>4. CASE acia.TX_State = "stop" /\ kbd.RX_State = "stop"
  <2>1. TX_Bit(acia) = 1 /\ acia'.TDRE = acia.TDRE
    BY <1>1, <1>4 DEF TXTick, StopTick
  <2>2. kbd'.RX_State = "idle" /\ kbd'.RDR = kbd.RSR
    BY <1>1, <1>4, <2>1 DEF KRXTick
  <2>3. ToFrame = <<kbd.RSR>> /\ ToFrame' = <<>>
    BY <1>4, <2>2, Frames DEF ToFrame
  <2> QED BY <1>1, <2>1, <2>2, <2>3 DEF ToDelivers, ToHold
<1> QED BY <1>2, <1>3, <1>4 DEF ToAligned

LEMMA ToStep ==
  ASSUME LinkInv, Next, ToAligned, ToAligned'
  PROVE  ToSame \/ ToWrites \/ ToStarts \/ ToDelivers \/ ToClears
<1>0. ACIAOK(acia) /\ SCIOK(kbd)
  BY DEF LinkInv
<1>1. ASSUME acia'.TDR = acia.TDR, acia'.TDRE = acia.TDRE, acia'.TSR = acia.TSR, SameKRX(kbd, kbd')
      PROVE  ToSame
  BY <1>1 DEF SameKRX, ToSame, ToHold, ToFrame
<1>2. SameKRX(kbd, kbd)
  BY DEF SameKRX
<1>3. ASSUME NEW cr \in CRValues, WriteCR(cr) PROVE ToSame \/ ToClears
  <2>1. cr \in ControlRegister /\ acia' = ACIA_Write_CR(acia, cr) /\ kbd' = kbd
    BY <1>3, LinkAssumption DEF WriteCR
  <2>2. CASE IsMasterReset(cr)
    <3>1. acia'.TX_State = "idle" /\ acia'.TDRE = TRUE
      BY <1>0, <2>1, <2>2, WriteCRKeeps DEF Cleared
    <3>2. kbd.RX_State = "idle"
      BY <2>1, <3>1 DEF ToAligned
    <3>3. ToFrame = <<>> /\ ToFrame' = <<>>
      BY <2>1, <3>2, Frames DEF ToFrame
    <3> QED BY <2>1, <3>1, <3>3 DEF ToClears, ToHold
  <2>3. CASE ~IsMasterReset(cr)
    BY <1>0, <1>1, <1>2, <2>1, <2>3, WriteCRKeeps DEF SameTX
  <2> QED BY <2>2, <2>3
<1>4. ASSUME NEW byte \in TxBytes, WriteTDR(byte) PROVE ToWrites
  <2>1. acia' = ACIA_Write_TDR(acia, byte) /\ kbd' = kbd /\ byte \in Byte
    BY <1>4, LinkAssumption DEF WriteTDR, Set
  <2>2. acia'.TSR = acia.TSR /\ acia'.TDR = byte /\ acia'.TDRE = FALSE
    BY <1>0, <2>1, WriteTDRKeeps
  <2> QED BY <2>1, <2>2 DEF ToWrites, ToHold, ToFrame
<1>5. ASSUME ReadSR PROVE ToSame
  <2>1. acia' = ACIA_Read_SR(acia) /\ kbd' = kbd
    BY <1>5 DEF ReadSR, Set
  <2> QED BY <1>0, <1>1, <1>2, <2>1, ReadSRKeeps DEF SameTX
<1>6. ASSUME ReadRDR PROVE ToSame
  <2>1. acia' = ACIA_Read_RDR(acia) /\ kbd' = kbd
    BY <1>6 DEF ReadRDR, Set
  <2> QED BY <1>0, <1>1, <1>2, <2>1, ReadRDRKeeps DEF SameTX
<1>7. ASSUME Tick PROVE ToSame \/ ToStarts \/ ToDelivers
  BY <1>7, ToTick
<1>8. ASSUME NEW byte \in KeyBytes, NEW delay \in Delays, SendByte(byte, delay) PROVE ToSame
  BY <1>0, <1>1, <1>8, SendStep DEF SendByte
<1>9. ASSUME NEW paused \in BOOLEAN, Pause(paused) PROVE ToSame
  BY <1>0, <1>1, <1>9, StatusOnly DEF Pause
<1>10. ASSUME Boot PROVE ToSame
  BY <1>0, <1>1, <1>10, BootFlushes DEF Boot
<1>11. ASSUME ResetTimer PROVE ToSame
  BY <1>0, <1>1, <1>11, SendStep DEF ResetTimer
<1>12. ASSUME Reset PROVE ToSame
  <2>1. acia' = acia /\ kbd' = IKBD_Reset(kbd)
    BY <1>12 DEF Reset
  <2>2. kbd'.RX_State = "idle" /\ kbd'.RDR = kbd.RDR
    BY <1>0, <2>1, ResetFlushes
  <2>3. kbd.RX_State = "idle"
    BY <2>1, <2>2 DEF ToAligned
  <2>4. ToFrame = <<>> /\ ToFrame' = <<>>
    BY <2>2, <2>3, Frames DEF ToFrame
  <2> QED BY <2>1, <2>2, <2>4 DEF ToSame, ToHold
<1> QED
  BY <1>3, <1>4, <1>5, <1>6, <1>7, <1>8, <1>9, <1>10, <1>11, <1>12 DEF Next

(* What a program writes to TDR arrives at the IKBD byte by byte, in       *)
(* order, unchanged, as long as both agree where a byte starts.            *)
THEOREM BytesReachTheKeyboard == Spec => ToKeyboard
<1>1. Init => ToLink!ToInit
  <2> SUFFICES ASSUME Init PROVE ToLink!ToInit
    OBVIOUS
  <2>1. LinkInv
    BY LinkInit
  <2>3. acia.TX_State = "idle" /\ kbd.RX_State = "idle"
    BY DEF Init, ACIA_Init, IKBD_Reset, IKBD_Boot_ROM, SCI_Init
  <2>4. ToFrame = <<>>
    BY <2>3, Frames DEF ToFrame
  <2>5. kbd.RDR \in Byte
    BY <2>1 DEF LinkInv, SCIOK, SCIState
  <2>6. Len(ToHold) <= 1
    BY DEF ToHold
  <2> QED BY <2>3, <2>4, <2>5, <2>6 DEF ToLink!ToInit, ToAligned, ToFrame, ToHold
<1>2. LinkInv /\ [Next]_vars => [ToLink!ToNext]_(ToLink!toVars)
  <2> SUFFICES ASSUME LinkInv, [Next]_vars PROVE [ToLink!ToNext]_(ToLink!toVars)
    OBVIOUS
  <2>1. CASE UNCHANGED vars
    BY <2>1 DEF vars, ToLink!toVars, ToAligned
  <2>2. CASE ~(ToAligned /\ ToAligned')
    BY <2>2 DEF ToLink!ToNext
  <2>3. CASE Next /\ ToAligned /\ ToAligned'
    <3>1. ToSame \/ ToWrites \/ ToStarts \/ ToDelivers \/ ToClears
      BY <2>3, ToStep
    <3>2. ToSame => UNCHANGED (ToLink!toVars)
      BY <2>3 DEF ToSame, ToHold, ToFrame, ToLink!toVars
    <3>3. ToWrites => ToLink!ToWrite
      BY DEF ToWrites, ToHold, ToFrame, ToLink!ToWrite
    <3>4. ToStarts => ToLink!ToStart
      BY DEF ToStarts, ToHold, ToFrame, ToLink!ToStart
    <3>5. ToDelivers => ToLink!ToDeliver
      BY DEF ToDelivers, ToHold, ToFrame, ToLink!ToDeliver
    <3>6. ToClears => ToLink!ToClear
      BY DEF ToClears, ToHold, ToFrame, ToLink!ToClear
    <3> QED BY <3>1, <3>2, <3>3, <3>4, <3>5, <3>6 DEF ToLink!ToNext
  <2> QED BY <2>1, <2>2, <2>3
<1> QED BY <1>1, <1>2, LinkInvariant, PTL DEF Spec, ToKeyboard, ToLink!ToKeyboard
-----------------------------------------------------------------------------
(* The output ring of the IKBD as a queue.                                 *)

Place(k, i) == (k.BufferHead + i - 1) % SIZE_KEYBOARD_BUFFER
Ring(k) == [i \in 1 .. k.NbBytesInOutputBuffer |-> k.Buffer[Place(k, i)]]

LEMMA Places ==
  ASSUME NEW k, SCIOK(k), NEW i \in 1 .. SIZE_KEYBOARD_BUFFER + 1
  PROVE  /\ Place(k, i) \in Slots
         /\ Place(k, i) = IF k.BufferHead + i - 1 < SIZE_KEYBOARD_BUFFER THEN k.BufferHead + i - 1
                          ELSE k.BufferHead + i - 1 - SIZE_KEYBOARD_BUFFER
<1> DEFINE h == k.BufferHead
           j == i - 1
<1>1. h \in Slots /\ j \in 0 .. SIZE_KEYBOARD_BUFFER /\ h + i - 1 = h + j
  BY BufferAssumption DEF SCIOK, SCIState, Slots
<1>2. Place(k, i) = (h + j) % SIZE_KEYBOARD_BUFFER
  BY <1>1 DEF Place
<1> QED BY <1>1, <1>2, RingIndex

LEMMA RingQueue ==
  ASSUME NEW k, SCIOK(k)
  PROVE  /\ Ring(k) \in Seq(Byte) /\ Len(Ring(k)) = k.NbBytesInOutputBuffer
         /\ \A i \in 1 .. k.NbBytesInOutputBuffer : Ring(k)[i] = k.Buffer[Place(k, i)]
<1> DEFINE n == k.NbBytesInOutputBuffer
<1>1. n \in 0 .. SIZE_KEYBOARD_BUFFER /\ n \in Nat /\ k.Buffer \in [Slots -> Byte]
  BY BufferAssumption DEF SCIOK, SCIState
<1>2. \A i \in 1 .. n : k.Buffer[Place(k, i)] \in Byte
  <2>1. ASSUME NEW i \in 1 .. n PROVE Place(k, i) \in Slots
    BY <1>1, Places, BufferAssumption
  <2> QED BY <1>1, <2>1
<1>3. Ring(k) \in [1 .. n -> Byte]
  BY <1>2 DEF Ring
<1>4. Ring(k) \in Seq(Byte) /\ Len(Ring(k)) = n
  <2>1. Ring(k) \in Seq(Byte)
    BY <1>1, <1>3, SeqDef
  <2>2. Len(Ring(k)) = n
    BY <1>1, <1>3, <2>1, LenProperties
  <2> QED BY <2>1, <2>2
<1> QED BY <1>4 DEF Ring

LEMMA RingAppends ==
  ASSUME NEW k, SCIOK(k), NEW m, SCIOK(m), NEW byte \in Byte, Queued(k, m, byte)
  PROVE  Ring(m) = Append(Ring(k), byte) /\ Len(Ring(k)) < SIZE_KEYBOARD_BUFFER
<1> DEFINE n == k.NbBytesInOutputBuffer
           q == Ring(k)
           r == Ring(m)
           a == Append(q, byte)
<1>1. /\ n \in 0 .. SIZE_KEYBOARD_BUFFER - 1 /\ m.NbBytesInOutputBuffer = n + 1
      /\ k.BufferHead \in Slots /\ m.BufferHead = k.BufferHead
      /\ k.Buffer \in [Slots -> Byte] /\ k.BufferTail \in Slots
      /\ m.Buffer = [k.Buffer EXCEPT ![k.BufferTail] = byte]
  BY BufferAssumption DEF SCIOK, SCIState, Queued
<1>2. /\ q \in Seq(Byte) /\ Len(q) = n /\ \A i \in 1 .. n : q[i] = k.Buffer[Place(k, i)]
  BY RingQueue
<1>3. /\ r \in Seq(Byte) /\ Len(r) = n + 1 /\ \A i \in 1 .. n + 1 : r[i] = m.Buffer[Place(m, i)]
  <2>1. /\ r \in Seq(Byte) /\ Len(r) = m.NbBytesInOutputBuffer
        /\ \A i \in 1 .. m.NbBytesInOutputBuffer : r[i] = m.Buffer[Place(m, i)]
    BY ONLY SCIOK(m), RingQueue
  <2>2. m.NbBytesInOutputBuffer = n + 1
    BY <1>1
  <2> HIDE DEF r, n
  <2> QED BY ONLY <2>1, <2>2
<1>4. /\ a \in Seq(Byte) /\ Len(a) = n + 1 /\ a[n + 1] = byte
      /\ \A i \in 1 .. n : a[i] = q[i]
  BY <1>2, AppendProperties
<1> HIDE DEF q, r, a, n
<1>5. \A i : Place(m, i) = Place(k, i)
  BY <1>1 DEF Place
<1>6. k.BufferTail = Place(k, n + 1)
  <2>1. k.BufferHead + (n + 1) - 1 = k.BufferHead + n
    BY <1>1, BufferAssumption DEF Slots
  <2> QED BY <2>1 DEF Place, SCIOK, n
<1>7. ASSUME NEW i \in 1 .. n + 1 PROVE r[i] = a[i]
  <2>1. CASE i = n + 1
    BY <1>1, <1>3, <1>4, <1>5, <1>6, <2>1
  <2>2. CASE i # n + 1
    <3>1. i \in 1 .. n
      BY <1>1, <2>2
    <3>2. Place(k, i) \in Slots /\ Place(k, i) # Place(k, n + 1)
      <4>1. i \in 1 .. SIZE_KEYBOARD_BUFFER + 1 /\ n + 1 \in 1 .. SIZE_KEYBOARD_BUFFER + 1
        BY <1>1, <3>1, BufferAssumption
      <4>2. /\ Place(k, i) \in Slots
            /\ Place(k, i) = IF k.BufferHead + i - 1 < SIZE_KEYBOARD_BUFFER THEN k.BufferHead + i - 1
                             ELSE k.BufferHead + i - 1 - SIZE_KEYBOARD_BUFFER
        BY <4>1, Places
      <4>3. Place(k, n + 1) = IF k.BufferHead + (n + 1) - 1 < SIZE_KEYBOARD_BUFFER
                              THEN k.BufferHead + (n + 1) - 1
                              ELSE k.BufferHead + (n + 1) - 1 - SIZE_KEYBOARD_BUFFER
        BY <4>1, Places
      <4> QED BY <1>1, <3>1, <4>2, <4>3, BufferAssumption DEF Slots
    <3>3. m.Buffer[Place(k, i)] = k.Buffer[Place(k, i)]
      BY <1>1, <1>6, <3>2
    <3> QED BY <1>2, <1>3, <1>4, <1>5, <3>1, <3>3
  <2> QED BY <2>1, <2>2
<1>8. r = a
  BY <1>3, <1>4, <1>7, SeqEqual
<1>9. Len(q) < SIZE_KEYBOARD_BUFFER
  BY <1>1, <1>2, BufferAssumption
<1> QED BY <1>8, <1>9 DEF r, a, q

LEMMA RingTakes ==
  ASSUME NEW k, SCIOK(k), NEW m, SCIOK(m), k.NbBytesInOutputBuffer > 0,
         m.Buffer = k.Buffer, m.BufferHead = Next_Slot(k.BufferHead),
         m.NbBytesInOutputBuffer = k.NbBytesInOutputBuffer - 1
  PROVE  /\ Ring(k) # <<>> /\ Head(Ring(k)) = k.Buffer[k.BufferHead]
         /\ Ring(m) = Tail(Ring(k)) /\ k.Buffer[k.BufferHead] \in Byte
<1> DEFINE n == k.NbBytesInOutputBuffer
           q == Ring(k)
           r == Ring(m)
<1>1. /\ n \in 1 .. SIZE_KEYBOARD_BUFFER /\ m.NbBytesInOutputBuffer = n - 1
      /\ k.BufferHead \in Slots /\ m.BufferHead \in Slots /\ k.Buffer \in [Slots -> Byte]
  BY BufferAssumption DEF SCIOK, SCIState
<1>2. /\ q \in Seq(Byte) /\ Len(q) = n /\ \A i \in 1 .. n : q[i] = k.Buffer[Place(k, i)]
  BY RingQueue
<1>3. /\ r \in Seq(Byte) /\ Len(r) = n - 1 /\ \A i \in 1 .. n - 1 : r[i] = m.Buffer[Place(m, i)]
  BY RingQueue
<1> HIDE DEF q, r, n
<1>4. q # <<>> /\ Head(q) = q[1]
  BY <1>1, <1>2
<1>5. Place(k, 1) = k.BufferHead
  <2>1. /\ 1 \in 1 .. SIZE_KEYBOARD_BUFFER + 1 /\ k.BufferHead + 1 - 1 = k.BufferHead
        /\ k.BufferHead < SIZE_KEYBOARD_BUFFER
    BY <1>1, BufferAssumption DEF Slots
  <2> QED BY <2>1, Places
<1>6. ASSUME NEW i \in 1 .. n - 1 PROVE Place(m, i) = Place(k, i + 1)
  <2>1. i \in 1 .. SIZE_KEYBOARD_BUFFER + 1 /\ i + 1 \in 1 .. SIZE_KEYBOARD_BUFFER + 1
    BY <1>1, BufferAssumption
  <2>2. Place(m, i) = IF m.BufferHead + i - 1 < SIZE_KEYBOARD_BUFFER THEN m.BufferHead + i - 1
                      ELSE m.BufferHead + i - 1 - SIZE_KEYBOARD_BUFFER
    BY <2>1, Places
  <2>3. Place(k, i + 1) = IF k.BufferHead + (i + 1) - 1 < SIZE_KEYBOARD_BUFFER
                          THEN k.BufferHead + (i + 1) - 1
                          ELSE k.BufferHead + (i + 1) - 1 - SIZE_KEYBOARD_BUFFER
    BY <2>1, Places
  <2>4. m.BufferHead = IF k.BufferHead + 1 < SIZE_KEYBOARD_BUFFER THEN k.BufferHead + 1 ELSE 0
    BY <1>1, NextSlot
  <2> QED BY <1>1, <2>2, <2>3, <2>4, BufferAssumption DEF Slots
<1>7. Tail(q) \in Seq(Byte) /\ Len(Tail(q)) = n - 1 /\ \A i \in 1 .. n - 1 : Tail(q)[i] = q[i + 1]
  BY <1>1, <1>2, <1>4, HeadTailProperties
<1>8. \A i \in 1 .. n - 1 : r[i] = Tail(q)[i]
  <2>1. \A i \in 1 .. n - 1 : i + 1 \in 1 .. n
    BY <1>1
  <2> QED BY <1>2, <1>3, <1>6, <1>7, <2>1
<1>9. r = Tail(q)
  BY <1>3, <1>7, <1>8, SeqEqual
<1>10. q[1] = k.Buffer[k.BufferHead]
  BY <1>1, <1>2, <1>5
<1> QED BY <1>1, <1>4, <1>9, <1>10 DEF q, r, n
-----------------------------------------------------------------------------
(* The channel from the IKBD implements the one of ByteLink.  The ring is  *)
(* its queue.                                                              *)

FromFrame == ByteOnLine(acia.RX_State, acia.RSR, acia.RX_Size, kbd.TSR)

FromSame == UNCHANGED <<Ring(kbd), FromFrame, acia.RDR, acia.RDRF, acia.RX_Overrun>>
FromSends == /\ Len(Ring(kbd)) < SIZE_KEYBOARD_BUFFER
             /\ \E b \in Byte : Ring(kbd)' = Append(Ring(kbd), b)
             /\ UNCHANGED <<FromFrame, acia.RDR, acia.RDRF, acia.RX_Overrun>>
FromStarts == /\ Ring(kbd) # <<>> /\ FromFrame = <<>>
              /\ FromFrame' = <<Head(Ring(kbd))>> /\ Ring(kbd)' = Tail(Ring(kbd))
              /\ UNCHANGED <<acia.RDR, acia.RDRF, acia.RX_Overrun>>
FromDelivers == /\ FromFrame # <<>> /\ FromFrame' = <<>> /\ acia'.RDRF
                /\ IF acia.RDRF THEN acia'.RX_Overrun /\ acia'.RDR = acia.RDR
                   ELSE acia'.RDR = Head(FromFrame) /\ acia'.RX_Overrun = acia.RX_Overrun
                /\ Ring(kbd)' = Ring(kbd)
FromReads == ~acia'.RDRF /\ ~acia'.RX_Overrun /\ UNCHANGED <<Ring(kbd), FromFrame, acia.RDR>>
FromFlushes == /\ Ring(kbd)' = <<>>
               /\ UNCHANGED <<FromFrame, acia.RDR, acia.RDRF, acia.RX_Overrun>>

LEMMA SameRings ==
  ASSUME SameRing(kbd, kbd')
  PROVE  Ring(kbd)' = Ring(kbd)
  BY DEF SameRing, Ring, Place

LEMMA FromTick ==
  ASSUME LinkInv, Tick, FromAligned, FromAligned'
  PROVE  FromSame \/ FromStarts \/ FromDelivers
<1>0. ACIAOK(acia) /\ SCIOK(kbd) /\ acia.RDRF \in BOOLEAN
  BY DEF LinkInv, ACIAOK, ACIAState
<1>1. KTXTick(kbd, kbd') /\ RXTick(acia, acia', SCI_TX_Bit(kbd)) /\ SCIOK(kbd')
  BY TickParts
<1>2. CASE acia.RX_State = "idle" /\ kbd.TX_State = "idle"
  <2>0. FromFrame = <<>>
    BY <1>2, Frames DEF FromFrame
  <2>1. CASE ~Sends(kbd)
    <3>1. SCI_TX_Bit(kbd) = 1 /\ SameKTX(kbd, kbd') /\ SameRing(kbd, kbd')
      BY <1>1, <1>2, <2>1 DEF KTXTick
    <3>2. SameRX(acia, acia')
      BY <1>1, <1>2, <3>1 DEF RXTick, RXIdleTick
    <3> QED BY <3>1, <3>2, SameRings DEF SameRX, SameKTX, FromSame, FromFrame
  <2>2. CASE Sends(kbd)
    <3>1. /\ SCI_TX_Bit(kbd) = 0 /\ kbd'.TSR = kbd.Buffer[kbd.BufferHead]
          /\ kbd'.Buffer = kbd.Buffer /\ kbd'.BufferHead = Next_Slot(kbd.BufferHead)
          /\ kbd.NbBytesInOutputBuffer > 0
          /\ kbd'.NbBytesInOutputBuffer = kbd.NbBytesInOutputBuffer - 1
      BY <1>1, <1>2, <2>2 DEF KTXTick
    <3>2. /\ acia'.RX_State = "data" /\ acia'.RSR = Zero /\ SameReg(acia, acia')
      BY <1>1, <1>2, <3>1 DEF RXTick, RXIdleTick
    <3>3. /\ Ring(kbd) # <<>> /\ Head(Ring(kbd)) = kbd.Buffer[kbd.BufferHead]
          /\ Ring(kbd') = Tail(Ring(kbd)) /\ kbd.Buffer[kbd.BufferHead] \in Byte
      BY <1>0, <1>1, <3>1, RingTakes
    <3>4. acia'.RX_Size = ByteBits
      <4>1. kbd'.TX_Size = ByteBits /\ kbd'.TX_State = "data"
        BY <1>1, <1>2, <2>2 DEF KTXTick
      <4> QED BY <3>2, <4>1 DEF FromAligned
    <3>5. FromFrame' = <<kbd'.TSR>>
      <4>1. kbd'.TSR \in Byte
        BY <3>1, <3>3
      <4>2. FromFrame' = ByteOnLine(acia'.RX_State, acia'.RSR, acia'.RX_Size, kbd'.TSR)
        BY DEF FromFrame
      <4> QED BY <3>2, <3>4, <4>1, <4>2, Frames, NothingMoved
    <3> QED BY <2>0, <3>1, <3>2, <3>3, <3>5 DEF FromStarts, SameReg
  <2> QED BY <2>1, <2>2
<1>3. CASE acia.RX_State = "data" /\ kbd.TX_State = "data" /\ kbd.TX_Size = acia.RX_Size
  <2> DEFINE n == acia.RX_Size
             y == SetTopBit(acia.RSR, kbd.TSR[1])
  <2>1. /\ n \in 1 .. ByteBits /\ acia.RSR \in Byte /\ acia.RSR[ByteBits] = 0 /\ kbd.TSR \in Byte
    BY <1>0, <1>3, ByteBitsAssumption DEF ACIAOK, ACIAState, SCIOK, SCIState, SizeOK
  <2>2. IF n > 1 THEN Joined(ShiftRight(y), n - 1, ShiftRight(kbd.TSR)) = Joined(acia.RSR, n, kbd.TSR)
                 ELSE y = Joined(acia.RSR, n, kbd.TSR)
    BY <2>1, BitMoves
  <2>3. /\ kbd'.TSR = ShiftRight(kbd.TSR) /\ SCI_TX_Bit(kbd) = kbd.TSR[1] /\ SameRing(kbd, kbd')
        /\ kbd'.TX_State = IF n = 1 THEN "stop" ELSE "data"
    BY <1>1, <1>3 DEF KTXTick
  <2>4. /\ acia'.RX_Size = n - 1 /\ SameReg(acia, acia')
        /\ IF n > 1 THEN acia'.RX_State = "data" /\ acia'.RSR = ShiftRight(y)
                    ELSE acia'.RX_State = AfterData(acia) /\ acia'.RSR = y
    BY <1>1, <1>3, <2>3 DEF RXTick, RXDataTick
  <2>5. FromFrame = <<Joined(acia.RSR, n, kbd.TSR)>>
    BY <1>3, Frames DEF FromFrame
  <2>6. FromFrame' = ByteOnLine(acia'.RX_State, acia'.RSR, acia'.RX_Size, kbd'.TSR)
    BY DEF FromFrame
  <2> HIDE DEF y, n
  <2>7. FromFrame' = FromFrame
    <3>1. CASE n > 1
      BY <2>2, <2>3, <2>4, <2>5, <2>6, <3>1, Frames
    <3>2. CASE ~(n > 1)
      <4>1. n = 1
        BY <2>1, <3>2, ByteBitsAssumption
      <4>2. acia'.RX_State = "stop"
        BY <2>3, <4>1 DEF FromAligned
      <4> QED BY <2>2, <2>4, <2>5, <2>6, <3>2, <4>2, Frames
    <3> QED BY <3>1, <3>2
  <2> QED BY <2>3, <2>4, <2>7, SameRings DEF FromSame, SameReg
<1>4. CASE acia.RX_State = "stop" /\ kbd.TX_State = "stop" /\ acia.RX_StopBits = 1
  <2>1. SCI_TX_Bit(kbd) = 1 /\ SameRing(kbd, kbd')
    BY <1>1, <1>4 DEF KTXTick
  <2>2. /\ acia'.RX_State = "idle"
        /\ IF acia.RDRF THEN acia'.RX_Overrun = TRUE /\ acia'.RDR = acia.RDR /\ acia'.RDRF = acia.RDRF
           ELSE acia'.RDR = acia.RSR /\ acia'.RDRF = TRUE /\ acia'.RX_Overrun = acia.RX_Overrun
    BY <1>1, <1>4, <2>1 DEF RXTick, RXStopTick
  <2>3. FromFrame = <<acia.RSR>> /\ FromFrame' = <<>>
    BY <1>4, <2>2, Frames DEF FromFrame
  <2> QED BY <2>1, <2>2, <2>3, SameRings DEF FromDelivers
<1> QED BY <1>2, <1>3, <1>4 DEF FromAligned

LEMMA FromStep ==
  ASSUME LinkInv, Next, FromAligned, FromAligned'
  PROVE  FromSame \/ FromSends \/ FromStarts \/ FromDelivers \/ FromReads \/ FromFlushes
<1>0. ACIAOK(acia) /\ SCIOK(kbd)
  BY DEF LinkInv
<1>1. ASSUME SameRX(acia, acia'), SameKTX(kbd, kbd'), SameRing(kbd, kbd') PROVE FromSame
  BY <1>1, SameRings DEF SameRX, SameKTX, FromSame, FromFrame
<1>2. /\ SameKTX(kbd, kbd) /\ SameRing(kbd, kbd) /\ SameRX(acia, acia)
  BY DEF SameKTX, SameRing, SameRX
<1>3. ASSUME NEW cr \in CRValues, WriteCR(cr) PROVE FromSame \/ FromReads
  <2>1. cr \in ControlRegister /\ acia' = ACIA_Write_CR(acia, cr) /\ kbd' = kbd
    BY <1>3, LinkAssumption DEF WriteCR
  <2>2. CASE IsMasterReset(cr)
    <3>1. /\ acia'.RX_State = "idle" /\ acia'.RDRF = FALSE /\ acia'.RX_Overrun = FALSE
          /\ acia'.RDR = acia.RDR
      BY <1>0, <2>1, <2>2, WriteCRKeeps DEF Cleared
    <3>2. acia.RX_State = "idle"
      BY <2>1, <3>1 DEF FromAligned
    <3>3. FromFrame = <<>> /\ FromFrame' = <<>>
      BY <2>1, <3>1, <3>2, Frames DEF FromFrame
    <3> QED BY <1>2, <2>1, <3>1, <3>3, SameRings DEF FromReads
  <2>3. CASE ~IsMasterReset(cr)
    BY <1>0, <1>1, <1>2, <2>1, <2>3, WriteCRKeeps
  <2> QED BY <2>2, <2>3
<1>4. ASSUME NEW byte \in TxBytes, WriteTDR(byte) PROVE FromSame
  <2>1. acia' = ACIA_Write_TDR(acia, byte) /\ kbd' = kbd /\ byte \in Byte
    BY <1>4, LinkAssumption DEF WriteTDR, Set
  <2> QED BY <1>0, <1>1, <1>2, <2>1, WriteTDRKeeps
<1>5. ASSUME ReadSR PROVE FromSame
  <2>1. acia' = ACIA_Read_SR(acia) /\ kbd' = kbd
    BY <1>5 DEF ReadSR, Set
  <2> QED BY <1>0, <1>1, <1>2, <2>1, ReadSRKeeps
<1>6. ASSUME ReadRDR PROVE FromReads
  <2>1. acia' = ACIA_Read_RDR(acia) /\ kbd' = kbd
    BY <1>6 DEF ReadRDR, Set
  <2>2. /\ acia'.RX_State = acia.RX_State /\ acia'.RSR = acia.RSR /\ acia'.RX_Size = acia.RX_Size
        /\ acia'.RDR = acia.RDR /\ acia'.RDRF = FALSE /\ acia'.RX_Overrun = FALSE
    BY <1>0, <2>1, ReadRDRKeeps
  <2> QED BY <1>2, <2>1, <2>2, SameRings DEF FromReads, FromFrame
<1>7. ASSUME Tick PROVE FromSame \/ FromStarts \/ FromDelivers
  BY <1>7, FromTick
<1>8. ASSUME NEW byte \in KeyBytes, acia' = acia, SCIOK(kbd'), SameKTX(kbd, kbd'),
             SameRing(kbd, kbd') \/ Queued(kbd, kbd', byte)
      PROVE  FromSame \/ FromSends
  <2>1. CASE SameRing(kbd, kbd')
    BY <1>1, <1>2, <1>8, <2>1
  <2>2. CASE Queued(kbd, kbd', byte)
    <3>1. byte \in Byte
      BY LinkAssumption
    <3>2. Ring(kbd') = Append(Ring(kbd), byte) /\ Len(Ring(kbd)) < SIZE_KEYBOARD_BUFFER
      BY <1>0, <1>8, <2>2, <3>1, RingAppends
    <3> QED BY <1>8, <3>1, <3>2 DEF FromSends, FromFrame, SameKTX
  <2> QED BY <1>8, <2>1, <2>2
<1>9. ASSUME NEW byte \in KeyBytes, NEW delay \in Delays, SendByte(byte, delay)
      PROVE  FromSame \/ FromSends
  BY <1>0, <1>8, <1>9, SendStep DEF SendByte
<1>10. ASSUME NEW paused \in BOOLEAN, Pause(paused) PROVE FromSame
  BY <1>0, <1>1, <1>2, <1>10, StatusOnly DEF Pause
<1>11. ASSUME kbd'.NbBytesInOutputBuffer = 0 PROVE Ring(kbd)' = <<>>
  BY <1>11 DEF Ring
<1>12. ASSUME Boot PROVE FromFlushes
  <2>1. acia' = acia /\ kbd' = IKBD_Boot_ROM(kbd)
    BY <1>12 DEF Boot
  <2>2. SameKTX(kbd, kbd') /\ kbd'.NbBytesInOutputBuffer = 0
    BY <1>0, <2>1, BootFlushes
  <2> QED BY <1>11, <2>1, <2>2 DEF FromFlushes, FromFrame, SameKTX
<1>13. ASSUME ResetTimer PROVE FromSame \/ FromSends
  BY <1>0, <1>8, <1>13, SendStep DEF ResetTimer
<1>14. ASSUME Reset PROVE FromFlushes
  <2>1. acia' = acia /\ kbd' = IKBD_Reset(kbd)
    BY <1>14 DEF Reset
  <2>2. kbd'.TX_State = "idle" /\ kbd'.NbBytesInOutputBuffer = 0
    BY <1>0, <2>1, ResetFlushes
  <2>3. acia.RX_State = "idle"
    BY <2>1, <2>2 DEF FromAligned
  <2>4. FromFrame = <<>> /\ FromFrame' = <<>>
    BY <2>1, <2>3, Frames DEF FromFrame
  <2> QED BY <1>11, <2>1, <2>2, <2>4 DEF FromFlushes
<1> QED
  BY <1>3, <1>4, <1>5, <1>6, <1>7, <1>9, <1>10, <1>12, <1>13, <1>14 DEF Next

(* What the IKBD puts into its ring arrives in RDR byte by byte, in order, *)
(* unchanged; a byte that finds RDR full sets the overrun, and the next    *)
(* read of RDR is told.                                                    *)
THEOREM BytesReachTheProgram == Spec => FromKeyboard
<1>1. Init => FromLink!FromInit
  <2> SUFFICES ASSUME Init PROVE FromLink!FromInit
    OBVIOUS
  <2>1. LinkInv
    BY LinkInit
  <2>2. /\ acia.RX_State = "idle" /\ kbd.TX_State = "idle"
        /\ acia.RDRF = FALSE /\ acia.RX_Overrun = FALSE /\ kbd.NbBytesInOutputBuffer = 0
    BY DEF Init, ACIA_Init, IKBD_Reset, IKBD_Boot_ROM, SCI_Init
  <2>3. FromFrame = <<>> /\ Ring(kbd) = <<>>
    BY <2>2, Frames DEF FromFrame, Ring
  <2>4. acia.RDR \in Byte
    BY <2>1 DEF LinkInv, ACIAOK, ACIAState
  <2> QED BY <2>2, <2>3, <2>4 DEF FromLink!FromInit, FromAligned, FromFrame, Ring, Place, InRing
<1>2. LinkInv /\ [Next]_vars => [FromLink!FromNext]_(FromLink!fromVars)
  <2> SUFFICES ASSUME LinkInv, [Next]_vars PROVE [FromLink!FromNext]_(FromLink!fromVars)
    OBVIOUS
  <2>1. CASE UNCHANGED vars
    BY <2>1 DEF vars, FromLink!fromVars, FromAligned, InRing
  <2>2. CASE ~(FromAligned /\ FromAligned')
    BY <2>2 DEF FromLink!FromNext
  <2>3. CASE Next /\ FromAligned /\ FromAligned'
    <3>1. FromSame \/ FromSends \/ FromStarts \/ FromDelivers \/ FromReads \/ FromFlushes
      BY <2>3, FromStep
    <3>2. FromSame => UNCHANGED (FromLink!fromVars)
      BY <2>3 DEF FromSame, Ring, Place, InRing, FromFrame, FromLink!fromVars
    <3>3. FromSends => FromLink!FromSend
      BY DEF FromSends, Ring, Place, InRing, FromFrame, FromLink!FromSend
    <3>4. FromStarts => FromLink!FromStart
      BY DEF FromStarts, Ring, Place, InRing, FromFrame, FromLink!FromStart
    <3>5. FromDelivers => FromLink!FromDeliver
      BY DEF FromDelivers, Ring, Place, InRing, FromFrame, FromLink!FromDeliver
    <3>6. FromReads => FromLink!FromRead
      BY DEF FromReads, Ring, Place, InRing, FromFrame, FromLink!FromRead
    <3>7. FromFlushes => FromLink!FromFlush
      BY DEF FromFlushes, Ring, Place, InRing, FromFrame, FromLink!FromFlush
    <3> QED BY <3>1, <3>2, <3>3, <3>4, <3>5, <3>6, <3>7 DEF FromLink!FromNext
  <2> QED BY <2>1, <2>2, <2>3
<1> QED BY <1>1, <1>2, LinkInvariant, PTL DEF Spec, FromKeyboard, FromLink!FromKeyboard
=============================================================================
