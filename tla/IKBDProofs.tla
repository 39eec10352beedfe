----------------------------- MODULE IKBDProofs -----------------------------
(***************************************************************************)
(* Theorems about module IKBD, for every size of the output ring, every    *)
(* set of bytes from the 68000, every length of an upload and every number *)
(* of packets of one movement: packets enter the ring as a whole, the      *)
(* parser never waits for a byte that no command has, nothing precedes the *)
(* answer of a boot, and execution mode has a program.                     *)
(*                                                                         *)
(* The four facts support one another: the room for the answer of a boot   *)
(* comes from the empty ring (AnswerFirst), and an upload never replaces   *)
(* the program that runs, because that program takes the bytes             *)
(* (ProgramLoaded).                                                        *)
(***************************************************************************)
EXTENDS IKBD, TLAPS

Ring == [n : 0 .. SIZE_KEYBOARD_BUFFER, torn : SUBSET {"checked", "unchecked"}]
Input == [command : 0 .. 255, n : 0 .. SIZE_KEYBOARDINPUT_BUFFER]
Modes == [MouseMode : MouseModes, JoystickMode : JoystickModes]
Boots == [critical : BOOLEAN, bMouseEnabledDuringReset : BOOLEAN, bMouseDisabled : BOOLEAN,
          bJoystickDisabled : BOOLEAN]
Programs == [ExeMode : BOOLEAN, handler : {"none", "boot", "main"}, NbBytesLeft : 0 .. MaxLoad]

InSync(input) ==
  input = Empty \/ (input.command \in KeyboardCommands /\ input.n < NumParameters(input.command))

(* The parts of the inductive invariant, for the values of the variables.  *)
KeyboardOK(k, critical) ==
  /\ k \in [input : Input, out : Ring, PauseOutput : BOOLEAN]
  /\ "checked" \notin k.out.torn
  /\ InSync(k.input)
  /\ critical => k.out.n = 0 /\ ~k.PauseOutput
ProgramOK(p) == p \in Programs /\ (p.ExeMode => p.handler # "none")

IInv ==
  /\ KeyboardOK(Keyboard, boot.critical)
  /\ modes \in Modes /\ boot \in Boots /\ ProgramOK(program) /\ ready \in BOOLEAN

(* What the ring may become when something is sent. *)
Sent(a, b) ==
  /\ b \in Ring
  /\ "checked" \in b.torn => "checked" \in a.torn
  /\ boot.critical => b = a

LEMMA InvParts == IInv => TypeOK /\ WholePackets /\ ParserInSync /\ AnswerFirst /\ ProgramLoaded
  BY DEF IInv, KeyboardOK, ProgramOK, Ring, Input, Modes, Boots, Programs, InSync, TypeOK,
         WholePackets, ParserInSync, AnswerFirst, ProgramLoaded

-----------------------------------------------------------------------------
(* The ring. *)

LEMMA SentNothing == ASSUME NEW a \in Ring PROVE Sent(a, a)
  BY DEF Sent

LEMMA SentTwice ==
  ASSUME NEW a, NEW b, NEW c, Sent(a, b), Sent(b, c) PROVE Sent(a, c)
  BY DEF Sent

(* Bytes that fit are appended, nothing is torn. *)
LEMMA AppendFitting ==
  ASSUME NEW a \in Ring, NEW n \in Nat, NEW kind, n <= SIZE_KEYBOARD_BUFFER - a.n
  PROVE  /\ Append_Bytes(a, n, kind) \in Ring
         /\ Append_Bytes(a, n, kind).torn = a.torn
  BY IKBDAssumption DEF Append_Bytes, Ring

LEMMA AppendUnchecked ==
  ASSUME NEW a \in Ring, NEW n \in Nat
  PROVE  /\ Append_Bytes(a, n, "unchecked") \in Ring
         /\ "checked" \in Append_Bytes(a, n, "unchecked").torn => "checked" \in a.torn
  BY IKBDAssumption DEF Append_Bytes, Ring

LEMMA SendFitting ==
  ASSUME NEW a \in Ring, NEW n \in Nat, NEW kind, n <= SIZE_KEYBOARD_BUFFER - a.n
  PROVE  Sent(a, IKBD_Send_Bytes(a, n, kind)) /\ Sent(a, IKBD_Cmd_Return_Bytes(a, n, kind))
  BY AppendFitting, SentNothing DEF Sent, IKBD_Send_Bytes, IKBD_Cmd_Return_Bytes

LEMMA SendUnchecked ==
  ASSUME NEW a \in Ring, NEW n \in Nat
  PROVE  /\ Sent(a, IKBD_Send_Bytes(a, n, "unchecked"))
         /\ Sent(a, IKBD_Cmd_Return_Bytes(a, n, "unchecked"))
  BY AppendUnchecked, SentNothing DEF Sent, IKBD_Send_Bytes, IKBD_Cmd_Return_Bytes

LEMMA PacketSent ==
  ASSUME NEW a \in Ring, NEW n \in Nat PROVE Sent(a, ReturnPacket(a, n))
  <1>1. CASE SIZE_KEYBOARD_BUFFER - a.n >= n
    <2>1. n <= SIZE_KEYBOARD_BUFFER - a.n
      BY <1>1, IKBDAssumption DEF Ring
    <2> QED BY <1>1, <2>1, SendFitting DEF ReturnPacket, IKBD_OutputBuffer_CheckFreeCount
  <1>2. CASE ~(SIZE_KEYBOARD_BUFFER - a.n >= n)
    BY <1>2, SentNothing DEF ReturnPacket, IKBD_OutputBuffer_CheckFreeCount
  <1> QED BY <1>1, <1>2

(* As many packets of 1, 2 or 3 bytes as fit. *)
LEMMA PacketsSent ==
  ASSUME NEW a \in Ring, NEW n \in 1 .. 3, NEW count \in Nat
  PROVE  Sent(a, ReturnPackets(a, n, count))
  <1> DEFINE room == SIZE_KEYBOARD_BUFFER - a.n
             fit == room \div n
             k == IF count <= fit THEN count ELSE fit
  <1>1. room \in Nat
    BY IKBDAssumption DEF Ring
  <1>2. fit \in Nat /\ n * fit <= room
    <2> HIDE DEF room
    <2>1. CASE n = 1 BY <1>1, <2>1
    <2>2. CASE n = 2 BY <1>1, <2>2
    <2>3. CASE n = 3 BY <1>1, <2>3
    <2> QED BY <2>1, <2>2, <2>3
  <1>3. n * k \in Nat /\ n * k <= room
    <2> HIDE DEF room, fit
    <2>1. CASE n = 1 BY <1>1, <1>2, <2>1
    <2>2. CASE n = 2 BY <1>1, <1>2, <2>2
    <2>3. CASE n = 3 BY <1>1, <1>2, <2>3
    <2> QED BY <2>1, <2>2, <2>3
  <1> QED BY <1>3, SendFitting DEF ReturnPackets

LEMMA JoysticksSent ==
  ASSUME NEW a \in Ring, NEW moved \in Nat PROVE Sent(a, IKBD_SendAutoJoysticks(a, moved))
  BY PacketsSent DEF IKBD_SendAutoJoysticks

LEMMA HandlerSent ==
  ASSUME NEW a \in Ring, NEW b \in CustomCodeHandler_Read(a) PROVE Sent(a, b)
  BY SendUnchecked, SentNothing DEF CustomCodeHandler_Read

LEMMA KeySent ==
  ASSUME NEW a \in Ring, NEW b \in KeyOutput(a) PROVE Sent(a, b)
  <1>1. CASE modes.JoystickMode = "monitoring"
    BY <1>1, SentNothing DEF KeyOutput
  <1>2. CASE modes.JoystickMode # "monitoring"
    <2> DEFINE p == ReturnPacket(a, 1)
    <2>1. Sent(a, p)
      BY PacketSent
    <2>2. b \in CustomCodeHandler_Read(p)
      BY <1>2 DEF KeyOutput
    <2> HIDE DEF p
    <2>3. p \in Ring
      BY <2>1 DEF Sent
    <2> QED BY <2>1, <2>2, <2>3, HandlerSent, SentTwice
  <1> QED BY <1>1, <1>2

LEMMA ButtonsSent ==
  ASSUME NEW a \in Ring, NEW n \in Nat PROVE Sent(a, ButtonKeys(a, n))
  BY PacketsSent, SentNothing DEF ButtonKeys

LEMMA ActionSent ==
  ASSUME NEW a \in Ring, NEW n \in Nat, NEW b \in IKBD_SendOnMouseAction(a, n) PROVE Sent(a, b)
  BY ButtonsSent, PacketSent, SentNothing DEF IKBD_SendOnMouseAction

LEMMA MouseSent ==
  ASSUME NEW a \in Ring, NEW n \in Nat, NEW buttons \in Nat
  PROVE  Sent(a, MousePackets(a, n, buttons))
  <1> DEFINE p == ReturnPackets(a, 2, n)
  <1>1. Sent(a, p) /\ Sent(a, ReturnPackets(a, 3, n))
    BY PacketsSent
  <1>2. Sent(p, ButtonKeys(p, buttons))
    <2> HIDE DEF p
    <2> QED BY <1>1, ButtonsSent DEF Sent
  <1>3. Sent(a, ButtonKeys(p, buttons))
    <2> HIDE DEF p
    <2> QED BY <1>1, <1>2, SentTwice
  <1> QED BY <1>1, <1>3, SentNothing DEF MousePackets

-----------------------------------------------------------------------------
(* Patterns of actions. *)

(* The ring changes, nothing else. *)
LEMMA RingOnly ==
  ASSUME IInv, NEW o, Sent(Keyboard.out, o), Keyboard' = [Keyboard EXCEPT !.out = o],
         UNCHANGED <<modes, boot, program, ready>>
  PROVE  IInv'
  <1>1. KeyboardOK([Keyboard EXCEPT !.out = o], boot.critical)
    BY DEF IInv, KeyboardOK, Sent
  <1> QED BY <1>1 DEF IInv

(* A command is complete. *)
LEMMA CommandDone ==
  ASSUME IInv, NEW o, Sent(Keyboard.out, o), Done(o),
         modes' \in Modes, boot' \in Boots, boot'.critical = boot.critical,
         ProgramOK(program'), ready' = ready
  PROVE  IInv'
  <1>1. Empty \in Input /\ InSync(Empty)
    BY DEF Empty, Input, InSync, SIZE_KEYBOARDINPUT_BUFFER
  <1>2. KeyboardOK(Keyboard', boot.critical)
    BY <1>1 DEF IInv, KeyboardOK, Sent, Done
  <1> QED BY <1>2 DEF IInv

LEMMA BootROM == ASSUME IInv, IKBD_Boot_ROM, ready' \in BOOLEAN PROVE IInv'
  <1>1. KeyboardOK(InitialKeyboard, TRUE)
    BY IKBDAssumption DEF KeyboardOK, InitialKeyboard, Empty, EmptyRing, Input, Ring, InSync,
                          SIZE_KEYBOARDINPUT_BUFFER
  <1>2. InitialModes \in Modes /\ InitialBoot \in Boots /\ InitialBoot.critical = TRUE
    BY DEF InitialModes, InitialBoot, Modes, Boots, MouseModes, JoystickModes
  <1>3. ProgramOK(Boot_Program)
    <2>1. CASE program.ExeMode
      <3>1. Boot_Program = [ExeMode |-> FALSE, handler |-> "none", NbBytesLeft |-> 0]
        BY <2>1 DEF IInv, ProgramOK, Programs, Boot_Program
      <3>2. 0 \in 0 .. MaxLoad
        BY IKBDAssumption
      <3> QED BY <3>1, <3>2 DEF ProgramOK, Programs
    <2>2. CASE ~program.ExeMode
      BY <2>2 DEF IInv, Boot_Program
    <2> QED BY <2>1, <2>2
  <1> QED BY <1>1, <1>2, <1>3 DEF IInv, IKBD_Boot_ROM

-----------------------------------------------------------------------------
(* The commands. *)

LEMMA RingInv == IInv => Keyboard.out \in Ring
  BY DEF IInv, KeyboardOK

LEMMA SimpleCommands ==
  ASSUME IInv, ready' = ready, NEW byte,
         \/ IKBD_Cmd_Reset(byte)
         \/ \E mode \in {"rel", "abs", "cursor"} : IKBD_Cmd_MouseMode(mode)
         \/ SetParameters \/ IKBD_Cmd_TurnMouseOff \/ IKBD_Cmd_DisableJoysticks
         \/ IKBD_Cmd_StopJoystick \/ IKBD_Cmd_SetJoystickMonitoring
         \/ IKBD_Cmd_Execute
  PROVE  IInv'
  <1>1. Sent(Keyboard.out, Keyboard.out)
    BY RingInv, SentNothing
  <1> USE DEF IInv, Modes, Boots, MouseModes, JoystickModes
  <1>2. CASE IKBD_Cmd_Reset(byte)
    BY <1>1, <1>2, BootROM, CommandDone DEF IKBD_Cmd_Reset
  <1>3. ASSUME NEW mode \in {"rel", "abs", "cursor"}, IKBD_Cmd_MouseMode(mode) PROVE IInv'
    BY <1>1, <1>3, CommandDone DEF IKBD_Cmd_MouseMode
  <1>4. CASE SetParameters
    BY <1>1, <1>4, CommandDone DEF SetParameters
  <1>5. CASE IKBD_Cmd_TurnMouseOff
    BY <1>1, <1>5, CommandDone DEF IKBD_Cmd_TurnMouseOff, IKBD_CheckResetDisableBug
  <1>6. CASE IKBD_Cmd_DisableJoysticks
    BY <1>1, <1>6, CommandDone DEF IKBD_Cmd_DisableJoysticks, IKBD_CheckResetDisableBug
  <1>7. CASE IKBD_Cmd_StopJoystick
    BY <1>1, <1>7, CommandDone DEF IKBD_Cmd_StopJoystick
  <1>8. CASE IKBD_Cmd_SetJoystickMonitoring
    BY <1>1, <1>8, CommandDone DEF IKBD_Cmd_SetJoystickMonitoring
  <1>9. CASE IKBD_Cmd_Execute
    <2>1. ProgramOK(program')
      BY <1>9 DEF IKBD_Cmd_Execute, ProgramOK, Programs
    <2> QED BY <1>1, <1>9, <2>1, CommandDone DEF IKBD_Cmd_Execute
  <1> QED BY <1>2, <1>3, <1>4, <1>5, <1>6, <1>7, <1>8, <1>9

LEMMA StopTransfer ==
  ASSUME IInv, ready' = ready, IKBD_Cmd_StopKeyboardTransfer PROVE IInv'
  <1>1. Empty \in Input /\ InSync(Empty)
    BY DEF Empty, Input, InSync, SIZE_KEYBOARDINPUT_BUFFER
  <1>2. KeyboardOK(Keyboard', boot.critical)
    BY <1>1 DEF IInv, KeyboardOK, IKBD_Cmd_StopKeyboardTransfer, Boots
  <1> QED BY <1>2 DEF IInv, IKBD_Cmd_StopKeyboardTransfer

LEMMA ReturnJoystickAuto ==
  ASSUME IInv, ready' = ready, IKBD_Cmd_ReturnJoystickAuto PROVE IInv'
  <1>1. PICK moved \in 0 .. 2 : Done(IKBD_SendAutoJoysticks(Keyboard.out, moved))
    BY DEF IKBD_Cmd_ReturnJoystickAuto
  <1>2. Sent(Keyboard.out, IKBD_SendAutoJoysticks(Keyboard.out, moved))
    BY RingInv, JoysticksSent
  <1>3. modes' \in Modes
    BY DEF IKBD_Cmd_ReturnJoystickAuto, IInv, Modes, MouseModes, JoystickModes
  <1> QED BY <1>1, <1>2, <1>3, CommandDone DEF IKBD_Cmd_ReturnJoystickAuto, IInv

LEMMA AnswerInv ==
  ASSUME IInv, ready' = ready, NEW c, Answer(c) PROVE IInv'
  <1> DEFINE a == Keyboard.out
             r == IKBD_Cmd_Return_Bytes(a, 1, "unchecked")
  <1>1. a \in Ring
    BY RingInv
  <1>2. Sent(a, Header(r)) /\ Sent(a, a)
    <2>1. Sent(a, r) /\ Sent(a, a)
      BY <1>1, SendUnchecked, SentNothing
    <2> HIDE DEF r
    <2> QED BY <2>1 DEF Sent, Header, Ring
  <1>3. /\ Sent(a, ReturnPacket(a, 6)) /\ Sent(a, ReturnPacket(a, 3))
        /\ Sent(a, ReturnPacket(a, 7)) /\ Sent(a, ReturnPacket(a, 8))
    BY <1>1, PacketSent
  <1>4. PICK o : Done(o) /\ Sent(a, o)
    BY <1>2, <1>3 DEF Answer
  <1> QED BY <1>4, CommandDone DEF Answer, IInv

LEMMA LoadMemory ==
  ASSUME IInv, ready' = ready, NEW byte \in Bytes, IKBD_Cmd_LoadMemory(byte) PROVE IInv'
  <1>1. ProgramOK(program')
    BY IKBDAssumption DEF IKBD_Cmd_LoadMemory, IInv, ProgramOK, Programs
  <1>2. Sent(Keyboard.out, Keyboard.out)
    BY RingInv, SentNothing
  <1> QED BY <1>1, <1>2, CommandDone DEF IKBD_Cmd_LoadMemory, IInv

LEMMA ExecuteInv ==
  ASSUME IInv, ready' = ready, NEW byte \in Bytes, NEW c, Execute(c, byte) PROVE IInv'
  BY SimpleCommands, StopTransfer, ReturnJoystickAuto, AnswerInv, LoadMemory DEF Execute

(* A byte that does not complete a command keeps the parser in step. *)
LEMMA ReceivedInput ==
  ASSUME IInv, NEW byte \in Bytes
  PROVE  /\ Received(byte) \in Input
         /\ /\ Received(byte).command \in KeyboardCommands
            /\ Received(byte).n # NumParameters(Received(byte).command)
            => InSync(Received(byte))
  <1> DEFINE i == Keyboard.input
  <1>1. i \in Input /\ InSync(i)
    BY DEF IInv, KeyboardOK
  <1>2. \A c : NumParameters(c) \in 1 .. 7
    BY DEF NumParameters
  <1>3. i.n < SIZE_KEYBOARDINPUT_BUFFER /\ i.n \in Nat
    BY <1>1, <1>2 DEF InSync, Empty, Input, SIZE_KEYBOARDINPUT_BUFFER
  <1>4. byte \in 0 .. 255
    BY IKBDAssumption
  <1>5. CASE i.n = 0
    <2>1. Received(byte) = [command |-> byte, n |-> 1]
      BY <1>3, <1>5 DEF Received
    <2> QED BY <1>2, <1>4, <2>1 DEF Input, InSync, SIZE_KEYBOARDINPUT_BUFFER
  <1>6. CASE i.n # 0
    <2>1. Received(byte) = [command |-> i.command, n |-> i.n + 1]
      BY <1>3, <1>6 DEF Received
    <2>2. i.command \in KeyboardCommands /\ i.n < NumParameters(i.command)
      BY <1>1, <1>6 DEF InSync, Empty
    <2>3. NumParameters(i.command) \in 1 .. 7
      BY <1>2
    <2> QED BY <1>1, <1>3, <2>1, <2>2, <2>3 DEF Input, InSync, SIZE_KEYBOARDINPUT_BUFFER
  <1> QED BY <1>5, <1>6

LEMMA RunKeyboardCommand ==
  ASSUME IInv, ready' = ready, NEW byte \in Bytes, IKBD_RunKeyboardCommand(byte) PROVE IInv'
  <1> DEFINE input == Received(byte)
  <1>1. /\ input \in Input
        /\ (input.command \in KeyboardCommands /\ input.n # NumParameters(input.command))
           => InSync(input)
    BY ReceivedInput
  <1>2. Empty \in Input /\ InSync(Empty)
    BY DEF Empty, Input, InSync, SIZE_KEYBOARDINPUT_BUFFER
  <1>3. \A j \in Input : InSync(j) => KeyboardOK([Keyboard EXCEPT !.input = j], boot.critical)
    BY DEF IInv, KeyboardOK
  <1>4. CASE /\ Keyboard' = [Keyboard EXCEPT !.input = input] /\ InSync(input)
             /\ UNCHANGED <<modes, boot, program>>
    <2> HIDE DEF input
    <2> QED BY <1>1, <1>3, <1>4 DEF IInv
  <1>5. CASE Keyboard' = [Keyboard EXCEPT !.input = Empty] /\ UNCHANGED <<modes, boot, program>>
    BY <1>2, <1>3, <1>5 DEF IInv
  <1>6. CASE Execute(input.command, byte)
    BY <1>6, ExecuteInv
  <1> QED BY <1>1, <1>4, <1>5, <1>6 DEF IKBD_RunKeyboardCommand

LEMMA ProcessRDR ==
  ASSUME IInv, NEW byte \in Bytes, IKBD_Process_RDR(byte) PROVE IInv'
  <1>1. ready' = ready /\ ready \in BOOLEAN
    BY DEF IKBD_Process_RDR, IInv
  <1>2. CASE IKBD_CustomCodeHandler_CommonBoot
    <2>1. EmptyRing \in Ring /\ EmptyRing.n = 0 /\ EmptyRing.torn = {}
      BY IKBDAssumption DEF EmptyRing, Ring
    <2>2. KeyboardOK([Keyboard EXCEPT !.out = EmptyRing], boot.critical)
      BY <2>1 DEF IInv, KeyboardOK
    <2>3. ProgramOK([program EXCEPT !.handler = "main"])
      BY DEF IInv, ProgramOK, Programs
    <2> QED BY <1>1, <1>2, <2>2, <2>3 DEF IInv, IKBD_CustomCodeHandler_CommonBoot
  <1>3. CASE CustomCodeHandler_Write
    <2>1. CASE IKBD_Boot_ROM
      BY <1>1, <2>1, BootROM
    <2>2. ASSUME NEW n \in {0, 1, 4},
                 Keyboard' = [Keyboard EXCEPT !.out = IKBD_Send_Bytes(@, n, "unchecked")],
                 UNCHANGED <<modes, boot, program>>
          PROVE  IInv'
      <3>1. Sent(Keyboard.out, IKBD_Send_Bytes(Keyboard.out, n, "unchecked"))
        BY RingInv, SendUnchecked
      <3> QED BY <1>1, <2>2, <3>1, RingOnly
    <2> QED BY <1>3, <2>1, <2>2 DEF CustomCodeHandler_Write
  <1>4. CASE IKBD_RunKeyboardCommand(byte)
    BY <1>1, <1>4, RunKeyboardCommand
  <1>5. CASE /\ ~(program.ExeMode /\ program.handler # "none")
             /\ program.NbBytesLeft # 0 /\ IKBD_LoadMemoryByte
    <2>1. PICK handler \in {"none", "boot"} :
            program' = [program EXCEPT !.NbBytesLeft = @ - 1,
                          !.handler = IF program.NbBytesLeft = 1 THEN handler ELSE @]
      BY <1>5 DEF IKBD_LoadMemoryByte
    <2> DEFINE h == IF program.NbBytesLeft = 1 THEN handler ELSE program.handler
               left == program.NbBytesLeft - 1
    <2>2. program \in Programs /\ ~program.ExeMode
      BY <1>5 DEF IInv, ProgramOK
    <2>3. h \in {"none", "boot", "main"} /\ left \in 0 .. MaxLoad
      BY <1>5, <2>2, IKBDAssumption DEF Programs
    <2>4. program' = [ExeMode |-> program.ExeMode, handler |-> h, NbBytesLeft |-> left]
      BY <2>1, <2>2 DEF Programs
    <2>5. ProgramOK(program')
      <3> HIDE DEF h, left
      <3> QED BY <2>2, <2>3, <2>4 DEF ProgramOK, Programs
    <2> QED BY <1>1, <1>5, <2>5 DEF IKBD_LoadMemoryByte, IInv
  <1> QED BY <1>2, <1>3, <1>4, <1>5 DEF IKBD_Process_RDR

-----------------------------------------------------------------------------
(* The reports and the rest. *)

LEMMA AutoKeyboardCommands ==
  ASSUME IInv, NEW moved \in 0 .. 2, NEW buttons \in 0 .. 2, NEW packets \in 0 .. MaxPackets,
         NEW space \in BOOLEAN, IKBD_SendAutoKeyboardCommands(moved, buttons, packets, space)
  PROVE  IInv'
  <1>1. packets \in Nat
    BY IKBDAssumption
  <1>2. PICK a \in IKBD_SendOnMouseAction(Keyboard.out, buttons) :
       \/ Keyboard' = [Keyboard EXCEPT !.out = IKBD_Cmd_Return_Bytes(a, 2, "unchecked")]
       \/ LET b == IF modes.JoystickMode = "joystick" THEN IKBD_SendAutoJoysticks(a, moved) ELSE a
              c == MousePackets(b, packets, buttons)
          IN  \E d \in (IF space THEN KeyOutput(c) ELSE {c}) :
                \E e \in CustomCodeHandler_Read(d) : Keyboard' = [Keyboard EXCEPT !.out = e]
    BY DEF IKBD_SendAutoKeyboardCommands
  <1>3. Sent(Keyboard.out, a) /\ a \in Ring
    BY RingInv, ActionSent DEF Sent
  <1>4. UNCHANGED <<modes, boot, program, ready>>
    BY DEF IKBD_SendAutoKeyboardCommands
  <1>5. CASE Keyboard' = [Keyboard EXCEPT !.out = IKBD_Cmd_Return_Bytes(a, 2, "unchecked")]
    <2>1. Sent(Keyboard.out, IKBD_Cmd_Return_Bytes(a, 2, "unchecked"))
      BY <1>3, SendUnchecked, SentTwice
    <2> QED BY <1>4, <1>5, <2>1, RingOnly
  <1>6. CASE ~(Keyboard' = [Keyboard EXCEPT !.out = IKBD_Cmd_Return_Bytes(a, 2, "unchecked")])
    <2> DEFINE b == IF modes.JoystickMode = "joystick" THEN IKBD_SendAutoJoysticks(a, moved) ELSE a
               c == MousePackets(b, packets, buttons)
    <2>1. PICK d \in (IF space THEN KeyOutput(c) ELSE {c}) :
            \E e \in CustomCodeHandler_Read(d) : Keyboard' = [Keyboard EXCEPT !.out = e]
      BY <1>2, <1>6
    <2>2. PICK e \in CustomCodeHandler_Read(d) : Keyboard' = [Keyboard EXCEPT !.out = e]
      BY <2>1
    <2>3. Sent(a, b) /\ b \in Ring
      BY <1>3, JoysticksSent, SentNothing DEF Sent
    <2> HIDE DEF b
    <2>4. Sent(b, c) /\ c \in Ring
      BY <1>1, <2>3, MouseSent DEF Sent
    <2> HIDE DEF c
    <2>5. Sent(c, d) /\ d \in Ring
      BY <2>4, KeySent, SentNothing DEF Sent
    <2>6. Sent(d, e)
      BY <2>5, HandlerSent
    <2>7. Sent(Keyboard.out, c)
      BY <1>3, <2>3, <2>4, SentTwice
    <2>8. Sent(Keyboard.out, e)
      BY <2>5, <2>6, <2>7, SentTwice
    <2> QED BY <1>4, <2>2, <2>8, RingOnly
  <1> QED BY <1>5, <1>6

LEMMA PressSTKey == ASSUME IInv, IKBD_PressSTKey PROVE IInv'
  <1>1. PICK o \in KeyOutput(Keyboard.out) : Keyboard' = [Keyboard EXCEPT !.out = o]
    BY DEF IKBD_PressSTKey
  <1>2. Sent(Keyboard.out, o)
    BY RingInv, KeySent
  <1> QED BY <1>1, <1>2, RingOnly DEF IKBD_PressSTKey

LEMMA ResetTimer == ASSUME IInv, IKBD_InterruptHandler_ResetTimer PROVE IInv'
  <1> DEFINE o == IF program.ExeMode \/ ~ready THEN Keyboard.out
                  ELSE Append_Bytes(Keyboard.out, 1, "checked")
  <1>1. Keyboard.out \in Ring /\ 1 <= SIZE_KEYBOARD_BUFFER - Keyboard.out.n
    BY IKBDAssumption DEF IInv, KeyboardOK, IKBD_InterruptHandler_ResetTimer
  <1>2. o \in Ring /\ o.torn = Keyboard.out.torn
    BY <1>1, AppendFitting
  <1>3. Keyboard' = [Keyboard EXCEPT !.out = o]
    BY DEF IKBD_InterruptHandler_ResetTimer
  <1>4. boot' \in Boots /\ boot'.critical = FALSE
    BY DEF IKBD_InterruptHandler_ResetTimer, IInv, Boots
  <1> HIDE DEF o
  <1>5. KeyboardOK(Keyboard', FALSE)
    BY <1>2, <1>3 DEF IInv, KeyboardOK
  <1> QED BY <1>4, <1>5 DEF IInv, IKBD_InterruptHandler_ResetTimer

LEMMA CheckNewTDR == ASSUME IInv, IKBD_Check_New_TDR PROVE IInv'
  <1> DEFINE o == [Keyboard.out EXCEPT !.n = @ - 1]
  <1>1. Keyboard.out \in Ring /\ Keyboard.out.n > 0
    BY DEF IInv, KeyboardOK, IKBD_Check_New_TDR
  <1>2. o \in Ring /\ o.torn = Keyboard.out.torn
    BY <1>1, IKBDAssumption DEF Ring
  <1>3. Keyboard' = [Keyboard EXCEPT !.out = o]
    BY DEF IKBD_Check_New_TDR
  <1>4. ~boot.critical
    BY <1>1 DEF IInv, KeyboardOK
  <1> HIDE DEF o
  <1>5. Sent(Keyboard.out, o)
    BY <1>2, <1>4 DEF Sent
  <1> QED BY <1>3, <1>5, RingOnly DEF IKBD_Check_New_TDR

-----------------------------------------------------------------------------
(* The inductive invariant of the IKBD, of every command, packet and boot. *)
THEOREM InvHolds == Spec => []IInv
  <1>1. Init => IInv
    <2> SUFFICES ASSUME Init PROVE IInv
      OBVIOUS
    <2>1. KeyboardOK(InitialKeyboard, boot.critical)
      BY IKBDAssumption DEF KeyboardOK, InitialKeyboard, Empty, EmptyRing, Input, Ring, InSync,
                            SIZE_KEYBOARDINPUT_BUFFER
    <2>2. modes \in Modes /\ boot \in Boots /\ ProgramOK(program)
      BY IKBDAssumption DEF Init, InitialModes, InitialBoot, Modes, Boots, MouseModes,
                            JoystickModes, ProgramOK, Programs
    <2> QED BY <2>1, <2>2 DEF Init, IInv
  <1>2. IInv /\ [Next]_vars => IInv'
    <2> SUFFICES ASSUME IInv, [Next]_vars PROVE IInv'
      OBVIOUS
    <2>1. ASSUME NEW byte \in Bytes, IKBD_Process_RDR(byte) PROVE IInv'
      BY <2>1, ProcessRDR
    <2>2. ASSUME NEW moved \in 0 .. 2, NEW buttons \in 0 .. 2, NEW packets \in 0 .. MaxPackets,
                 NEW space \in BOOLEAN,
                 IKBD_SendAutoKeyboardCommands(moved, buttons, packets, space)
          PROVE  IInv'
      BY <2>2, AutoKeyboardCommands
    <2>3. CASE IKBD_PressSTKey
      BY <2>3, PressSTKey
    <2>4. CASE IKBD_InterruptHandler_ResetTimer
      BY <2>4, ResetTimer
    <2>5. CASE IKBD_Check_New_TDR
      BY <2>5, CheckNewTDR
    <2>6. CASE IKBD_Reset
      BY <2>6, BootROM DEF IKBD_Reset, IInv
    <2>7. CASE ACIA_Write_CR
      BY <2>7 DEF ACIA_Write_CR, IInv
    <2>8. CASE UNCHANGED vars
      BY <2>8 DEF vars, IInv
    <2> QED BY <2>1, <2>2, <2>3, <2>4, <2>5, <2>6, <2>7, <2>8 DEF Next
  <1> QED BY <1>1, <1>2, PTL DEF Spec

(* The output ring is never overfilled, whatever its size (module IKBD,    *)
(* TypeOK): IKBD_Send_Byte_Delay stops at SIZE_KEYBOARD_BUFFER.            *)
THEOREM RingNeverOverfilled == Spec => []TypeOK
  BY InvHolds, InvParts, PTL

(* No packet that is checked by IKBD_OutputBuffer_CheckFreeCount is torn.  *)
THEOREM PacketsAlwaysWhole == Spec => []WholePackets
  BY InvHolds, InvParts, PTL

(* IKBD_RunKeyboardCommand is never left with bytes of no command. *)
THEOREM ParserAlwaysInSync == Spec => []ParserInSync
  BY InvHolds, InvParts, PTL

(* The answer of IKBD_InterruptHandler_ResetTimer comes first. *)
THEOREM AnswerAlwaysFirst == Spec => []AnswerFirst
  BY InvHolds, InvParts, PTL

(* IKBD_ExeMode is set only with a program to run. *)
THEOREM ProgramAlwaysLoaded == Spec => []ProgramLoaded
  BY InvHolds, InvParts, PTL
=============================================================================
