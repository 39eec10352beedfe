-------------------------------- MODULE IKBD --------------------------------
(***************************************************************************)
(* The commands and the reports of the keyboard processor                  *)
(* (src/src/ikbd.c): the parser of the bytes from the 68000, the modes the *)
(* commands set, the boot with its critical time, the upload of a program  *)
(* of its own, and the packets that it puts into the output ring.          *)
(*                                                                         *)
(* The link itself is in modules IKBDSerial and SerialLink; here a byte    *)
(* arrives or leaves in one step.  Of the ring the model keeps the number  *)
(* of bytes, and which packets went into it in part.  Positions of mouse,  *)
(* joysticks (and bBothMouseAndJoy, which only decides about joystick 0),  *)
(* buttons, the clock and the thresholds are left out: what depends on     *)
(* them is a choice of AutoSend.  Of an unfinished command only the first  *)
(* byte and the number of bytes are kept, as all handlers that look at a   *)
(* parameter to decide something look at the last one.                     *)
(***************************************************************************)
EXTENDS Integers, Sequences, FiniteSets

CONSTANTS
  SIZE_KEYBOARD_BUFFER,   \* bytes of the output ring, 1024
  Bytes,                  \* the bytes the 68000 sends
  MaxPackets,             \* packets a movement of the mouse can give at once
  MaxLoad                 \* bytes of an upload, 255

ASSUME IKBDAssumption ==
  /\ SIZE_KEYBOARD_BUFFER \in Nat \ {0}
  /\ Bytes \subseteq 0 .. 255
  /\ MaxPackets \in Nat
  /\ MaxLoad \in 0 .. 255

VARIABLES
  Keyboard,    \* input parser, output ring and pause
  modes,       \* MouseMode and JoystickMode of KeyboardProcessor
  boot,        \* bDuringResetCriticalTime and the flags of its quirks
  program,     \* the 6301 program: IKBD_ExeMode, the handler, the upload
  ready        \* the ACIA has a baud rate (pACIA_IKBD->Clock_Divider # 0)

vars == <<Keyboard, modes, boot, program, ready>>

-----------------------------------------------------------------------------
(* KeyboardCommands: the known first bytes and the length of the command,  *)
(* counting the first byte.                                                *)
Reports == {135, 136, 137, 138, 139, 140, 143, 144, 146, 148, 149, 153, 154}  \* $87 .. $9A
KeyboardCommands == {128} \cup 7 .. 28 \cup 32 .. 34 \cup Reports

NumParameters(c) ==
  CASE c \in {128, 7, 23}           -> 2
    [] c \in {10, 11, 12, 33, 34}   -> 3
    [] c = 32                       -> 4
    [] c = 9                        -> 5
    [] c = 14                       -> 6
    [] c \in {25, 27}               -> 7
    [] OTHER                        -> 1

SIZE_KEYBOARDINPUT_BUFFER == 8
Empty == [command |-> 0, n |-> 0]          \* nBytesInInputBuffer = 0

MouseModes == {"off", "rel", "abs", "cursor"}
JoystickModes == {"off", "joystick", "monitoring"}

(* The output ring: its bytes, and the kinds of packets that lost some of  *)
(* theirs because the ring was full (history).  "checked" is a packet for  *)
(* which the code looks for room first.                                    *)
EmptyRing == [n |-> 0, torn |-> {}]

-----------------------------------------------------------------------------
IKBD_OutputBuffer_CheckFreeCount(out, n) == SIZE_KEYBOARD_BUFFER - out.n >= n

Append_Unchecked(out, n, kind) == [out EXCEPT !.n = @ + n]

(* The n bytes of a packet, one after the other, while there is room. *)
Append_Bytes(out, n, kind) ==
  LET room == SIZE_KEYBOARD_BUFFER - out.n
  IN  IF n <= room THEN [out EXCEPT !.n = @ + n]
      ELSE [n |-> SIZE_KEYBOARD_BUFFER,
            torn |-> IF room = 0 THEN out.torn ELSE out.torn \cup {kind}]

(* IKBD_Send_Byte_Delay: nothing is sent before the boot is over and the   *)
(* ACIA has a baud rate.                                                   *)
IKBD_Send_Bytes(out, n, kind) ==
  IF boot.critical \/ ~ready THEN out ELSE Append_Bytes(out, n, kind)

(* IKBD_Cmd_Return_Byte: what the ROM sends is dropped while a program of  *)
(* the 68000 runs.                                                         *)
IKBD_Cmd_Return_Bytes(out, n, kind) ==
  IF program.ExeMode THEN out ELSE IKBD_Send_Bytes(out, n, kind)

(* A packet of n bytes goes into the ring as a whole or not at all. *)
ReturnByByte(out, n) == IKBD_Cmd_Return_Bytes(out, n, "checked")

ReturnPacket(out, n) ==
  IF IKBD_OutputBuffer_CheckFreeCount(out, n) THEN IKBD_Cmd_Return_Bytes(out, n, "checked")
  ELSE out

(* Several packets of n bytes, each of them checked: as many as there is   *)
(* room for.                                                               *)
ReturnPackets(out, n, count) ==
  LET fit == (SIZE_KEYBOARD_BUFFER - out.n) \div n
  IN  IKBD_Cmd_Return_Bytes(out, n * (IF count <= fit THEN count ELSE fit), "checked")

(* For the number of joysticks that moved. *)
IKBD_SendAutoJoysticks(out, moved) == ReturnPackets(out, 2, moved)

-----------------------------------------------------------------------------
InitialModes == [MouseMode |-> "rel", JoystickMode |-> "joystick"]
InitialBoot == [critical |-> TRUE, bMouseEnabledDuringReset |-> FALSE,
                bMouseDisabled |-> FALSE, bJoystickDisabled |-> FALSE]
InitialKeyboard == [input |-> Empty, out |-> EmptyRing, PauseOutput |-> FALSE]

Init ==
  /\ Keyboard = InitialKeyboard
  /\ modes = InitialModes
  /\ boot = InitialBoot
  /\ program = [ExeMode |-> FALSE, handler |-> "none", NbBytesLeft |-> 0]
  /\ ready = FALSE

(* IKBD_Boot_ROM.  A running program is forgotten; an upload with command  *)
(* 0x20 that is not complete is forgotten only with it.                    *)
Boot_Program ==
  IF program.ExeMode
  THEN [program EXCEPT !.ExeMode = FALSE, !.handler = "none", !.NbBytesLeft = 0]
  ELSE program

BootKeepsRing ==
  /\ Keyboard' = [InitialKeyboard EXCEPT !.out = Keyboard.out]
  /\ modes' = InitialModes /\ boot' = InitialBoot /\ program' = Boot_Program

IKBD_Boot_ROM ==
  /\ Keyboard' = InitialKeyboard
  /\ modes' = InitialModes /\ boot' = InitialBoot /\ program' = Boot_Program

-----------------------------------------------------------------------------
(* The commands.  A complete one resumes the output and empties the input. *)

DoneKeepsInput(out) ==
  Keyboard' = [input |-> [Keyboard.input EXCEPT !.n = @ + 1], out |-> out, PauseOutput |-> FALSE]

Done(out) == Keyboard' = [input |-> Empty, out |-> out, PauseOutput |-> FALSE]

IKBD_Cmd_Reset(byte) ==
  \/ byte = 1 /\ IKBD_Boot_ROM
  \/ byte # 1 /\ Done(Keyboard.out) /\ UNCHANGED <<modes, boot, program>>

(* Commands 0x08, 0x09 and 0x0A.  The first one is remembered during the boot. *)
IKBD_Cmd_MouseMode(mode) ==
  /\ modes' = [modes EXCEPT !.MouseMode = mode]
  /\ boot' = [boot EXCEPT !.bMouseEnabledDuringReset = @ \/ (mode = "rel" /\ boot.critical)]
  /\ Done(Keyboard.out) /\ UNCHANGED program

(* IKBD_CheckResetDisableBug: both disabled during the boot turns both on. *)
IKBD_CheckResetDisableBug(m, b) ==
  LET bug == b.bMouseDisabled /\ b.bJoystickDisabled /\ b.critical
  IN  /\ modes' = IF bug THEN [m EXCEPT !.MouseMode = "rel", !.JoystickMode = "joystick"] ELSE m
      /\ boot' = b

IKBD_Cmd_TurnMouseOff ==
  /\ IKBD_CheckResetDisableBug([modes EXCEPT !.MouseMode = "off"],
                               [boot EXCEPT !.bMouseDisabled = TRUE])
  /\ Done(Keyboard.out) /\ UNCHANGED program

IKBD_Cmd_DisableJoysticks ==
  /\ IKBD_CheckResetDisableBug([modes EXCEPT !.JoystickMode = "off"],
                               [boot EXCEPT !.bJoystickDisabled = TRUE])
  /\ Done(Keyboard.out) /\ UNCHANGED program

(* Ignored during the boot, except that it resumes the output too. *)
IKBD_Cmd_StopKeyboardTransfer ==
  /\ Keyboard' = [Keyboard EXCEPT !.input = Empty, !.PauseOutput = ~boot.critical]
  /\ UNCHANGED <<modes, boot, program>>

(* Turns the mouse off, unless a mouse command came during the same boot;  *)
(* then sends the position of the joysticks.                               *)
IKBD_Cmd_ReturnJoystickAuto ==
  /\ modes' = [modes EXCEPT !.JoystickMode = "joystick",
                  !.MouseMode = IF boot.critical /\ (\/ boot.bMouseEnabledDuringReset
                                                    \/ boot.bMouseDisabled)
                                THEN "rel" ELSE "off"]
  /\ \E moved \in 0 .. 2 : Done(IKBD_SendAutoJoysticks(Keyboard.out, moved))
  /\ UNCHANGED <<boot, program>>

IKBD_Cmd_StopJoystick ==
  /\ modes' = [modes EXCEPT !.JoystickMode = "off"]
  /\ Done(Keyboard.out) /\ UNCHANGED <<boot, program>>

IKBD_Cmd_SetJoystickMonitoring ==
  /\ modes' = [modes EXCEPT !.JoystickMode = "monitoring", !.MouseMode = "off"]
  /\ Done(Keyboard.out) /\ UNCHANGED <<boot, program>>

(* The commands that are answered by a packet, and those that set what is  *)
(* left out here.  The report of the mouse mode checks for 8 bytes, but    *)
(* sends only its header when the mouse is off.                            *)
Header(out) == IF out = Keyboard.out THEN out ELSE [out EXCEPT !.torn = @ \cup {"unchecked"}]

Answer(c) ==
  /\ Done(CASE c = 13 -> ReturnPacket(Keyboard.out, 6)
            [] c = 22 -> ReturnPacket(Keyboard.out, 3)
            [] c = 28 -> ReturnPacket(Keyboard.out, 7)
            [] c \in {136, 137, 138} /\ modes.MouseMode = "off" ->
                 IF IKBD_OutputBuffer_CheckFreeCount(Keyboard.out, 8)
                 THEN Header(IKBD_Cmd_Return_Bytes(Keyboard.out, 1, "unchecked"))
                 ELSE Keyboard.out
            [] OTHER -> ReturnPacket(Keyboard.out, 8))
  /\ UNCHANGED <<modes, boot, program>>

SetParameters == Done(Keyboard.out) /\ UNCHANGED <<modes, boot, program>>

(* Command 0x20 and its data; a CRC decides whether the program is known. *)
IKBD_Cmd_LoadMemory(byte) ==
  /\ byte <= MaxLoad
  /\ program' = [program EXCEPT !.NbBytesLeft = byte]
  /\ Done(Keyboard.out) /\ UNCHANGED <<modes, boot>>

IKBD_LoadMemoryByte ==
  /\ \E handler \in {"none", "boot"} :
       program' = [program EXCEPT !.NbBytesLeft = @ - 1,
                                  !.handler = IF program.NbBytesLeft = 1 THEN handler ELSE @]
  /\ UNCHANGED <<Keyboard, modes, boot>>

(* Command 0x22. *)
ExecuteAnything ==
  /\ program' = [program EXCEPT !.ExeMode = TRUE]
  /\ Done(Keyboard.out) /\ UNCHANGED <<modes, boot>>

IKBD_Cmd_Execute ==
  /\ program' = [program EXCEPT !.ExeMode = @ \/ program.handler # "none"]
  /\ Done(Keyboard.out) /\ UNCHANGED <<modes, boot>>

-----------------------------------------------------------------------------
(* A program of the 68000 takes all bytes.  Its first part waits for the   *)
(* main program, which may come to an end at any byte (jmp $f000).         *)
IKBD_CustomCodeHandler_CommonBoot ==
  \/ UNCHANGED <<Keyboard, program, modes, boot>>
  \/ /\ program' = [program EXCEPT !.handler = "main"]
     /\ Keyboard' = [Keyboard EXCEPT !.out = EmptyRing]
     /\ UNCHANGED <<modes, boot>>

CustomCodeHandler_Write ==
  \/ /\ \E n \in {0, 1, 4} :
          Keyboard' = [Keyboard EXCEPT !.out = IKBD_Send_Bytes(@, n, "unchecked")]
     /\ UNCHANGED <<modes, boot, program>>
  \/ IKBD_Boot_ROM

(* What the main program sends at an event. *)
CustomCodeHandler_Read(out) ==
  IF program.ExeMode /\ program.handler = "main"
  THEN {out, IKBD_Send_Bytes(out, 1, "unchecked")} ELSE {out}

-----------------------------------------------------------------------------
Execute(c, byte) ==
  \/ c = 128 /\ IKBD_Cmd_Reset(byte)
  \/ c = 8 /\ IKBD_Cmd_MouseMode("rel")
  \/ c = 9 /\ IKBD_Cmd_MouseMode("abs")
  \/ c = 10 /\ IKBD_Cmd_MouseMode("cursor")
  \/ c \in {7, 11, 12, 14, 15, 16, 17, 24, 25, 27} /\ SetParameters
  \/ c \in {13, 22, 28, 33} \cup Reports /\ Answer(c)
  \/ c = 18 /\ IKBD_Cmd_TurnMouseOff
  \/ c = 19 /\ IKBD_Cmd_StopKeyboardTransfer
  \/ c = 20 /\ IKBD_Cmd_ReturnJoystickAuto
  \/ c = 21 /\ IKBD_Cmd_StopJoystick
  \/ c = 23 /\ IKBD_Cmd_SetJoystickMonitoring
  \/ c = 26 /\ IKBD_Cmd_DisableJoysticks
  \/ c = 32 /\ IKBD_Cmd_LoadMemory(byte)
  \/ c = 34 /\ IKBD_Cmd_Execute

(* IKBD_RunKeyboardCommand: waits for the parameters of a known command,   *)
(* forgets an unknown byte.                                                *)
Received(byte) ==
  IF Keyboard.input.n < SIZE_KEYBOARDINPUT_BUFFER
  THEN [command |-> IF Keyboard.input.n = 0 THEN byte ELSE Keyboard.input.command,
        n |-> Keyboard.input.n + 1]
  ELSE Keyboard.input

IKBD_RunKeyboardCommand(byte) ==
  LET input == Received(byte)
  IN  \/ /\ input.command \in KeyboardCommands
         /\ input.n = NumParameters(input.command)
         /\ Execute(input.command, byte)
      \/ /\ input.command \in KeyboardCommands
         /\ input.n # NumParameters(input.command)
         /\ Keyboard' = [Keyboard EXCEPT !.input = input]
         /\ UNCHANGED <<modes, boot, program>>
      \/ /\ input.command \notin KeyboardCommands
         /\ Keyboard' = [Keyboard EXCEPT !.input = Empty]
         /\ UNCHANGED <<modes, boot, program>>

(* IKBD_Process_RDR. *)
IKBD_Process_RDR(byte) ==
  /\ \/ program.ExeMode /\ program.handler = "boot" /\ IKBD_CustomCodeHandler_CommonBoot
     \/ program.ExeMode /\ program.handler = "main" /\ CustomCodeHandler_Write
     \/ /\ ~(program.ExeMode /\ program.handler # "none")
        /\ \/ program.NbBytesLeft = 0 /\ IKBD_RunKeyboardCommand(byte)
           \/ program.NbBytesLeft # 0 /\ IKBD_LoadMemoryByte
  /\ UNCHANGED ready

-----------------------------------------------------------------------------
(* IKBD_PressSTKey. *)
KeyOutput(out) ==
  IF modes.JoystickMode = "monitoring" THEN {out}
  ELSE CustomCodeHandler_Read(ReturnPacket(out, 1))

IKBD_PressSTKey ==
  /\ \E out \in KeyOutput(Keyboard.out) : Keyboard' = [Keyboard EXCEPT !.out = out]
  /\ UNCHANGED <<modes, boot, program, ready>>

(* A key for each of n buttons that changed. *)
ButtonKeys(out, n) ==
  IF IKBD_OutputBuffer_CheckFreeCount(out, 2) THEN ReturnPackets(out, 1, n) ELSE out

(* IKBD_SendOnMouseAction: as command 0x07 asks for, a button that changed *)
(* is reported as a key, or with the position of the mouse, or not at all. *)
IKBD_SendOnMouseAction(out, n) ==
  {out, ButtonKeys(out, n)} \cup
    (IF modes.MouseMode = "abs" /\ n > 0 THEN {ReturnPacket(out, 6)} ELSE {})

(* IKBD_SendRelMousePacket and IKBD_SendCursorMousePacket, which sends the *)
(* buttons as keys.                                                        *)
MousePackets(out, n, buttons) ==
  CASE modes.MouseMode = "rel" -> ReturnPackets(out, 3, n)
    [] modes.MouseMode = "cursor" -> ButtonKeys(ReturnPackets(out, 2, n), buttons)
    [] OTHER -> out

(* IKBD_SendAutoKeyboardCommands, called by the handler of AUTOSEND; the   *)
(* button 2 of a joystick may act as the space bar.                        *)
IKBD_SendAutoKeyboardCommands(moved, buttons, packets, space) ==
  /\ ~boot.critical
  /\ \E a \in IKBD_SendOnMouseAction(Keyboard.out, buttons) :
       \/ /\ modes.JoystickMode = "monitoring"
          /\ Keyboard' = [Keyboard EXCEPT !.out = IKBD_Cmd_Return_Bytes(a, 2, "unchecked")]
       \/ /\ modes.JoystickMode # "monitoring"
          /\ LET b == IF modes.JoystickMode = "joystick" THEN IKBD_SendAutoJoysticks(a, moved) ELSE a
                 c == MousePackets(b, packets, buttons)
             IN  \E d \in (IF space THEN KeyOutput(c) ELSE {c}) :
                   \E e \in CustomCodeHandler_Read(d) : Keyboard' = [Keyboard EXCEPT !.out = e]
  /\ UNCHANGED <<modes, boot, program, ready>>

(* The boot is over.  Its timer runs exactly while the flag is set.        *)
IKBD_InterruptHandler_ResetTimer ==
  /\ boot.critical
  /\ boot' = [boot EXCEPT !.critical = FALSE, !.bMouseEnabledDuringReset = FALSE]
  /\ Keyboard' = [Keyboard EXCEPT !.out = IF program.ExeMode \/ ~ready THEN @
                                          ELSE Append_Bytes(@, 1, "checked")]
  /\ UNCHANGED <<modes, program, ready>>

(* IKBD_Check_New_TDR: the serial interface takes a byte. *)
IKBD_Check_New_TDR ==
  /\ Keyboard.out.n > 0 /\ ~Keyboard.PauseOutput
  /\ Keyboard' = [Keyboard EXCEPT !.out.n = @ - 1]
  /\ UNCHANGED <<modes, boot, program, ready>>

(* IKBD_Reset, for the reset button and the RESET instruction. *)
IKBD_Reset == IKBD_Boot_ROM /\ UNCHANGED ready

(* The 68000 gives the ACIA a baud rate, or resets it. *)
ACIA_Write_CR ==
  /\ ready' = ~ready
  /\ UNCHANGED <<Keyboard, modes, boot, program>>

Next ==
  \/ \E byte \in Bytes : IKBD_Process_RDR(byte)
  \/ \E moved \in 0 .. 2, buttons \in 0 .. 2, packets \in 0 .. MaxPackets,
       space \in BOOLEAN : IKBD_SendAutoKeyboardCommands(moved, buttons, packets, space)
  \/ IKBD_PressSTKey
  \/ IKBD_InterruptHandler_ResetTimer
  \/ IKBD_Check_New_TDR
  \/ IKBD_Reset
  \/ ACIA_Write_CR

Spec == Init /\ [][Next]_vars

-----------------------------------------------------------------------------
(* Type invariant: the ring is never overfilled. *)
TypeOK ==
  /\ Keyboard \in [input : [command : 0 .. 255, n : 0 .. SIZE_KEYBOARDINPUT_BUFFER],
                   out : [n : 0 .. SIZE_KEYBOARD_BUFFER, torn : SUBSET {"checked", "unchecked"}],
                   PauseOutput : BOOLEAN]
  /\ modes \in [MouseMode : MouseModes, JoystickMode : JoystickModes]
  /\ boot \in [critical : BOOLEAN,
               bMouseEnabledDuringReset : BOOLEAN, bMouseDisabled : BOOLEAN,
               bJoystickDisabled : BOOLEAN]
  /\ program \in [ExeMode : BOOLEAN, handler : {"none", "boot", "main"}, NbBytesLeft : 0 .. MaxLoad]
  /\ ready \in BOOLEAN

(* "New messages must be discarded until the buffer has some room again    *)
(* for a whole packet" (ikbd.c:923): so the program never reads a part of  *)
(* one, whatever the ring held when it came.                               *)
WholePackets == "checked" \notin Keyboard.out.torn

(* The parser never waits for more bytes than a known command has, so it   *)
(* can not be stuck: what is in the input buffer is a proper prefix of a   *)
(* known command, though a boot may come between two of its bytes.         *)
ParserInSync ==
  Keyboard.input = Empty \/ /\ Keyboard.input.command \in KeyboardCommands
                            /\ Keyboard.input.n < NumParameters(Keyboard.input.command)

(* Nothing waits in the ring, and the output is not stopped, as long as    *)
(* the IKBD boots: $F1, its answer, is the first byte that follows.        *)
AnswerFirst == boot.critical => Keyboard.out.n = 0 /\ ~Keyboard.PauseOutput

(* In execution mode a handler takes the bytes of the 68000 (otherwise the *)
(* commands would be obeyed and their answers dropped).                    *)
ProgramLoaded == program.ExeMode => program.handler # "none"
=============================================================================
