-------------------------------- MODULE Midi --------------------------------
(***************************************************************************)
(* The MIDI interface (src/src/midi.c): an ACIA of its own, that moves     *)
(* whole bytes and knows few bits of CR and SR.  Operators on a record of  *)
(* its registers; times are MIDI bits.                                     *)
(*                                                                         *)
(* TDR_Empty and TSR_Complete are the times left until TDR_Empty_Time and  *)
(* TSR_Complete_Time; below 0 the time has passed, and how long ago does   *)
(* not matter.                                                             *)
(***************************************************************************)
EXTENDS Integers

CONSTANTS
  MIDI_TRANSFER_BYTE,   \* 10, the bits of a byte on the line
  MaxAhead              \* bound: the most bits a program is ahead of the line

Stopped == -1           \* no entry in the scheduler
MidiTimes == -1 .. MaxAhead

MidiState ==
  [rie : BOOLEAN, tie : BOOLEAN, RX_FULL : BOOLEAN, TX_EMPTY : BOOLEAN, IRQ : BOOLEAN,
   TDR_Empty : MidiTimes, TSR_Complete : MidiTimes,
   timer : {Stopped} \cup 0 .. MIDI_TRANSFER_BYTE]

(* Midi_Reset.  The bit of the request is cleared, the line is not set. *)
Midi_Reset ==
  [rie |-> FALSE, tie |-> FALSE, RX_FULL |-> FALSE, TX_EMPTY |-> TRUE, IRQ |-> FALSE,
   TDR_Empty |-> -1, TSR_Complete |-> -1, timer |-> MIDI_TRANSFER_BYTE]

MIDI_UpdateIRQ(m) ==
  [m EXCEPT !.IRQ = (m.rie /\ m.RX_FULL) \/ (m.tie /\ m.TX_EMPTY)]

(* TX_EMPTY is set when somebody looks: the program, or the timer. *)
CheckTDREmpty(m) ==
  IF ~m.TX_EMPTY /\ m.TDR_Empty < 0 THEN MIDI_UpdateIRQ([m EXCEPT !.TX_EMPTY = TRUE]) ELSE m

Midi_Control_ReadByte(m) == CheckTDREmpty(m)

Midi_Control_WriteByte(m, rie, tie) == MIDI_UpdateIRQ([m EXCEPT !.rie = rie, !.tie = tie])

Midi_Data_ReadByte(m) == MIDI_UpdateIRQ([m EXCEPT !.RX_FULL = FALSE])

(* TDR is empty one bit after TSR is free. *)
Midi_Data_WriteByte(m) ==
  LET busy == IF m.TSR_Complete <= 0 THEN 0 ELSE m.TSR_Complete
  IN  MIDI_UpdateIRQ([m EXCEPT !.TDR_Empty = busy + 1,
                               !.TSR_Complete = busy + MIDI_TRANSFER_BYTE,
                               !.TX_EMPTY = FALSE])

(* Midi_UnInit, when the output file cannot be written: the timer ends.    *)
Midi_UnInit(m) == [m EXCEPT !.timer = Stopped]

(* Midi_InterruptHandler_Update: the timer's work before, and with, a byte *)
(* of the input file.  A byte that was not read is overwritten.            *)
Midi_Receive(m) == MIDI_UpdateIRQ([m EXCEPT !.RX_FULL = TRUE])

Earlier(t) == IF t < 0 THEN t ELSE t - 1

Midi_Elapse(m) ==
  [m EXCEPT !.TDR_Empty = Earlier(@), !.TSR_Complete = Earlier(@),
            !.timer = IF @ = Stopped THEN @ ELSE @ - 1]
=============================================================================
