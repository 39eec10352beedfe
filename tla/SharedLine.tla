----------------------------- MODULE SharedLine -----------------------------
(***************************************************************************)
(* "In the ST, the 2 ACIA's IRQ pins are connected to the same MFP input"  *)
(* (acia.c:353): the keyboard's ACIA of module ACIA and the MIDI interface *)
(* of module Midi, and the input they both set.  The bits that come from   *)
(* the keyboard are any.                                                   *)
(***************************************************************************)
EXTENDS ACIA, Midi

CONSTANT CRValues    \* the values a program writes to the keyboard's CR

VARIABLES acia, midi, line

vars == <<acia, midi, line>>

(* After a reset: MFP_Reset has cleared GPIP. *)
Init ==
  /\ acia = ACIA_Init
  /\ midi = Midi_Reset
  /\ line = "low"

Keyboard(a) ==
  /\ acia' = a
  /\ line' = ACIA_Set_Line_IRQ(line, acia, a)
  /\ UNCHANGED midi

WriteCR(cr) ==
  LET a == ACIA_Write_CR(acia, cr)
  IN  /\ acia' = a
      /\ line' = IF IsMasterReset(cr)
                 THEN ACIA_Set_Line_IRQ("high", [acia EXCEPT !.IRQ = FALSE], a)
                 ELSE ACIA_Set_Line_IRQ(line, acia, a)
      /\ UNCHANGED midi

ReadRDR == Keyboard(ACIA_Read_RDR(acia))

(* ACIA_InterruptHandler_IKBD. *)
Tick(bit) ==
  /\ acia.Clock_Divider # 0
  /\ LET a == ACIA_Clock_TX(acia)
         b == ACIA_Clock_RX(a, bit)
     IN  /\ acia' = b
         /\ line' = ACIA_Set_Line_IRQ(ACIA_Set_Line_IRQ(line, acia, a), a, b)
  /\ UNCHANGED midi

MidiAccess(m) ==
  /\ midi' = m
  /\ line' = ACIA_Set_Line_IRQ(line, midi, m)
  /\ UNCHANGED acia

(* The byte goes to the output file at once; if that fails MIDI stops. *)
WriteMidi(failed) ==
  LET m == Midi_Data_WriteByte(midi)
  IN  /\ midi.TSR_Complete + MIDI_TRANSFER_BYTE <= MaxAhead
      /\ MidiAccess(IF failed THEN Midi_UnInit(m) ELSE m)

MidiTime == midi.timer # 0 /\ MidiAccess(Midi_Elapse(midi))

(* Midi_InterruptHandler_Update, with or without a byte to receive; the    *)
(* timer is started again.                                                 *)
MidiUpdate(received) ==
  LET m == CheckTDREmpty(midi)
      n == IF received THEN Midi_Receive(m) ELSE m
  IN  /\ midi.timer = 0
      /\ midi' = [n EXCEPT !.timer = MIDI_TRANSFER_BYTE]
      /\ line' = ACIA_Set_Line_IRQ(ACIA_Set_Line_IRQ(line, midi, m), m, n)
      /\ UNCHANGED acia

(* A reset of the machine: the MFP and the MIDI interface, no ACIA. *)
ResetMachine == midi' = Midi_Reset /\ line' = "low" /\ UNCHANGED acia

Next ==
  \/ \E cr \in CRValues : WriteCR(cr)
  \/ ReadRDR
  \/ \E bit \in Bit : Tick(bit)
  \/ MidiAccess(Midi_Control_ReadByte(midi))
  \/ \E rie, tie \in BOOLEAN : MidiAccess(Midi_Control_WriteByte(midi, rie, tie))
  \/ MidiAccess(Midi_Data_ReadByte(midi))
  \/ \E failed \in BOOLEAN : WriteMidi(failed)
  \/ MidiTime
  \/ \E received \in BOOLEAN : MidiUpdate(received)
  \/ ResetMachine

Spec == Init /\ [][Next]_vars

(* While one of the two chips requests an interrupt the input is low: "the *)
(* 2 ACIA's IRQ pins are connected to the same MFP input, so they share    *)
(* the same IRQ bit in GPIP4" (acia.c:353).                                *)
SharedRequestOnLine == acia.IRQ \/ midi.IRQ => line = "low"
=============================================================================
