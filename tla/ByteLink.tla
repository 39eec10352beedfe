------------------------------ MODULE ByteLink ------------------------------
(***************************************************************************)
(* What the serial link between the 68000 and the keyboard processor       *)
(* promises, in bytes: two one-way channels.  Towards the IKBD there is a  *)
(* register to hold a byte and one byte on the line; towards the 68000 a   *)
(* queue, one byte on the line and a receive register, and a byte that     *)
(* finds this register full is lost and leaves a mark.                     *)
(*                                                                         *)
(* A channel promises this as long as its two ends agree where a byte      *)
(* starts (aligned).  Once they do not, any byte may be received.          *)
(***************************************************************************)
EXTENDS Naturals, Sequences

CONSTANTS Byte, QueueSize

VARIABLES aligned,   \* the two ends agree
          hold,      \* to the IKBD: the byte in the register, if any
          queue,     \* to the 68000: the bytes waiting
          frame,     \* the byte on the line, if any
          got,       \* the last byte that was received
          full,      \* to the 68000: the receive register was not read
          lost       \* to the 68000: a byte was lost since the last read

-----------------------------------------------------------------------------
(* From the 68000 to the IKBD. *)

toVars == <<aligned, hold, frame, got>>

ToInit == aligned = TRUE /\ Len(hold) <= 1 /\ frame = <<>> /\ got \in Byte

ToWrite == \E b \in Byte : hold' = <<b>> /\ UNCHANGED <<frame, got>>

ToStart == /\ hold # <<>> /\ frame = <<>>
           /\ frame' = hold /\ hold' = <<>> /\ UNCHANGED got

ToDeliver == /\ frame # <<>>
             /\ got' = Head(frame) /\ frame' = <<>> /\ UNCHANGED hold

ToClear == hold' = <<>> /\ frame = <<>> /\ UNCHANGED <<frame, got>>

ToNext == aligned /\ aligned' => ToWrite \/ ToStart \/ ToDeliver \/ ToClear

ToKeyboard == ToInit /\ [][ToNext]_toVars

-----------------------------------------------------------------------------
(* From the IKBD to the 68000. *)

fromVars == <<aligned, queue, frame, got, full, lost>>

FromInit == aligned = TRUE /\ queue = <<>> /\ frame = <<>> /\ full = FALSE /\ lost = FALSE /\ got \in Byte

FromSend == /\ Len(queue) < QueueSize
            /\ \E b \in Byte : queue' = Append(queue, b)
            /\ UNCHANGED <<frame, got, full, lost>>

FromStart == /\ queue # <<>> /\ frame = <<>>
             /\ frame' = <<Head(queue)>> /\ queue' = Tail(queue)
             /\ UNCHANGED <<got, full, lost>>

FromDeliver == /\ frame # <<>> /\ frame' = <<>> /\ full'
               /\ IF full THEN lost' /\ UNCHANGED got
                          ELSE got' = Head(frame) /\ UNCHANGED lost
               /\ UNCHANGED queue

FromRead == ~full' /\ ~lost' /\ UNCHANGED <<queue, frame, got>>

FromFlush == queue' = <<>> /\ UNCHANGED <<frame, got, full, lost>>

FromNext == aligned /\ aligned' => FromSend \/ FromStart \/ FromDeliver \/ FromRead \/ FromFlush

FromKeyboard == FromInit /\ [][FromNext]_fromVars
=============================================================================
