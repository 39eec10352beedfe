------------------------------ MODULE MFPProofs ------------------------------
(***************************************************************************)
(* Proofs about the interrupt controller and its CPU, for every set of     *)
(* channels and lines and every set of register values.  Resets by the     *)
(* user and snapshots may happen at any point of the event handlers,       *)
(* unless a theorem excludes them.                                         *)
(***************************************************************************)
EXTENDS MFPSpec, WellFoundedInduction, TLAPS

(* The shape of the MFP.  It is that of MFPState but for ISR: a spurious   *)
(* acknowledge after a reset puts NoInterrupt in service.                  *)
Shape ==
  [ IER : SUBSET Channels, IPR : SUBSET Channels,
    ISR : SUBSET (Channels \cup {NoInterrupt}), IMR : SUBSET Channels,
    SEI : BOOLEAN,
    GPIP : SUBSET Lines, AER : SUBSET Lines, DDR : SUBSET Lines,
    IRQ : BOOLEAN, IRQ_CPU : BOOLEAN, IRQ_Time : Ages,
    Current_Interrupt : Channels \cup {NoInterrupt},
    UpdateNeeded : BOOLEAN,
    Pending_Time_Min : Ages, Pending_Time : [Channels -> Ages],
    SPCFLAG_MFP : BOOLEAN ]

(* IrqJustified, of the MFP as of a saved one. *)
Justified(m) ==
  /\ m.IPR \subseteq m.IER
  /\ m.IRQ => Deliverable(m, m.Current_Interrupt)

Good(m) == m \in Shape /\ Justified(m)

(* The registers that decide about an interrupt. *)
SameRegisters(u, m) ==
  u.IPR = m.IPR /\ u.IER = m.IER /\ u.IMR = m.IMR /\ u.ISR = m.ISR /\ u.SEI = m.SEI

(* What the operations do: an input or the time that passes leaves the     *)
(* signals and the service alone and loses no pending bit; a register      *)
(* write that updates IRQ tells the CPU, and takes nothing into service.   *)
Passive(u, m) ==
  /\ Good(u)
  /\ u.IRQ = m.IRQ /\ u.IRQ_CPU = m.IRQ_CPU /\ u.SPCFLAG_MFP = m.SPCFLAG_MFP
  /\ u.ISR = m.ISR /\ m.IPR \subseteq u.IPR

Updated(u, m) ==
  /\ Good(u)
  /\ u.SPCFLAG_MFP = TRUE /\ u.ISR \subseteq m.ISR

-----------------------------------------------------------------------------
(* The search for the highest request. *)

(* A non-empty set of channels has a highest one. *)
LEMMA HighestChannel ==
  ASSUME NEW S \in SUBSET Channels, S # {}
  PROVE  \E c \in S : \A d \in S : d <= c
<1> DEFINE T == {15 - c : c \in S}
<1>1. \A c \in S : c \in 0 .. 15
  BY ChannelsAssumption
<1>2. T \subseteq Nat /\ T # {}
  BY <1>1
<1> HIDE DEF T
<1>3. \E x \in T : \A y \in T : ~ (<<y, x>> \in OpToRel(<, Nat))
  BY <1>2, NatLessThanWellFounded, WFMin
<1>4. PICK x \in T : \A y \in T : ~ (<<y, x>> \in OpToRel(<, Nat))
  BY <1>3
<1>5. \A y \in T : ~ (y < x)
  BY <1>2, <1>4 DEF OpToRel
<1>6. PICK c \in S : x = 15 - c
  BY <1>4 DEF T
<1>7. \A d \in S : ~(15 - d < 15 - c)
  BY <1>5, <1>6 DEF T
<1>8. \A d \in S : d <= c
  BY <1>1, <1>7
<1> QED BY <1>8

(* MFP_CheckPendingInterrupts finds a request, if there is one. *)
LEMMA CheckFacts ==
  ASSUME NEW m, NEW n, n = MFP_CheckPendingInterrupts(m)
  PROVE  n = NoInterrupt \/ n \in Requests(m)
<1>1. CASE Requests(m) = {}
  BY <1>1 DEF MFP_CheckPendingInterrupts
<1>2. CASE Requests(m) # {}
  <2>1. \E c \in Requests(m) : \A d \in Requests(m) : d <= c
    BY <1>2, HighestChannel DEF Requests
  <2>2. n = CHOOSE c \in Requests(m) : \A d \in Requests(m) : d <= c
    BY <1>2 DEF MFP_CheckPendingInterrupts
  <2> QED BY <2>1, <2>2
<1> QED BY <1>1, <1>2

(* After MFP_UpdateIRQ the signal agrees with the registers. *)
LEMMA UpdateFacts ==
  ASSUME NEW m \in Shape, m.IPR \subseteq m.IER, NEW t \in Ages,
         NEW u, u = MFP_UpdateIRQ(m, t)
  PROVE  /\ Good(u) /\ SameRegisters(u, m)
         /\ u.SPCFLAG_MFP = TRUE /\ u.IRQ_CPU = m.IRQ_CPU
         /\ u.Current_Interrupt = m.Current_Interrupt \/ Deliverable(m, u.Current_Interrupt)
<1> DEFINE n == MFP_CheckPendingInterrupts(m)
<1> DEFINE irq == n # NoInterrupt
<1> DEFINE cur == IF irq THEN n ELSE m.Current_Interrupt
<1> DEFINE tim == IF ~irq \/ m.IRQ THEN m.IRQ_Time
                  ELSE IF t # Never THEN t ELSE m.Pending_Time[n]
<1>1. n = NoInterrupt \/ n \in Requests(m)
  BY CheckFacts
<1>2. n \in Channels \cup {NoInterrupt}
  BY <1>1 DEF Requests
<1>3. irq \in BOOLEAN /\ cur \in Channels \cup {NoInterrupt}
  BY <1>2 DEF Shape
<1>4. tim \in Ages
  BY <1>2 DEF Shape
<1>5. u = [m EXCEPT !.IRQ = irq, !.Current_Interrupt = cur, !.IRQ_Time = tim,
                    !.SPCFLAG_MFP = TRUE, !.Pending_Time_Min = Never, !.UpdateNeeded = FALSE]
  BY DEF MFP_UpdateIRQ
<1>6. irq => /\ cur \in m.IPR /\ cur \in m.IMR
             /\ \A j \in m.ISR : j < cur
  BY <1>1 DEF Requests, MFP_InterruptRequest, Unblocked
<1> HIDE DEF n, irq, cur, tim
<1>7. Never \in Ages
  BY MaxAgeAssumption DEF Never, Ages
<1>8. u \in Shape
  BY ONLY m \in Shape, <1>3, <1>4, <1>5, <1>7 DEF Shape
<1>9. /\ u.IER = m.IER /\ u.IPR = m.IPR /\ u.ISR = m.ISR /\ u.IMR = m.IMR /\ u.SEI = m.SEI
      /\ u.GPIP = m.GPIP /\ u.AER = m.AER /\ u.DDR = m.DDR
      /\ u.IRQ = irq /\ u.Current_Interrupt = cur
      /\ u.SPCFLAG_MFP = TRUE /\ u.IRQ_CPU = m.IRQ_CPU
  BY ONLY m \in Shape, <1>5 DEF Shape
<1>10. /\ SameRegisters(u, m) /\ u.IRQ = irq /\ u.Current_Interrupt = cur
  BY <1>9 DEF SameRegisters
<1>11. u.IRQ => Deliverable(u, u.Current_Interrupt)
  BY <1>6, <1>10 DEF SameRegisters, Deliverable, Unblocked
<1>12. u.SPCFLAG_MFP = TRUE /\ u.IRQ_CPU = m.IRQ_CPU
  BY <1>9
<1>13. cur = m.Current_Interrupt \/ Deliverable(m, cur)
  BY <1>6 DEF cur, Deliverable, Unblocked
<1>14. Good(u)
  BY <1>8, <1>10, <1>11 DEF Good, Justified, SameRegisters
<1> QED BY <1>10, <1>12, <1>13, <1>14

(* UpdateIfNeeded and MFP_DelayIRQ, the two steps of the CPU loop. *)
LEMMA UpdateIfNeededFacts ==
  ASSUME NEW m, Good(m), NEW u, u = UpdateIfNeeded(m)
  PROVE  /\ Good(u) /\ SameRegisters(u, m) /\ u.IRQ_CPU = m.IRQ_CPU
         /\ u = m \/ u.SPCFLAG_MFP = TRUE
<1>1. m \in Shape /\ m.IPR \subseteq m.IER /\ Never \in Ages
  BY MaxAgeAssumption DEF Good, Justified, Never, Ages
<1>2. CASE m.UpdateNeeded
  <2>1. u = MFP_UpdateIRQ(m, Never)
    BY <1>2 DEF UpdateIfNeeded
  <2>2. Good(u) /\ SameRegisters(u, m) /\ u.SPCFLAG_MFP = TRUE /\ u.IRQ_CPU = m.IRQ_CPU
    BY <1>1, <2>1, UpdateFacts
  <2> QED BY <2>2
<1>3. CASE ~m.UpdateNeeded
  <2>1. u = m
    BY <1>3 DEF UpdateIfNeeded
  <2> QED BY <2>1 DEF SameRegisters
<1> QED BY <1>2, <1>3

(* MFP_DelayIRQ keeps the request; the CPU then sees it, or it waits with  *)
(* the flag set.                                                           *)
LEMMA DelayFacts ==
  ASSUME NEW m, Good(m), NEW u, u = MFP_DelayIRQ(m)
  PROVE  /\ Good(u) /\ SameRegisters(u, m) /\ u.IRQ = m.IRQ
         /\ \/ u = m /\ m.IRQ
            \/ u.IRQ_CPU = m.IRQ
<1>1. CASE m.IRQ /\ u = m
  BY <1>1 DEF SameRegisters
<1>2. CASE u = [m EXCEPT !.IRQ_CPU = m.IRQ, !.SPCFLAG_MFP = FALSE]
  <2> DEFINE w == [m EXCEPT !.IRQ_CPU = m.IRQ, !.SPCFLAG_MFP = FALSE]
  <2>1. w \in Shape
    BY DEF Good, Shape
  <2>2. /\ SameRegisters(w, m) /\ w.IRQ = m.IRQ /\ w.Current_Interrupt = m.Current_Interrupt
        /\ w.IRQ_CPU = m.IRQ
    BY DEF Good, Shape, SameRegisters
  <2>3. u = w
    BY <1>2
  <2> HIDE DEF w
  <2>4. Justified(w)
    BY <2>2 DEF Good, Justified, SameRegisters, Deliverable, Unblocked
  <2> QED BY <2>1, <2>2, <2>3, <2>4 DEF Good
<1> QED BY <1>1, <1>2 DEF MFP_DelayIRQ

(* Ages change nothing else. *)
LEMMA PassFacts ==
  ASSUME NEW m, Good(m), NEW n \in 0 .. MaxAge
  PROVE  Passive(PassTime(m, n), m)
<1> DEFINE u == PassTime(m, n)
<1>1. \A a \in Ages : Older(a, n) \in Ages
  BY MaxAgeAssumption DEF Older, Ages, Never
<1>2. m \in Shape
  BY DEF Good
<1>3. /\ Older(m.IRQ_Time, n) \in Ages /\ Older(m.Pending_Time_Min, n) \in Ages
      /\ [c \in Channels |-> Older(m.Pending_Time[c], n)] \in [Channels -> Ages]
  BY <1>1, <1>2 DEF Shape
<1>4. u \in Shape
  BY <1>2, <1>3 DEF PassTime, Shape
<1>5. SameRegisters(u, m) /\ u.IRQ = m.IRQ /\ u.Current_Interrupt = m.Current_Interrupt
  BY <1>2 DEF PassTime, Shape, SameRegisters
<1>6. u.IRQ_CPU = m.IRQ_CPU /\ u.SPCFLAG_MFP = m.SPCFLAG_MFP
  BY <1>2 DEF PassTime, Shape
<1> HIDE DEF u
<1>7. Justified(u)
  BY <1>5 DEF Good, Justified, SameRegisters, Deliverable, Unblocked
<1> QED BY <1>4, <1>5, <1>6, <1>7 DEF Good, SameRegisters, Passive, u

-----------------------------------------------------------------------------
(* An operation ends with MFP_UpdateIRQ. *)
LEMMA ThenUpdate ==
  ASSUME NEW m, NEW w \in Shape, w.IPR \subseteq w.IER, w.ISR \subseteq m.ISR, NEW t \in Ages
  PROVE  Updated(MFP_UpdateIRQ(w, t), m)
<1>1. PICK u : u = MFP_UpdateIRQ(w, t)
  OBVIOUS
<1>2. Good(u) /\ SameRegisters(u, w) /\ u.SPCFLAG_MFP = TRUE
  BY <1>1, UpdateFacts
<1> QED BY <1>1, <1>2 DEF Updated, SameRegisters

(* Register writes: each one changes some registers, with IPR still within *)
(* IER, and ends with MFP_UpdateIRQ.                                       *)
LEMMA WriteFacts ==
  ASSUME NEW m, Good(m), NEW half \in SUBSET Channels, NEW v \in SUBSET Channels, NEW t \in Ages
  PROVE  /\ Updated(MFP_Enable_WriteByte(m, half, v, t), m)
         /\ Updated(MFP_Pending_WriteByte(m, half, v, t), m)
         /\ Updated(MFP_InService_WriteByte(m, half, v, t), m)
         /\ Updated(MFP_Mask_WriteByte(m, half, v, t), m)
<1>1. m \in Shape /\ m.IPR \subseteq m.IER
  BY DEF Good, Justified
<1>2. Updated(MFP_Enable_WriteByte(m, half, v, t), m)
  <2> DEFINE ier == Written(m.IER, half, v)
  <2> DEFINE ipr == m.IPR \ (half \ ier)
  <2> DEFINE w == [m EXCEPT !.IER = ier, !.IPR = ipr]
  <2>1. ier \in SUBSET Channels /\ ipr \in SUBSET Channels /\ ipr \subseteq ier
    BY <1>1 DEF Written, Shape
  <2>2. MFP_Enable_WriteByte(m, half, v, t) = MFP_UpdateIRQ(w, t)
    BY DEF MFP_Enable_WriteByte
  <2> HIDE DEF ier, ipr
  <2>3. w \in Shape /\ w.IPR \subseteq w.IER /\ w.ISR \subseteq m.ISR
    BY <1>1, <2>1 DEF Shape
  <2> HIDE DEF w
  <2> QED BY <2>2, <2>3, ThenUpdate
<1>3. Updated(MFP_Pending_WriteByte(m, half, v, t), m)
  <2> DEFINE ipr == m.IPR \ (half \ v)
  <2> DEFINE w == [m EXCEPT !.IPR = ipr]
  <2>1. ipr \in SUBSET Channels /\ ipr \subseteq m.IER
    BY <1>1 DEF Shape
  <2>2. MFP_Pending_WriteByte(m, half, v, t) = MFP_UpdateIRQ(w, t)
    BY DEF MFP_Pending_WriteByte
  <2> HIDE DEF ipr
  <2>3. w \in Shape /\ w.IPR \subseteq w.IER /\ w.ISR \subseteq m.ISR
    BY <1>1, <2>1 DEF Shape
  <2> HIDE DEF w
  <2> QED BY <2>2, <2>3, ThenUpdate
<1>4. Updated(MFP_InService_WriteByte(m, half, v, t), m)
  <2> DEFINE isr == m.ISR \ (half \ v)
  <2> DEFINE w == [m EXCEPT !.ISR = isr]
  <2>1. isr \in SUBSET (Channels \cup {NoInterrupt}) /\ isr \subseteq m.ISR
    BY <1>1 DEF Shape
  <2>2. MFP_InService_WriteByte(m, half, v, t) = MFP_UpdateIRQ(w, t)
    BY DEF MFP_InService_WriteByte
  <2> HIDE DEF isr
  <2>3. w \in Shape /\ w.IPR \subseteq w.IER /\ w.ISR \subseteq m.ISR
    BY <1>1, <2>1 DEF Shape
  <2> HIDE DEF w
  <2> QED BY <2>2, <2>3, ThenUpdate
<1>5. Updated(MFP_Mask_WriteByte(m, half, v, t), m)
  <2> DEFINE imr == Written(m.IMR, half, v)
  <2> DEFINE w == [m EXCEPT !.IMR = imr]
  <2>1. imr \in SUBSET Channels
    BY <1>1 DEF Shape, Written
  <2>2. MFP_Mask_WriteByte(m, half, v, t) = MFP_UpdateIRQ(w, t)
    BY DEF MFP_Mask_WriteByte
  <2> HIDE DEF imr
  <2>3. w \in Shape /\ w.IPR \subseteq w.IER /\ w.ISR \subseteq m.ISR
    BY <1>1, <2>1 DEF Shape
  <2> HIDE DEF w
  <2> QED BY <2>2, <2>3, ThenUpdate
<1> QED BY <1>2, <1>3, <1>4, <1>5

(* A step that may add pending bits of enabled channels, and changes       *)
(* nothing else that decides about an interrupt.                           *)
LEMMA AddingIsPassive ==
  ASSUME NEW m, Good(m), NEW u \in Shape,
         u.IER = m.IER, u.IMR = m.IMR, u.ISR = m.ISR,
         m.IPR \subseteq u.IPR, u.IPR \subseteq m.IER,
         u.IRQ = m.IRQ, u.Current_Interrupt = m.Current_Interrupt,
         u.IRQ_CPU = m.IRQ_CPU, u.SPCFLAG_MFP = m.SPCFLAG_MFP
  PROVE  Passive(u, m)
<1>1. Good(u)
  BY DEF Good, Justified, Deliverable, Unblocked
<1> QED BY <1>1 DEF Passive

(* A write of VR ends the service when it leaves the software end of       *)
(* interrupt mode, and otherwise decides about nothing.                    *)
LEMMA VectorFacts ==
  ASSUME NEW m, Good(m), NEW sei \in BOOLEAN, NEW t \in Ages
  PROVE  \/ Updated(MFP_VectorReg_WriteByte(m, sei, t), m)
         \/ Passive(MFP_VectorReg_WriteByte(m, sei, t), m)
<1>1. m \in Shape /\ m.IPR \subseteq m.IER
  BY DEF Good, Justified
<1>2. CASE MFP_VectorReg_WriteByte(m, sei, t)
             = MFP_UpdateIRQ([m EXCEPT !.SEI = FALSE, !.ISR = {}], t)
  <2> DEFINE w == [m EXCEPT !.SEI = FALSE, !.ISR = {}]
  <2>1. w \in Shape /\ w.IPR \subseteq w.IER /\ w.ISR = {}
    BY <1>1 DEF Shape
  <2>2. MFP_VectorReg_WriteByte(m, sei, t) = MFP_UpdateIRQ(w, t)
    BY <1>2
  <2> HIDE DEF w
  <2> QED BY <2>1, <2>2, UpdateFacts DEF Updated, SameRegisters
<1>3. CASE MFP_VectorReg_WriteByte(m, sei, t) = [m EXCEPT !.SEI = sei]
  <2> DEFINE w == [m EXCEPT !.SEI = sei]
  <2>1. /\ w \in Shape /\ w.IER = m.IER /\ w.IMR = m.IMR /\ w.ISR = m.ISR /\ w.IPR = m.IPR
        /\ w.IRQ = m.IRQ /\ w.Current_Interrupt = m.Current_Interrupt
        /\ w.IRQ_CPU = m.IRQ_CPU /\ w.SPCFLAG_MFP = m.SPCFLAG_MFP
    BY <1>1 DEF Shape
  <2> HIDE DEF w
  <2>2. m.IPR \subseteq w.IPR /\ w.IPR \subseteq m.IER
    BY <1>1, <2>1
  <2>3. Passive(w, m)
    BY <2>1, <2>2, AddingIsPassive
  <2> QED BY <1>3, <2>3 DEF w
<1> QED BY <1>2, <1>3 DEF MFP_VectorReg_WriteByte

(* The acknowledge updates the signal before and after it takes the        *)
(* current interrupt into service.  The channel it serves is deliverable,  *)
(* be it the one that raised IRQ or one found by the update, provided that *)
(* IRQ is raised at all.                                                   *)
Serves(u, m, c) ==
  /\ Deliverable(m, c)
  /\ u.IPR = m.IPR \ {c}
  /\ u.ISR = IF m.SEI THEN m.ISR \cup {c} ELSE m.ISR \ {c}

(* What MFP_ProcessIACK leaves behind. *)
LEMMA IackFacts ==
  ASSUME NEW m, Good(m), NEW r, r = MFP_ProcessIACK(m)
  PROVE  /\ Good(r) /\ r.SPCFLAG_MFP = TRUE
         /\ m.IRQ => \E c \in Channels : Serves(r, m, c)
<1> DEFINE u == MFP_UpdateIRQ(m, 0)
<1> DEFINE c == u.Current_Interrupt
<1> DEFINE ipr == u.IPR \ {c}
<1> DEFINE isr == IF u.SEI THEN u.ISR \cup {c} ELSE u.ISR \ {c}
<1> DEFINE w == [u EXCEPT !.IPR = ipr, !.ISR = isr]
<1>1. 0 \in Ages
  BY MaxAgeAssumption DEF Ages, Never
<1>2. /\ u \in Shape /\ u.IPR \subseteq u.IER /\ SameRegisters(u, m)
      /\ c = m.Current_Interrupt \/ Deliverable(m, c)
  BY <1>1, UpdateFacts DEF Good, Justified
<1>3. r = MFP_UpdateIRQ(w, 0)
  BY DEF MFP_ProcessIACK
<1>4. m.IRQ => Deliverable(m, c) /\ c \in Channels
  BY <1>2 DEF Good, Justified, Deliverable, Shape
<1> HIDE DEF u
<1>5. ipr \in SUBSET Channels /\ ipr \subseteq u.IER /\ isr \in SUBSET (Channels \cup {NoInterrupt})
  BY <1>2 DEF Shape
<1>6. ipr = m.IPR \ {c} /\ isr = IF m.SEI THEN m.ISR \cup {c} ELSE m.ISR \ {c}
  BY <1>2 DEF SameRegisters
<1> HIDE DEF ipr, isr, c
<1>7. w \in Shape /\ w.IPR \subseteq w.IER /\ w.IPR = ipr /\ w.ISR = isr
  BY <1>2, <1>5 DEF Shape
<1> HIDE DEF w
<1>8. Good(r) /\ r.SPCFLAG_MFP = TRUE /\ r.IPR = ipr /\ r.ISR = isr
  BY <1>1, <1>3, <1>7, UpdateFacts DEF SameRegisters
<1>9. m.IRQ => Serves(r, m, c)
  BY <1>4, <1>6, <1>8 DEF Serves
<1> QED BY <1>4, <1>8, <1>9

-----------------------------------------------------------------------------
(* Inputs add pending bits of enabled channels and leave the signal alone. *)
LEMMA InputFacts ==
  ASSUME NEW m, Good(m), NEW c \in Channels, NEW delay \in Ages
  PROVE  Passive(MFP_InputOnChannel(m, c, delay), m)
<1>1. m \in Shape /\ m.IPR \subseteq m.IER
  BY DEF Good, Justified
<1>2. CASE c \in m.IER
  <2> DEFINE ipr == m.IPR \cup {c}
  <2> DEFINE tm == IF c \in m.IMR /\ delay > m.Pending_Time_Min THEN delay ELSE m.Pending_Time_Min
  <2> DEFINE w == [m EXCEPT !.IPR = ipr, !.Pending_Time[c] = delay, !.Pending_Time_Min = tm,
                            !.UpdateNeeded = TRUE]
  <2>1. MFP_InputOnChannel(m, c, delay) = w
    BY <1>2 DEF MFP_InputOnChannel
  <2>2. ipr \in SUBSET Channels /\ m.IPR \subseteq ipr /\ ipr \subseteq m.IER /\ tm \in Ages
    BY <1>1, <1>2 DEF Shape
  <2> HIDE DEF ipr, tm
  <2>3. /\ w \in Shape /\ w.IER = m.IER /\ w.IMR = m.IMR /\ w.ISR = m.ISR /\ w.IPR = ipr
        /\ w.IRQ = m.IRQ /\ w.Current_Interrupt = m.Current_Interrupt
        /\ w.IRQ_CPU = m.IRQ_CPU /\ w.SPCFLAG_MFP = m.SPCFLAG_MFP
    BY <1>1, <2>2 DEF Shape
  <2> HIDE DEF w
  <2> QED BY <2>1, <2>2, <2>3, AddingIsPassive
<1>3. CASE c \notin m.IER
  <2> DEFINE ipr == m.IPR \ {c}
  <2> DEFINE w == [m EXCEPT !.IPR = ipr, !.UpdateNeeded = TRUE]
  <2>1. MFP_InputOnChannel(m, c, delay) = w
    BY <1>3 DEF MFP_InputOnChannel
  <2>2. ipr \in SUBSET Channels /\ m.IPR \subseteq ipr /\ ipr \subseteq m.IER
    BY <1>1, <1>3 DEF Shape
  <2> HIDE DEF ipr
  <2>3. /\ w \in Shape /\ w.IER = m.IER /\ w.IMR = m.IMR /\ w.ISR = m.ISR /\ w.IPR = ipr
        /\ w.IRQ = m.IRQ /\ w.Current_Interrupt = m.Current_Interrupt
        /\ w.IRQ_CPU = m.IRQ_CPU /\ w.SPCFLAG_MFP = m.SPCFLAG_MFP
    BY <1>1, <2>2 DEF Shape
  <2> HIDE DEF w
  <2> QED BY <2>1, <2>2, <2>3, AddingIsPassive
<1> QED BY <1>2, <1>3

(* The same for the inputs of several lines at once. *)
LEMMA LinesFacts ==
  ASSUME NEW m, Good(m), NEW ls \in SUBSET Lines, NEW delay \in Ages
  PROVE  Passive(InputOnLines(m, ls, delay), m)
<1>1. m \in Shape /\ m.IPR \subseteq m.IER /\ Lines \subseteq Channels
  BY ChannelsAssumption DEF Good, Justified
<1> DEFINE ipr == (m.IPR \cup (ls \cap m.IER)) \ (ls \ m.IER)
<1> DEFINE pt == [c \in Channels |-> IF c \in ls \cap m.IER THEN delay ELSE m.Pending_Time[c]]
<1> DEFINE tm == IF ls \cap m.IER \cap m.IMR # {} /\ delay > m.Pending_Time_Min
                 THEN delay ELSE m.Pending_Time_Min
<1> DEFINE w == [m EXCEPT !.IPR = ipr, !.Pending_Time = pt, !.Pending_Time_Min = tm,
                          !.UpdateNeeded = TRUE]
<1>2. InputOnLines(m, ls, delay) = m \/ InputOnLines(m, ls, delay) = w
  BY DEF InputOnLines
<1>3. ipr \in SUBSET Channels /\ m.IPR \subseteq ipr /\ ipr \subseteq m.IER
  BY <1>1 DEF Shape
<1>4. pt \in [Channels -> Ages] /\ tm \in Ages
  BY <1>1 DEF Shape
<1> HIDE DEF ipr, pt, tm
<1>5. /\ w \in Shape /\ w.IER = m.IER /\ w.IMR = m.IMR /\ w.ISR = m.ISR /\ w.IPR = ipr
      /\ w.IRQ = m.IRQ /\ w.Current_Interrupt = m.Current_Interrupt
        /\ w.IRQ_CPU = m.IRQ_CPU /\ w.SPCFLAG_MFP = m.SPCFLAG_MFP
  BY <1>1, <1>3, <1>4 DEF Shape
<1> HIDE DEF w
<1>6. Passive(m, m)
  BY DEF Passive
<1>7. Passive(w, m)
  BY <1>3, <1>5, AddingIsPassive
<1> QED BY <1>2, <1>6, <1>7

(* A change of GPIP, AER or DDR, then the inputs it causes. *)
PortChange(m, u, v) ==
  \/ u = [m EXCEPT !.GPIP = v]
  \/ u = [m EXCEPT !.AER = v]
  \/ u = [m EXCEPT !.DDR = v]

(* Such a change, with or without its inputs, is passive. *)
LEMMA PortFacts ==
  ASSUME NEW m, Good(m), NEW v \in SUBSET Lines, NEW delay \in Ages, NEW u, PortChange(m, u, v)
  PROVE  Passive(u, m) /\ Passive(MFP_GPIP_Update_Interrupt(m, u, delay), m)
<1>1. m \in Shape
  BY DEF Good
<1>2. /\ u \in Shape /\ SameRegisters(u, m)
      /\ u.IRQ = m.IRQ /\ u.Current_Interrupt = m.Current_Interrupt
      /\ u.IRQ_CPU = m.IRQ_CPU /\ u.SPCFLAG_MFP = m.SPCFLAG_MFP
  <2>1. CASE u = [m EXCEPT !.GPIP = v]
    BY <1>1, <2>1 DEF Shape, SameRegisters
  <2>2. CASE u = [m EXCEPT !.AER = v]
    BY <1>1, <2>2 DEF Shape, SameRegisters
  <2>3. CASE u = [m EXCEPT !.DDR = v]
    BY <1>1, <2>3 DEF Shape, SameRegisters
  <2> QED BY <2>1, <2>2, <2>3 DEF PortChange
<1>3. Passive(u, m)
  BY <1>2, AddingIsPassive DEF SameRegisters, Good, Justified
<1>4. TriggeredLines(m, u) \in SUBSET Lines
  BY DEF TriggeredLines
<1>5. Passive(InputOnLines(u, TriggeredLines(m, u), delay), u)
  BY <1>3, <1>4, LinesFacts DEF Passive
<1> QED BY <1>3, <1>5 DEF MFP_GPIP_Update_Interrupt, Passive

(* Writes of GPIP, AER and DDR are such changes. *)
LEMMA PortWriteFacts ==
  ASSUME NEW m, Good(m), NEW v \in SUBSET Lines, NEW delay \in Ages
  PROVE  /\ Passive(MFP_GPIP_WriteByte(m, v, delay), m)
         /\ Passive(MFP_ActiveEdge_WriteByte(m, v, delay), m)
         /\ Passive(MFP_DataDirection_WriteByte(m, v, delay), m)
<1>1. Written(m.GPIP, m.DDR, v) \in SUBSET Lines
  BY DEF Written, Good, Shape
<1> QED BY <1>1, PortFacts
        DEF PortChange, MFP_GPIP_WriteByte, MFP_ActiveEdge_WriteByte, MFP_DataDirection_WriteByte

(* So is a line that a device drives. *)
LEMMA LineInputFacts ==
  ASSUME NEW m, Good(m), NEW l \in Lines, NEW high \in BOOLEAN, NEW delay \in Ages
  PROVE  Passive(MFP_GPIP_Set_Line_Input(m, l, high, delay), m)
<1> DEFINE v == IF high THEN m.GPIP \cup {l} ELSE m.GPIP \ {l}
<1>1. v \in SUBSET Lines
  BY DEF Good, Shape
<1>2. \/ MFP_GPIP_Set_Line_Input(m, l, high, delay) = m
      \/ MFP_GPIP_Set_Line_Input(m, l, high, delay)
           = MFP_GPIP_Update_Interrupt(m, [m EXCEPT !.GPIP = v], delay)
  BY DEF MFP_GPIP_Set_Line_Input
<1> HIDE DEF v
<1> QED BY <1>1, <1>2, PortFacts DEF PortChange, Passive

(* So is a read of GPIP, which refreshes the polled lines. *)
LEMMA PortReadFacts ==
  ASSUME NEW m, Good(m), NEW hs \in SUBSET PolledLines
  PROVE  Passive(MFP_GPIP_ReadByte(m, PolledLines, hs), m)
<1> DEFINE v == (m.GPIP \ (PolledLines \ m.DDR)) \cup ((PolledLines \cap hs) \ m.DDR)
<1>1. v \in SUBSET Lines /\ 0 \in Ages
  BY CpuAssumption, MaxAgeAssumption DEF Good, Shape, Ages, Never
<1>2. MFP_GPIP_ReadByte(m, PolledLines, hs) = [m EXCEPT !.GPIP = v]
  BY DEF MFP_GPIP_ReadByte
<1> HIDE DEF v
<1> QED BY <1>1, <1>2, PortFacts DEF PortChange

(* A reset MFP requests nothing. *)
LEMMA ResetFacts ==
  ASSUME NEW flag \in BOOLEAN
  PROVE  Good(MFP_Reset(flag))
<1>1. Never \in Ages /\ MaxAge \in Ages
  BY MaxAgeAssumption DEF Never, Ages
<1>2. MFP_Reset(flag) \in Shape
  BY <1>1 DEF MFP_Reset, Shape
<1> QED BY <1>2 DEF MFP_Reset, Good, Justified

-----------------------------------------------------------------------------
(* The inductive invariant: the MFP and the saved one are justified, and   *)
(* the times of the instruction at hand are ages.                          *)
SnapGood(s) == s # NoSnapshot => Good(s.mfp) /\ s.late \in 0 .. MaxAge

IInv == Good(mfp) /\ SnapGood(snap) /\ late \in 0 .. MaxAge

(* The machine starts with a reset MFP. *)
LEMMA InitGood == Init => IInv
<1> SUFFICES ASSUME Init PROVE IInv
  OBVIOUS
<1>1. Good(mfp)
  BY ResetFacts DEF Init
<1>2. snap = NoSnapshot /\ late = 0 /\ 0 \in 0 .. MaxAge
  BY MaxAgeAssumption DEF Init
<1> QED BY <1>1, <1>2 DEF IInv, SnapGood

(* Time passes during an instruction before its access; two passive steps  *)
(* in a row are passive.                                                   *)
LEMMA PassiveThen ==
  ASSUME NEW w, NEW u, NEW m, Passive(u, m), Passive(w, u)
  PROVE  Passive(w, m)
  BY DEF Passive

(* The same with an update at the end. *)
LEMMA UpdatedThen ==
  ASSUME NEW w, NEW u, NEW m, Passive(u, m), Updated(w, u)
  PROVE  Updated(w, m)
  BY DEF Passive, Updated

Effect == Passive(mfp', mfp) \/ Updated(mfp', mfp)

(* Every instruction adds pending bits, updates IRQ or resets. *)
LEMMA InstructionFacts ==
  ASSUME IInv, Instruction
  PROVE  /\ phase = "instr" /\ phase' = "events"
         /\ late' \in 0 .. MaxAge /\ UNCHANGED snap /\ intmask' \in {intmask} \cup IntMasks
         /\ \/ Effect /\ UNCHANGED pendingInterrupts
            \/ mfp' = MFP_Reset(mfp.SPCFLAG_MFP) /\ pendingInterrupts' = {}
<1> DEFINE Goal ==
      /\ phase = "instr" /\ phase' = "events"
      /\ late' \in 0 .. MaxAge /\ UNCHANGED snap /\ intmask' \in {intmask} \cup IntMasks
      /\ \/ Effect /\ UNCHANGED pendingInterrupts
         \/ mfp' = MFP_Reset(mfp.SPCFLAG_MFP) /\ pendingInterrupts' = {}
<1> SUFFICES Goal
  OBVIOUS
<1> HIDE DEF Goal
<1>1. PICK n \in InstrLengths :
        \/ OtherInstruction(n)
        \/ \E l \in IntMasks : WriteSR(n, l)
        \/ \E t \in 0 .. n :
             \/ \E half \in Halves, v \in RegisterValues :
                  \/ WriteIER(n, half, v, t)
                  \/ WriteIPR(n, half, v, t)
                  \/ WriteISR(n, half, v, t)
                  \/ WriteIMR(n, half, v, t)
             \/ \E sei \in SeiModes : WriteVR(n, sei, t)
        \/ \E v \in SUBSET Lines : WriteGPIP(n, v) \/ WriteAER(n, v) \/ WriteDDR(n, v)
        \/ \E l \in Lines, high \in BOOLEAN : AccessDevice(n, l, high)
        \/ \E hs \in SUBSET PolledLines : ReadGPIP(n, hs)
        \/ ResetInstruction(n)
  BY DEF Instruction
<1>2. n \in 0 .. MaxAge /\ n \in Ages /\ \A t \in 0 .. n : t \in Ages
  BY CpuAssumption, MaxAgeAssumption DEF Ages, Never
<1>3. Passive(Aged(n), mfp) /\ Good(Aged(n))
  BY <1>2, PassFacts DEF IInv, Aged, Passive
<1>4. ASSUME NEW m, Execute(n, m), intmask' \in {intmask} \cup IntMasks,
             Passive(m, Aged(n)) \/ Updated(m, Aged(n))
      PROVE  Goal
  <2>1. Effect
    BY <1>3, <1>4, PassiveThen, UpdatedThen DEF Effect, Execute
  <2> QED BY <1>2, <1>4, <2>1 DEF Execute, Goal
<1>5. CASE OtherInstruction(n) \/ \E l \in IntMasks : WriteSR(n, l)
  <2>1. Passive(Aged(n), Aged(n))
    BY <1>3 DEF Passive
  <2> QED BY <1>4, <1>5, <2>1 DEF OtherInstruction, WriteSR
<1>6. ASSUME NEW t \in 0 .. n, NEW half \in Halves, NEW v \in RegisterValues,
             \/ WriteIER(n, half, v, t) \/ WriteIPR(n, half, v, t)
             \/ WriteISR(n, half, v, t) \/ WriteIMR(n, half, v, t)
      PROVE  Goal
  <2>1. half \in SUBSET Channels /\ v \in SUBSET Channels /\ t \in Ages
    BY <1>2, CpuAssumption DEF Halves, HalfA, HalfB
  <2> QED BY <1>3, <1>4, <1>6, <2>1, WriteFacts DEF WriteIER, WriteIPR, WriteISR, WriteIMR
<1>7. ASSUME NEW t \in 0 .. n, NEW sei \in SeiModes, WriteVR(n, sei, t)
      PROVE  Goal
  <2>1. sei \in BOOLEAN /\ t \in Ages
    BY <1>2, CpuAssumption
  <2> QED BY <1>3, <1>4, <1>7, <2>1, VectorFacts DEF WriteVR
<1>8. ASSUME NEW v \in SUBSET Lines, WriteGPIP(n, v) \/ WriteAER(n, v) \/ WriteDDR(n, v)
      PROVE  Goal
  BY <1>2, <1>3, <1>4, <1>8, PortWriteFacts DEF WriteGPIP, WriteAER, WriteDDR
<1>9. ASSUME NEW l \in Lines, NEW high \in BOOLEAN, AccessDevice(n, l, high)
      PROVE  Goal
  BY <1>2, <1>3, <1>4, <1>9, LineInputFacts DEF AccessDevice
<1>10. ASSUME NEW hs \in SUBSET PolledLines, ReadGPIP(n, hs)
       PROVE  Goal
  BY <1>2, <1>3, <1>4, <1>10, PortReadFacts DEF ReadGPIP
<1>11. CASE ResetInstruction(n)
  BY <1>2, <1>11 DEF ResetInstruction, Goal
<1> QED BY <1>1, <1>5, <1>6, <1>7, <1>8, <1>9, <1>10, <1>11

(* Every step keeps the MFP, and the saved one, justified. *)
LEMMA StepGood == IInv /\ [Next]_vars => IInv'
<1> SUFFICES ASSUME IInv, [Next]_vars PROVE IInv'
  OBVIOUS
<1>1. /\ Good(mfp) /\ SnapGood(snap) /\ late \in 0 .. MaxAge
      /\ \A a \in 0 .. MaxAge : a \in Ages
      /\ 0 \in 0 .. MaxAge
  BY MaxAgeAssumption DEF IInv, Ages, Never
<1> DEFINE Kept == Good(mfp') /\ SnapGood(snap') /\ late' \in 0 .. MaxAge
<1>2. SUFFICES Kept
  BY DEF IInv, SnapGood
<1>3. CASE Instruction
  <2>1. mfp.SPCFLAG_MFP \in BOOLEAN
    BY DEF IInv, Good, Shape
  <2>2. Good(mfp')
    BY <1>3, <2>1, InstructionFacts, ResetFacts DEF Effect, Passive, Updated
  <2> QED BY <1>1, <1>3, <2>2, InstructionFacts
<1>4. ASSUME NEW c \in Channels \ Lines, NEW delay \in 0 .. late, ChannelInput(c, delay) PROVE Kept
  <2>1. delay \in Ages
    BY <1>1, <1>4, MaxAgeAssumption DEF Ages, Never
  <2> QED BY <1>1, <1>4, <2>1, InputFacts DEF ChannelInput, Passive
<1>5. ASSUME NEW l \in Lines, NEW high \in BOOLEAN, LineInput(l, high) PROVE Kept
  BY <1>1, <1>5, LineInputFacts DEF LineInput, Passive
<1>6. ASSUME NEW l \in AutoLevels, VideoInterrupt(l) PROVE Kept
  BY <1>1, <1>6 DEF VideoInterrupt
<1>7. CASE DoSpecialties
  <2>1. Good(UpdateIfNeeded(mfp)) /\ Good(MFP_DelayIRQ(UpdateIfNeeded(mfp)))
    BY <1>1, UpdateIfNeededFacts, DelayFacts
  <2> QED BY <1>1, <1>7, <2>1 DEF DoSpecialties
<1>8. CASE StartException
  <2>1. IackLength \in 0 .. MaxAge
    BY CpuAssumption
  <2> QED BY <1>1, <1>8, <2>1, PassFacts DEF StartException, Passive
<1>9. CASE NextInstruction
  BY <1>1, <1>9 DEF NextInstruction
<1>10. CASE AcknowledgeMFP
  BY <1>1, <1>10, IackFacts DEF AcknowledgeMFP
<1>11. CASE AcknowledgeVideo
  BY <1>1, <1>11, UpdateIfNeededFacts DEF AcknowledgeVideo
<1>12. CASE ResetMachine
  BY <1>1, <1>12, ResetFacts DEF ResetMachine
<1>13. CASE SaveSnapshot
  BY <1>1, <1>13 DEF SaveSnapshot, SnapGood
<1>14. CASE RestoreSnapshot
  <2> DEFINE m == snap.mfp
  <2> DEFINE u == [m EXCEPT !.SPCFLAG_MFP = FALSE]
  <2>1. Good(m) /\ mfp' = u /\ late' \in 0 .. MaxAge /\ UNCHANGED snap
    BY <1>1, <1>14 DEF RestoreSnapshot, SnapGood
  <2> HIDE DEF m
  <2>2. /\ u \in Shape /\ SameRegisters(u, m)
        /\ u.IRQ = m.IRQ /\ u.Current_Interrupt = m.Current_Interrupt
    BY <2>1 DEF Good, Shape, SameRegisters
  <2> HIDE DEF u
  <2>3. Good(u)
    BY <2>1, <2>2 DEF SameRegisters, Good, Justified, Deliverable, Unblocked
  <2> QED BY <1>1, <2>1, <2>3
<1>15. CASE UNCHANGED vars
  BY <1>1, <1>15 DEF vars
<1> QED BY <1>3, <1>4, <1>5, <1>6, <1>7, <1>8, <1>9, <1>10, <1>11, <1>12, <1>13, <1>14, <1>15
        DEF Next, Device, CpuLoop, User

(* Whatever the program, the devices and the user do, IRQ agrees with the  *)
(* registers of the MFP.                                                   *)
THEOREM IrqAlwaysJustified == Spec => []IrqJustified
<1>1. Init => IInv
  BY InitGood
<1>2. IInv /\ [Next]_vars => IInv'
  BY StepGood
<1>3. IInv => IrqJustified
  BY DEF IInv, Good, Justified, IrqJustified
<1> QED BY <1>1, <1>2, <1>3, PTL DEF Spec
-----------------------------------------------------------------------------
(* How a request reaches the CPU, as long as the user does not reset the   *)
(* machine or restore a snapshot in the middle of an instruction: neither  *)
(* takes the pending levels or the special flag along (run mfp_reset).     *)

(* intlev finds a pending level, and no higher one is pending. *)
LEMMA IntlevFacts ==
  ASSUME NEW p \in SUBSET Levels
  PROVE  /\ p = {} => intlev(p) = 0
         /\ p # {} => intlev(p) \in p /\ \A k \in p : k <= intlev(p)
<1>1. p \subseteq {2, 4, 6}
  BY CpuAssumption DEF Levels
<1>2. ASSUME p # {} PROVE \E l \in p : \A k \in p : k <= l
  <2>1. CASE 6 \in p
    BY <1>1, <2>1
  <2>2. CASE 6 \notin p /\ 4 \in p
    BY <1>1, <2>2
  <2>3. CASE 6 \notin p /\ 4 \notin p
    <3>1. \A k \in p : k = 2
      BY <1>1, <2>3
    <3> QED BY <1>2, <3>1
  <2> QED BY <2>1, <2>2, <2>3
<1>3. p = {} => intlev(p) = 0
  BY DEF intlev
<1>4. p # {} => intlev(p) = CHOOSE l \in p : \A k \in p : k <= l
  BY DEF intlev
<1> QED BY <1>2, <1>3, <1>4

(* The signal of the MFP (IRQ), what the CPU sees of it (IRQ_CPU) and the  *)
(* pending level 6 may differ only while SPCFLAG_MFP announces a call of   *)
(* MFP_DelayIRQ, which makes them agree.                                   *)
Announced(m, p) ==
  /\ m.IRQ_CPU => m.IRQ \/ m.SPCFLAG_MFP
  /\ m.IRQ => m.IRQ_CPU \/ m.SPCFLAG_MFP
  /\ m.IRQ_CPU /\ 6 \notin p => m.SPCFLAG_MFP
  /\ 6 \in p => m.IRQ \/ m.SPCFLAG_MFP

(* What the CPU loop relies on in each of its phases. *)
Settled ==
  /\ phase \in {"check", "instr"} => (6 \in pendingInterrupts => mfp.IRQ)
  /\ phase = "check" /\ intmask < 6 /\ 6 \notin pendingInterrupts => ~mfp.IRQ_CPU
  /\ phase = "iack" /\ level = 6 => mfp.IRQ
  /\ phase = "iack" /\ level # 6 =>
       level \in AutoLevels /\ 6 \notin pendingInterrupts /\ ~mfp.IRQ_CPU

CpuTypes == pendingInterrupts \in SUBSET Levels /\ intmask \in 0 .. 7 /\ snap = NoSnapshot

Delivery == Announced(mfp, pendingInterrupts) /\ Settled /\ CpuTypes

(* An operation of the MFP keeps the announcement, as it changes none of   *)
(* the signals or sets the flag.                                           *)
LEMMA EffectAnnounced ==
  ASSUME NEW u, NEW m, NEW p, Announced(m, p), Passive(u, m) \/ Updated(u, m)
  PROVE  Announced(u, p)
  BY DEF Announced, Passive, Updated

(* After a reset nothing is requested or pending. *)
LEMMA InitDelivery == Init => Delivery
  BY DEF Init, Delivery, Announced, Settled, CpuTypes, MFP_Reset

(* A step of an event handler: the same phase, and the MFP only collects   *)
(* pending bits.                                                           *)
LEMMA HandlerDelivery ==
  ASSUME Delivery, Passive(mfp', mfp), UNCHANGED <<cpuVars, snap>>
  PROVE  Delivery'
<1>1. Announced(mfp, pendingInterrupts)'
  BY EffectAnnounced DEF Delivery, cpuVars
<1>2. Settled'
  BY DEF Delivery, Settled, Passive, cpuVars
<1> QED BY <1>1, <1>2 DEF Delivery, CpuTypes, cpuVars

(* Every step keeps the copies of a request announced and settled. *)
LEMMA StepDelivery ==
  ASSUME ~WithReset, SnapshotLevels = {}, IInv, Delivery, [Next]_vars
  PROVE  Delivery'
<1>1. /\ Good(mfp) /\ late \in 0 .. MaxAge /\ \A a \in 0 .. MaxAge : a \in Ages
      /\ 0 \in 0 .. MaxAge
  BY MaxAgeAssumption DEF IInv, Ages, Never
<1>2. Announced(mfp, pendingInterrupts) /\ Settled /\ CpuTypes
  BY DEF Delivery
<1>3. CASE Instruction
  <2>1. Announced(mfp, pendingInterrupts)'
    <3>1. CASE Effect /\ UNCHANGED pendingInterrupts
      BY <1>2, <3>1, EffectAnnounced DEF Effect
    <3>2. CASE mfp' = MFP_Reset(mfp.SPCFLAG_MFP) /\ pendingInterrupts' = {}
      BY <3>2 DEF Announced, MFP_Reset
    <3> QED BY <1>3, <3>1, <3>2, InstructionFacts
  <2>2. phase' = "events"
    BY <1>3, InstructionFacts
  <2>3. Settled'
    BY <2>2 DEF Settled
  <2>4. CpuTypes'
    BY <1>2, <1>3, InstructionFacts, CpuAssumption DEF CpuTypes
  <2> QED BY <2>1, <2>3, <2>4 DEF Delivery
<1>4. ASSUME NEW c \in Channels \ Lines, NEW delay \in 0 .. late, ChannelInput(c, delay)
      PROVE  Delivery'
  <2>1. delay \in Ages
    BY <1>1, <1>4, MaxAgeAssumption DEF Ages, Never
  <2> QED BY <1>1, <1>4, <2>1, InputFacts, HandlerDelivery DEF ChannelInput
<1>5. ASSUME NEW l \in Lines, NEW high \in BOOLEAN, LineInput(l, high) PROVE Delivery'
  BY <1>1, <1>5, LineInputFacts, HandlerDelivery DEF LineInput
<1>6. ASSUME NEW l \in AutoLevels, VideoInterrupt(l) PROVE Delivery'
  <2>1. UNCHANGED <<mfp, phase, level, intmask, snap>> /\ Handling
    BY <1>6 DEF VideoInterrupt
  <2>2. (6 \in pendingInterrupts') = mfp.IRQ_CPU /\ pendingInterrupts' \in SUBSET Levels
    BY <1>1, <1>2, <1>6 DEF VideoInterrupt, M68000_Update_intlev, CpuTypes, Levels, Good, Shape
  <2>3. Announced(mfp, pendingInterrupts)'
    BY <1>2, <2>1, <2>2 DEF Announced
  <2>4. Settled'
    BY <1>2, <2>1, <2>2 DEF Settled, Handling
  <2> QED BY <1>2, <2>1, <2>2, <2>3, <2>4 DEF Delivery, CpuTypes
<1>7. CASE DoSpecialties
  <2> DEFINE u == UpdateIfNeeded(mfp)
  <2> DEFINE d == MFP_DelayIRQ(u)
  <2>1. Good(u) /\ u.IRQ_CPU = mfp.IRQ_CPU /\ (u = mfp \/ u.SPCFLAG_MFP = TRUE)
    BY <1>1, UpdateIfNeededFacts
  <2>2. Good(d) /\ d.IRQ = u.IRQ /\ ((d = u /\ u.IRQ) \/ d.IRQ_CPU = u.IRQ)
    BY <2>1, DelayFacts
  <2>3. UNCHANGED <<intmask, level, snap>> /\ phase' = "check"
    BY <1>7 DEF DoSpecialties
  <2>4. CASE u.SPCFLAG_MFP
    <3>1. mfp' = d /\ pendingInterrupts' = M68000_Update_intlev(pendingInterrupts, d)
      BY <1>7, <2>4 DEF DoSpecialties
    <3> HIDE DEF u, d
    <3>2. (6 \in pendingInterrupts') = d.IRQ_CPU /\ pendingInterrupts' \in SUBSET Levels
      BY <1>2, <2>2, <3>1 DEF M68000_Update_intlev, CpuTypes, Levels, Good, Shape
    <3>3. Announced(mfp, pendingInterrupts)' /\ (6 \in pendingInterrupts' => mfp'.IRQ)
      BY <2>2, <2>4, <3>1, <3>2 DEF Announced
    <3>4. Settled'
      BY <2>3, <3>1, <3>2, <3>3 DEF Settled
    <3> QED BY <1>2, <2>3, <3>2, <3>3, <3>4 DEF Delivery, CpuTypes
  <2>5. CASE ~u.SPCFLAG_MFP
    <3>1. mfp' = mfp /\ UNCHANGED pendingInterrupts /\ ~mfp.SPCFLAG_MFP
      BY <1>7, <2>1, <2>5 DEF DoSpecialties
    <3> HIDE DEF u, d
    <3>2. Settled'
      BY <1>2, <2>3, <3>1 DEF Settled, Announced
    <3> QED BY <1>2, <2>3, <3>1, <3>2 DEF Delivery, CpuTypes, Announced
  <2> QED BY <2>4, <2>5
<1>8. CASE StartException
  <2>1. IackLength \in 0 .. MaxAge
    BY CpuAssumption
  <2>2. /\ Passive(mfp', mfp) /\ UNCHANGED <<pendingInterrupts, intmask, snap>>
        /\ phase = "check" /\ phase' = "iack" /\ level' = intlev(pendingInterrupts)
        /\ level' > intmask
    BY <1>1, <1>8, <2>1, PassFacts DEF StartException
  <2>3. /\ level' \in pendingInterrupts
        /\ level' # 6 => level' \in AutoLevels
        /\ 6 \in pendingInterrupts => level' = 6
        /\ level' # 6 => intmask < 6
    <3>1. pendingInterrupts \subseteq {2, 4, 6} /\ pendingInterrupts \subseteq AutoLevels \cup {6}
      BY <1>2, CpuAssumption DEF CpuTypes, Levels
    <3>2. pendingInterrupts # {}
      BY <1>2, <2>2, IntlevFacts DEF CpuTypes
    <3>3. level' \in pendingInterrupts /\ \A k \in pendingInterrupts : k <= level'
      BY <1>2, <2>2, <3>2, IntlevFacts DEF CpuTypes
    <3> QED BY <1>2, <2>2, <3>1, <3>3 DEF CpuTypes
  <2>4. Announced(mfp, pendingInterrupts)'
    BY <1>2, <2>2, EffectAnnounced
  <2>5. Settled'
    BY <1>2, <2>2, <2>3 DEF Settled, Passive
  <2> QED BY <1>2, <2>2, <2>4, <2>5 DEF Delivery, CpuTypes
<1>9. CASE NextInstruction
  BY <1>2, <1>9 DEF NextInstruction, Delivery, Announced, Settled, CpuTypes
<1>10. CASE AcknowledgeMFP
  <2>1. mfp'.SPCFLAG_MFP = TRUE
    BY <1>1, <1>10, IackFacts DEF AcknowledgeMFP
  <2>2. /\ pendingInterrupts' = pendingInterrupts \ {6} /\ intmask' = 6 /\ phase' = "check"
        /\ UNCHANGED snap
    BY <1>10 DEF AcknowledgeMFP
  <2> QED BY <1>2, <2>1, <2>2 DEF Delivery, Announced, Settled, CpuTypes
<1>11. CASE AcknowledgeVideo
  <2>1. /\ pendingInterrupts' = pendingInterrupts \ {level} /\ intmask' = level /\ phase' = "check"
        /\ UNCHANGED snap /\ mfp' = UpdateIfNeeded(mfp) /\ level \in AutoLevels /\ phase = "iack"
    BY <1>11 DEF AcknowledgeVideo
  <2>2. level # 6 /\ level \in 0 .. 7
    BY <2>1, CpuAssumption
  <2>3. mfp'.IRQ_CPU = mfp.IRQ_CPU /\ (mfp' = mfp \/ mfp'.SPCFLAG_MFP = TRUE)
    BY <1>1, <2>1, UpdateIfNeededFacts
  <2>4. 6 \notin pendingInterrupts' /\ ~mfp.IRQ_CPU
    BY <1>2, <2>1, <2>2 DEF Settled
  <2>5. Announced(mfp, pendingInterrupts)'
    BY <1>2, <2>3, <2>4 DEF Announced
  <2>6. Settled'
    BY <2>1, <2>3, <2>4 DEF Settled
  <2> QED BY <1>2, <2>1, <2>2, <2>5, <2>6 DEF Delivery, CpuTypes
<1>12. CASE User
  BY <1>2, <1>12 DEF User, ResetMachine, SaveSnapshot, RestoreSnapshot, CpuTypes
<1>13. CASE UNCHANGED vars
  BY <1>2, <1>13 DEF vars, cpuVars, Delivery, Announced, Settled, CpuTypes
<1> QED BY <1>3, <1>4, <1>5, <1>6, <1>7, <1>8, <1>9, <1>10, <1>11, <1>12, <1>13
        DEF Next, Device, CpuLoop
-----------------------------------------------------------------------------
(* What a step does to the service: it takes nothing into service and      *)
(* loses no pending bit outside an instruction, or it is the acknowledge   *)
(* of a deliverable channel.                                               *)
LEMMA StepService ==
  ASSUME ~WithReset, SnapshotLevels = {}, IInv, Delivery, [Next]_vars
  PROVE  \/ /\ mfp'.ISR \subseteq mfp.ISR
            /\ phase # "instr" => mfp.IPR \subseteq mfp'.IPR
         \/ /\ phase = "iack" /\ level = 6
            /\ \E c \in Channels : Serves(mfp', mfp, c)
<1>1. /\ Good(mfp) /\ late \in 0 .. MaxAge /\ \A a \in 0 .. MaxAge : a \in Ages
      /\ 0 \in 0 .. MaxAge /\ Settled /\ snap = NoSnapshot
  BY MaxAgeAssumption DEF IInv, Ages, Never, Delivery, CpuTypes
<1>2. \A u : Passive(u, mfp) => u.ISR \subseteq mfp.ISR /\ mfp.IPR \subseteq u.IPR
  BY DEF Passive
<1>3. CASE Instruction
  <2>1. phase = "instr"
    BY <1>3, InstructionFacts
  <2>2. CASE Effect
    BY <2>1, <2>2 DEF Effect, Passive, Updated
  <2>3. CASE mfp' = MFP_Reset(mfp.SPCFLAG_MFP)
    BY <2>1, <2>3 DEF MFP_Reset
  <2> QED BY <1>3, <2>2, <2>3, InstructionFacts
<1>4. ASSUME NEW c \in Channels \ Lines, NEW delay \in 0 .. late, ChannelInput(c, delay)
      PROVE  mfp'.ISR \subseteq mfp.ISR /\ mfp.IPR \subseteq mfp'.IPR
  <2>1. delay \in Ages
    BY <1>1, <1>4, MaxAgeAssumption DEF Ages, Never
  <2> QED BY <1>1, <1>2, <1>4, <2>1, InputFacts DEF ChannelInput
<1>5. ASSUME NEW l \in Lines, NEW high \in BOOLEAN, LineInput(l, high)
      PROVE  mfp'.ISR \subseteq mfp.ISR /\ mfp.IPR \subseteq mfp'.IPR
  BY <1>1, <1>2, <1>5, LineInputFacts DEF LineInput
<1>6. ASSUME NEW l \in AutoLevels, VideoInterrupt(l)
      PROVE  UNCHANGED mfp
  BY <1>6 DEF VideoInterrupt
<1>7. CASE DoSpecialties
  <2> DEFINE u == UpdateIfNeeded(mfp)
  <2>1. Good(u) /\ SameRegisters(u, mfp)
    BY <1>1, UpdateIfNeededFacts
  <2>2. SameRegisters(MFP_DelayIRQ(u), u)
    BY <2>1, DelayFacts
  <2>3. mfp' = u \/ mfp' = MFP_DelayIRQ(u)
    BY <1>7 DEF DoSpecialties
  <2> HIDE DEF u
  <2> QED BY <2>1, <2>2, <2>3 DEF SameRegisters
<1>8. CASE StartException
  <2>1. IackLength \in 0 .. MaxAge
    BY CpuAssumption
  <2> QED BY <1>1, <1>2, <1>8, <2>1, PassFacts DEF StartException
<1>9. CASE NextInstruction
  BY <1>9 DEF NextInstruction
<1>10. CASE AcknowledgeMFP
  <2>1. phase = "iack" /\ level = 6 /\ mfp' = MFP_ProcessIACK(mfp)
    BY <1>10 DEF AcknowledgeMFP
  <2>2. mfp.IRQ
    BY <1>1, <2>1 DEF Settled
  <2> QED BY <1>1, <2>1, <2>2, IackFacts
<1>11. CASE AcknowledgeVideo
  BY <1>1, <1>11, UpdateIfNeededFacts DEF AcknowledgeVideo, SameRegisters
<1>12. CASE User
  BY <1>1, <1>12 DEF User, ResetMachine, SaveSnapshot, RestoreSnapshot
<1>13. CASE UNCHANGED vars
  BY <1>13 DEF vars
<1> QED BY <1>3, <1>4, <1>5, <1>6, <1>7, <1>8, <1>9, <1>10, <1>11, <1>12, <1>13
        DEF Next, Device, CpuLoop

(* No level 6 exception starts, or is acknowledged, without a request of   *)
(* the MFP.                                                                *)
THEOREM CpuSeesNoSpuriousInterrupt ==
  ASSUME ~WithReset, SnapshotLevels = {}
  PROVE  Spec => []NoSpuriousInterrupt
<1>1. Init => IInv /\ Delivery
  BY InitGood, InitDelivery
<1>2. IInv /\ Delivery /\ [Next]_vars => (IInv /\ Delivery)'
  BY StepGood, StepDelivery
<1>3. IInv /\ Delivery => NoSpuriousInterrupt
  BY DEF Delivery, Settled, NoSpuriousInterrupt
<1> QED BY <1>1, <1>2, <1>3, PTL DEF Spec

(* Between two instructions a request of the MFP is pending at the CPU or  *)
(* will be looked at again, and level 6 is pending only with a request.    *)
THEOREM EveryRequestReachesCpu ==
  ASSUME ~WithReset, SnapshotLevels = {}
  PROVE  Spec => []RequestReachesCpu
<1>1. Init => IInv /\ Delivery
  BY InitGood, InitDelivery
<1>2. IInv /\ Delivery /\ [Next]_vars => (IInv /\ Delivery)'
  BY StepGood, StepDelivery
<1>3. IInv /\ Delivery => RequestReachesCpu
  BY DEF Delivery, Announced, Settled, RequestReachesCpu
<1> QED BY <1>1, <1>2, <1>3, PTL DEF Spec

(* Interrupts nest by priority: a channel enters service only by its own   *)
(* acknowledge, pending, unmasked and above all those in service.          *)
THEOREM ServiceAlwaysNests ==
  ASSUME ~WithReset, SnapshotLevels = {}
  PROVE  Spec => ServiceNests
<1>1. Init => IInv /\ Delivery
  BY InitGood, InitDelivery
<1>2. IInv /\ Delivery /\ [Next]_vars => (IInv /\ Delivery)'
  BY StepGood, StepDelivery
<1>3. IInv /\ Delivery /\ [Next]_vars =>
        [\A c \in mfp'.ISR \ mfp.ISR :
           /\ c \in mfp.IPR \cap mfp.IMR /\ c \notin mfp'.IPR
           /\ \A j \in mfp.ISR : j < c
           /\ mfp'.ISR = mfp.ISR \cup {c}]_vars
  <2> SUFFICES ASSUME IInv, Delivery, [Next]_vars, NEW c \in mfp'.ISR \ mfp.ISR
               PROVE  /\ c \in mfp.IPR \cap mfp.IMR /\ c \notin mfp'.IPR
                      /\ \A j \in mfp.ISR : j < c
                      /\ mfp'.ISR = mfp.ISR \cup {c}
    OBVIOUS
  <2>1. PICK d \in Channels : Serves(mfp', mfp, d)
    BY StepService
  <2>2. c = d
    BY <2>1 DEF Serves
  <2> QED BY <2>1, <2>2 DEF Serves, Deliverable, Unblocked
<1> QED BY <1>1, <1>2, <1>3, PTL DEF Spec, ServiceNests

(* A pending interrupt is lost only to the program or to its own           *)
(* acknowledge.                                                            *)
THEOREM PendingAlwaysKept ==
  ASSUME ~WithReset, SnapshotLevels = {}
  PROVE  Spec => PendingKept
<1>1. Init => IInv /\ Delivery
  BY InitGood, InitDelivery
<1>2. IInv /\ Delivery /\ [Next]_vars => (IInv /\ Delivery)'
  BY StepGood, StepDelivery
<1>3. IInv /\ Delivery /\ [Next]_vars =>
        [phase # "instr" =>
           \/ mfp.IPR \subseteq mfp'.IPR
           \/ /\ phase = "iack" /\ level = 6
              /\ \E c \in mfp.IPR : /\ Deliverable(mfp, c) /\ mfp'.IPR = mfp.IPR \ {c}
                                    /\ mfp.SEI => c \in mfp'.ISR]_vars
  BY StepService DEF Serves, Deliverable
<1> QED BY <1>1, <1>2, <1>3, PTL DEF Spec, PendingKept
-----------------------------------------------------------------------------
(* No request is overlooked.  The search takes channels whose event is at  *)
(* least as old as Pending_Time_Min.  It finds one because some pending    *)
(* and unmasked channel is the reason for that minimum, and keeps its time *)
(* until the search: a channel that is no line has no second input among   *)
(* the handlers of an instruction, and a line has its inputs in handlers,  *)
(* all at age 0.                                                           *)
Witness(m, f) ==
  \E c \in m.IPR \cap m.IMR :
    /\ m.Pending_Time[c] >= m.Pending_Time_Min
    /\ IF c \in Lines THEN m.Pending_Time_Min = 0 ELSE c \in f

(* As MFP_UpdateIRQ leaves it, with no input since. *)
Searched(m) ==
  /\ m.Pending_Time_Min = Never /\ ~m.UpdateNeeded
  /\ m.ISR = {} /\ m.IPR \cap m.IMR # {} => m.IRQ

Noticed(m, f) == Searched(m) \/ (m.UpdateNeeded /\ (m.Pending_Time_Min = Never \/ Witness(m, f)))

Attention ==
  /\ Noticed(mfp, fired)
  /\ phase \in {"instr", "check"} => Searched(mfp)
  /\ snap # NoSnapshot => Noticed(snap.mfp, snap.fired)

(* The search that MFP_UpdateIRQ makes. *)
LEMMA UpdateSearches ==
  ASSUME NEW m \in Shape, NEW t \in Ages,
         m.Pending_Time_Min # Never =>
           \E c \in m.IPR \cap m.IMR : m.Pending_Time[c] >= m.Pending_Time_Min
  PROVE  Searched(MFP_UpdateIRQ(m, t))
<1> DEFINE u == MFP_UpdateIRQ(m, t)
<1> DEFINE n == MFP_CheckPendingInterrupts(m)
<1>1. /\ u.Pending_Time_Min = Never /\ u.UpdateNeeded = FALSE
      /\ u.IPR = m.IPR /\ u.IMR = m.IMR /\ u.ISR = m.ISR
      /\ u.IRQ = (n # NoInterrupt)
  BY DEF MFP_UpdateIRQ, Shape
<1>2. ASSUME m.ISR = {}, m.IPR \cap m.IMR # {} PROVE n # NoInterrupt
  <2>1. PICK c \in m.IPR \cap m.IMR : m.Pending_Time[c] >= m.Pending_Time_Min
    <3>1. CASE m.Pending_Time_Min # Never
      BY <3>1
    <3>2. CASE m.Pending_Time_Min = Never
      <4>1. PICK c \in m.IPR \cap m.IMR : TRUE
        BY <1>2
      <4>2. m.Pending_Time[c] \in Ages
        BY DEF Shape
      <4> QED BY <3>2, <4>2 DEF Ages, Never
    <3> QED BY <3>1, <3>2
  <2>2. c \in Requests(m)
    BY <1>2, <2>1 DEF Requests, MFP_InterruptRequest, Unblocked, Shape
  <2>3. PICK h \in Requests(m) : \A d \in Requests(m) : d <= h
    BY <2>2, HighestChannel DEF Requests
  <2>4. n = CHOOSE h1 \in Requests(m) : \A d \in Requests(m) : d <= h1
    BY <2>2 DEF MFP_CheckPendingInterrupts
  <2>5. n \in Channels
    BY <2>3, <2>4 DEF Requests
  <2> QED BY <2>5, ChannelsAssumption DEF NoInterrupt
<1> HIDE DEF u, n
<1>3. Searched(u)
  BY <1>1, <1>2 DEF Searched
<1> QED BY <1>3 DEF u

(* What has been searched stays so while time passes. *)
LEMMA PassSearches ==
  ASSUME NEW m \in Shape, Searched(m), NEW n \in 0 .. MaxAge
  PROVE  Searched(PassTime(m, n))
<1> DEFINE u == PassTime(m, n)
<1>1. /\ u.Pending_Time_Min = Older(m.Pending_Time_Min, n) /\ u.UpdateNeeded = m.UpdateNeeded
      /\ u.IPR = m.IPR /\ u.IMR = m.IMR /\ u.ISR = m.ISR /\ u.IRQ = m.IRQ
  BY DEF PassTime, Shape
<1> HIDE DEF u
<1>2. Searched(u)
  BY <1>1 DEF Searched, Older
<1> QED BY <1>2 DEF u

(* A register write searches again, or decides about nothing. *)
LEMMA WriteSearches ==
  ASSUME NEW m \in Shape, Searched(m), NEW half \in SUBSET Channels, NEW v \in SUBSET Channels,
         NEW sei \in BOOLEAN, NEW t \in Ages
  PROVE  /\ Searched(MFP_Enable_WriteByte(m, half, v, t))
         /\ Searched(MFP_Pending_WriteByte(m, half, v, t))
         /\ Searched(MFP_InService_WriteByte(m, half, v, t))
         /\ Searched(MFP_Mask_WriteByte(m, half, v, t))
         /\ Searched(MFP_VectorReg_WriteByte(m, sei, t))
<1>1. m.Pending_Time_Min = Never
  BY DEF Searched
<1>2. ASSUME NEW w \in Shape, w.Pending_Time_Min = m.Pending_Time_Min
      PROVE  Searched(MFP_UpdateIRQ(w, t))
  BY <1>1, <1>2, UpdateSearches
<1>3. Searched(MFP_Enable_WriteByte(m, half, v, t))
  <2> DEFINE ier == Written(m.IER, half, v)
  <2> DEFINE ipr == m.IPR \ (half \ ier)
  <2> DEFINE w == [m EXCEPT !.IER = ier, !.IPR = ipr]
  <2>1. ier \in SUBSET Channels /\ ipr \in SUBSET Channels
    BY DEF Written, Shape
  <2>2. MFP_Enable_WriteByte(m, half, v, t) = MFP_UpdateIRQ(w, t)
    BY DEF MFP_Enable_WriteByte
  <2> HIDE DEF ier, ipr
  <2>3. w \in Shape /\ w.Pending_Time_Min = m.Pending_Time_Min
    BY <2>1 DEF Shape
  <2> QED BY <1>2, <2>2, <2>3
<1>4. Searched(MFP_Pending_WriteByte(m, half, v, t))
  <2> DEFINE ipr == m.IPR \ (half \ v)
  <2> DEFINE w == [m EXCEPT !.IPR = ipr]
  <2>1. w \in Shape /\ w.Pending_Time_Min = m.Pending_Time_Min
    BY DEF Shape
  <2> QED BY <1>2, <2>1 DEF MFP_Pending_WriteByte
<1>5. Searched(MFP_InService_WriteByte(m, half, v, t))
  <2> DEFINE isr == m.ISR \ (half \ v)
  <2> DEFINE w == [m EXCEPT !.ISR = isr]
  <2>1. w \in Shape /\ w.Pending_Time_Min = m.Pending_Time_Min
    BY DEF Shape
  <2> QED BY <1>2, <2>1 DEF MFP_InService_WriteByte
<1>6. Searched(MFP_Mask_WriteByte(m, half, v, t))
  <2> DEFINE imr == Written(m.IMR, half, v)
  <2> DEFINE w == [m EXCEPT !.IMR = imr]
  <2>1. imr \in SUBSET Channels
    BY DEF Written, Shape
  <2> HIDE DEF imr
  <2>2. w \in Shape /\ w.Pending_Time_Min = m.Pending_Time_Min
    BY <2>1 DEF Shape
  <2> QED BY <1>2, <2>2 DEF MFP_Mask_WriteByte, imr
<1>7. Searched(MFP_VectorReg_WriteByte(m, sei, t))
  <2> DEFINE w == [m EXCEPT !.SEI = FALSE, !.ISR = {}]
  <2> DEFINE w1 == [m EXCEPT !.SEI = sei]
  <2>1. w \in Shape /\ w.Pending_Time_Min = m.Pending_Time_Min
    BY DEF Shape
  <2>2. Searched(w1)
    BY DEF Searched, Shape
  <2> QED BY <1>2, <2>1, <2>2 DEF MFP_VectorReg_WriteByte
<1> QED BY <1>3, <1>4, <1>5, <1>6, <1>7

(* So does an acknowledge, whose second search follows the first at once. *)
LEMMA IackSearches ==
  ASSUME NEW m, Good(m)
  PROVE  Searched(MFP_ProcessIACK(m))
<1> DEFINE u == MFP_UpdateIRQ(m, 0)
<1> DEFINE c == u.Current_Interrupt
<1> DEFINE ipr == u.IPR \ {c}
<1> DEFINE isr == IF u.SEI THEN u.ISR \cup {c} ELSE u.ISR \ {c}
<1> DEFINE w == [u EXCEPT !.IPR = ipr, !.ISR = isr]
<1>1. 0 \in Ages /\ m \in Shape
  BY MaxAgeAssumption DEF Ages, Never, Good
<1>2. u \in Shape
  BY <1>1, UpdateFacts DEF Good, Justified
<1>3. u.Pending_Time_Min = Never
  BY <1>1 DEF MFP_UpdateIRQ, Shape
<1>4. MFP_ProcessIACK(m) = MFP_UpdateIRQ(w, 0)
  BY DEF MFP_ProcessIACK
<1> HIDE DEF u
<1>5. c \in Channels \cup {NoInterrupt}
  BY <1>2 DEF Shape
<1>6. ipr \in SUBSET Channels /\ isr \in SUBSET (Channels \cup {NoInterrupt})
  BY <1>2, <1>5 DEF Shape
<1> HIDE DEF ipr, isr, c
<1>7. w \in Shape /\ w.Pending_Time_Min = Never
  BY <1>2, <1>3, <1>6 DEF Shape
<1> QED BY <1>1, <1>4, <1>7, UpdateSearches

(* The two steps of the CPU loop. *)
LEMMA LoopSearches ==
  ASSUME NEW m, Good(m), NEW f, Noticed(m, f)
  PROVE  /\ Searched(UpdateIfNeeded(m))
         /\ Searched(MFP_DelayIRQ(UpdateIfNeeded(m)))
<1> DEFINE u == UpdateIfNeeded(m)
<1>1. m \in Shape /\ Never \in Ages
  BY MaxAgeAssumption DEF Good, Never, Ages
<1>2. Searched(u)
  <2>1. CASE m.UpdateNeeded
    BY <1>1, <2>1, UpdateSearches DEF UpdateIfNeeded, Noticed, Searched, Witness
  <2>2. CASE ~m.UpdateNeeded
    BY <2>2 DEF UpdateIfNeeded, Noticed
  <2> QED BY <2>1, <2>2
<1>3. u \in Shape
  BY UpdateIfNeededFacts DEF Good
<1> HIDE DEF u
<1>4. Searched(MFP_DelayIRQ(u))
  BY <1>2, <1>3 DEF MFP_DelayIRQ, Searched, Shape
<1> QED BY <1>2, <1>4 DEF u

(* A channel that is no line, on its first input among these handlers. *)
LEMMA InputNoticed ==
  ASSUME NEW m, Good(m), NEW f, Noticed(m, f),
         NEW c \in Channels \ Lines, c \notin f, NEW delay \in 0 .. MaxAge
  PROVE  Noticed(MFP_InputOnChannel(m, c, delay), f \cup {c})
<1>1. m \in Shape /\ m.IPR \subseteq m.IER
  BY DEF Good, Justified
<1>2. m.Pending_Time_Min = Never \/ Witness(m, f)
  BY DEF Noticed, Searched
<1>3. CASE c \in m.IER
  <2> DEFINE tm == IF c \in m.IMR /\ delay > m.Pending_Time_Min
                   THEN delay ELSE m.Pending_Time_Min
  <2> DEFINE w == [m EXCEPT !.IPR = m.IPR \cup {c}, !.Pending_Time[c] = delay,
                            !.Pending_Time_Min = tm, !.UpdateNeeded = TRUE]
  <2>1. MFP_InputOnChannel(m, c, delay) = w
    BY <1>3 DEF MFP_InputOnChannel
  <2>2. /\ w.IPR = m.IPR \cup {c} /\ w.IMR = m.IMR /\ w.UpdateNeeded
        /\ w.Pending_Time = [m.Pending_Time EXCEPT ![c] = delay]
        /\ w.Pending_Time_Min = tm
    BY <1>1 DEF Shape
  <2> HIDE DEF w
  <2>3. /\ w.Pending_Time[c] = delay
        /\ \A d \in Channels \ {c} : w.Pending_Time[d] = m.Pending_Time[d]
    BY <1>1, <2>2 DEF Shape
  <2>4. w.Pending_Time_Min = Never \/ Witness(w, f \cup {c})
    <3>1. CASE c \in m.IMR /\ delay > m.Pending_Time_Min
      BY <2>2, <2>3, <3>1 DEF Witness
    <3>2. CASE ~(c \in m.IMR /\ delay > m.Pending_Time_Min) /\ m.Pending_Time_Min # Never
      <4>1. PICK d \in m.IPR \cap m.IMR :
              /\ m.Pending_Time[d] >= m.Pending_Time_Min
              /\ IF d \in Lines THEN m.Pending_Time_Min = 0 ELSE d \in f
        BY <1>2, <3>2 DEF Witness
      <4>2. d # c /\ d \in Channels
        BY <1>1, <4>1 DEF Shape
      <4> QED BY <2>2, <2>3, <3>2, <4>1, <4>2 DEF Witness
    <3>3. CASE ~(c \in m.IMR /\ delay > m.Pending_Time_Min) /\ m.Pending_Time_Min = Never
      BY <2>2, <3>3
    <3> QED BY <3>1, <3>2, <3>3
  <2> QED BY <2>1, <2>2, <2>4 DEF Noticed
<1>4. CASE c \notin m.IER
  <2> DEFINE w == [m EXCEPT !.IPR = m.IPR \ {c}, !.UpdateNeeded = TRUE]
  <2>1. MFP_InputOnChannel(m, c, delay) = w
    BY <1>4 DEF MFP_InputOnChannel
  <2>2. /\ w.IPR = m.IPR /\ w.IMR = m.IMR /\ w.UpdateNeeded
        /\ w.Pending_Time = m.Pending_Time /\ w.Pending_Time_Min = m.Pending_Time_Min
    BY <1>1, <1>4 DEF Shape
  <2> HIDE DEF w
  <2>3. Noticed(w, f \cup {c})
    BY <1>2, <2>2 DEF Noticed, Witness
  <2> QED BY <2>1, <2>3
<1> QED BY <1>3, <1>4

(* Lines that change in a handler. *)
LEMMA LinesNoticed ==
  ASSUME NEW m, Good(m), NEW f, Noticed(m, f), NEW ls \in SUBSET Lines
  PROVE  Noticed(InputOnLines(m, ls, 0), f)
<1>1. m \in Shape /\ m.IPR \subseteq m.IER /\ Lines \subseteq Channels
  BY ChannelsAssumption DEF Good, Justified
<1>2. m.Pending_Time_Min = Never \/ Witness(m, f)
  BY DEF Noticed, Searched
<1>3. CASE ls = {}
  BY <1>3 DEF InputOnLines
<1>4. CASE ls # {}
  <2> DEFINE pt == [c \in Channels |-> IF c \in ls \cap m.IER THEN 0 ELSE m.Pending_Time[c]]
  <2> DEFINE tm == IF ls \cap m.IER \cap m.IMR # {} /\ 0 > m.Pending_Time_Min
                   THEN 0 ELSE m.Pending_Time_Min
  <2> DEFINE w == [m EXCEPT !.IPR = (m.IPR \cup (ls \cap m.IER)) \ (ls \ m.IER),
                            !.Pending_Time = pt, !.Pending_Time_Min = tm, !.UpdateNeeded = TRUE]
  <2>1. InputOnLines(m, ls, 0) = w
    BY <1>4 DEF InputOnLines
  <2>2. /\ w.IPR = m.IPR \cup (ls \cap m.IER) /\ w.IMR = m.IMR /\ w.UpdateNeeded
        /\ w.Pending_Time = pt /\ w.Pending_Time_Min = tm
    BY <1>1 DEF Shape
  <2> HIDE DEF w
  <2>3. w.Pending_Time_Min = Never \/ Witness(w, f)
    <3>1. CASE ls \cap m.IER \cap m.IMR # {} /\ 0 > m.Pending_Time_Min
      <4>1. PICK c \in ls \cap m.IER \cap m.IMR : TRUE
        BY <3>1
      <4>2. c \in w.IPR \cap w.IMR /\ c \in Lines /\ w.Pending_Time[c] = 0
        BY <1>1, <2>2, <4>1
      <4>3. w.Pending_Time_Min = 0
        BY <2>2, <3>1
      <4> QED BY <4>2, <4>3 DEF Witness
    <3>2. CASE /\ ~(ls \cap m.IER \cap m.IMR # {} /\ 0 > m.Pending_Time_Min)
               /\ m.Pending_Time_Min # Never
      <4>1. PICK d \in m.IPR \cap m.IMR :
              /\ m.Pending_Time[d] >= m.Pending_Time_Min
              /\ IF d \in Lines THEN m.Pending_Time_Min = 0 ELSE d \in f
        BY <1>2, <3>2 DEF Witness
      <4>2. d \in Channels /\ w.Pending_Time[d] = IF d \in ls \cap m.IER THEN 0 ELSE m.Pending_Time[d]
        BY <1>1, <2>2, <4>1 DEF Shape
      <4>3. w.Pending_Time[d] >= m.Pending_Time_Min
        BY <4>1, <4>2
      <4>4. w.Pending_Time_Min = m.Pending_Time_Min /\ d \in w.IPR \cap w.IMR
        BY <2>2, <3>2, <4>1
      <4> QED BY <4>1, <4>3, <4>4 DEF Witness
    <3>3. CASE /\ ~(ls \cap m.IER \cap m.IMR # {} /\ 0 > m.Pending_Time_Min)
               /\ m.Pending_Time_Min = Never
      BY <2>2, <3>3
    <3> QED BY <3>1, <3>2, <3>3
  <2> QED BY <2>1, <2>2, <2>3 DEF Noticed
<1> QED BY <1>3, <1>4

(* A refresh of GPIP changes nothing that the search looks at, and the     *)
(* line a device drives adds the inputs of the lines it triggers.          *)
LEMMA PortNoticed ==
  ASSUME NEW m, Good(m), NEW f, NEW v
  PROVE  LET u == [m EXCEPT !.GPIP = v]
         IN  /\ Searched(m) => Searched(u)
             /\ Noticed(m, f) => Noticed(u, f)
<1>1. m \in Shape
  BY DEF Good
<1> QED BY <1>1 DEF Searched, Noticed, Witness, Shape

LEMMA LineNoticed ==
  ASSUME NEW m, Good(m), NEW f, Noticed(m, f), NEW l \in Lines, NEW high \in BOOLEAN
  PROVE  Noticed(MFP_GPIP_Set_Line_Input(m, l, high, 0), f)
<1> DEFINE v == IF high THEN m.GPIP \cup {l} ELSE m.GPIP \ {l}
<1> DEFINE u == [m EXCEPT !.GPIP = v]
<1>1. v \in SUBSET Lines /\ 0 \in Ages
  BY MaxAgeAssumption DEF Good, Shape, Ages, Never
<1>2. \/ MFP_GPIP_Set_Line_Input(m, l, high, 0) = m
      \/ MFP_GPIP_Set_Line_Input(m, l, high, 0) = InputOnLines(u, TriggeredLines(m, u), 0)
  BY DEF MFP_GPIP_Set_Line_Input, MFP_GPIP_Update_Interrupt
<1> HIDE DEF v
<1>3. Good(u) /\ Noticed(u, f)
  BY <1>1, PortFacts, PortNoticed DEF PortChange, Passive
<1>4. TriggeredLines(m, u) \in SUBSET Lines
  BY DEF TriggeredLines
<1> HIDE DEF u
<1> QED BY <1>2, <1>3, <1>4, LinesNoticed

(* A reset MFP has nothing to search. *)
LEMMA ResetSearches ==
  ASSUME NEW flag
  PROVE  Searched(MFP_Reset(flag))
  BY DEF MFP_Reset, Searched

(* An instruction starts with all searched and, if it causes no edge on a  *)
(* GPIP line itself, leaves it so.                                         *)
LEMMA InstructionSearches ==
  ASSUME ~WithEdges, IInv, Attention, Instruction
  PROVE  phase' = "events" /\ Searched(mfp') /\ UNCHANGED snap
<1>1. PICK n \in InstrLengths :
        \/ OtherInstruction(n)
        \/ \E l \in IntMasks : WriteSR(n, l)
        \/ \E t \in 0 .. n :
             \/ \E half \in Halves, v \in RegisterValues :
                  \/ WriteIER(n, half, v, t)
                  \/ WriteIPR(n, half, v, t)
                  \/ WriteISR(n, half, v, t)
                  \/ WriteIMR(n, half, v, t)
             \/ \E sei \in SeiModes : WriteVR(n, sei, t)
        \/ \E v \in SUBSET Lines : WriteGPIP(n, v) \/ WriteAER(n, v) \/ WriteDDR(n, v)
        \/ \E l \in Lines, high \in BOOLEAN : AccessDevice(n, l, high)
        \/ \E hs \in SUBSET PolledLines : ReadGPIP(n, hs)
        \/ ResetInstruction(n)
  BY DEF Instruction
<1>2. n \in 0 .. MaxAge /\ \A t \in 0 .. n : t \in Ages
  BY CpuAssumption, MaxAgeAssumption DEF Ages, Never
<1>3. phase = "instr" /\ Searched(mfp)
  BY InstructionFacts DEF Attention
<1>4. Good(Aged(n)) /\ Aged(n) \in Shape /\ Searched(Aged(n))
  BY <1>2, <1>3, PassFacts, PassSearches DEF IInv, Aged, Passive, Good
<1>5. phase' = "events" /\ UNCHANGED snap
  BY InstructionFacts
<1>6. CASE OtherInstruction(n) \/ \E l \in IntMasks : WriteSR(n, l)
  BY <1>4, <1>5, <1>6 DEF OtherInstruction, WriteSR, Execute
<1>7. ASSUME NEW t \in 0 .. n, NEW half \in Halves, NEW v \in RegisterValues,
             \/ WriteIER(n, half, v, t) \/ WriteIPR(n, half, v, t)
             \/ WriteISR(n, half, v, t) \/ WriteIMR(n, half, v, t)
      PROVE  Searched(mfp')
  <2>1. half \in SUBSET Channels /\ v \in SUBSET Channels /\ t \in Ages /\ TRUE \in BOOLEAN
    BY <1>2, CpuAssumption DEF Halves, HalfA, HalfB
  <2> QED BY <1>4, <1>7, <2>1, WriteSearches
          DEF WriteIER, WriteIPR, WriteISR, WriteIMR, Execute
<1>8. ASSUME NEW t \in 0 .. n, NEW sei \in SeiModes, WriteVR(n, sei, t)
      PROVE  Searched(mfp')
  <2>1. sei \in BOOLEAN /\ t \in Ages /\ {} \in SUBSET Channels
    BY <1>2, CpuAssumption
  <2> QED BY <1>4, <1>8, <2>1, WriteSearches DEF WriteVR, Execute
<1>9. ~ \E v \in SUBSET Lines : WriteGPIP(n, v) \/ WriteAER(n, v) \/ WriteDDR(n, v)
  BY DEF WriteGPIP, WriteAER, WriteDDR
<1>10. ~ \E l \in Lines, high \in BOOLEAN : AccessDevice(n, l, high)
  BY DEF AccessDevice
<1>11. ASSUME NEW hs \in SUBSET PolledLines, ReadGPIP(n, hs)
       PROVE  Searched(mfp')
  BY <1>4, <1>11, PortNoticed DEF ReadGPIP, Execute, MFP_GPIP_ReadByte
<1>12. CASE ResetInstruction(n)
  BY <1>5, <1>12, ResetSearches DEF ResetInstruction
<1> QED BY <1>1, <1>5, <1>6, <1>7, <1>8, <1>9, <1>10, <1>11, <1>12

LEMMA InitAttention == Init => Attention
  BY ResetSearches DEF Init, Attention, Noticed

(* Every step keeps track of the reasons for Pending_Time_Min. *)
LEMMA StepAttention ==
  ASSUME ~WithEdges, IInv, Attention, [Next]_vars
  PROVE  Attention'
<1>1. /\ Good(mfp) /\ late \in 0 .. MaxAge /\ Noticed(mfp, fired)
      /\ snap # NoSnapshot => Good(snap.mfp) /\ Noticed(snap.mfp, snap.fired)
  BY DEF IInv, SnapGood, Attention
<1>2. CASE Instruction
  BY <1>2, InstructionSearches DEF Attention, Noticed
<1>3. ASSUME NEW c \in Channels \ Lines, NEW delay \in 0 .. late, ChannelInput(c, delay)
      PROVE  Attention'
  <2>1. delay \in 0 .. MaxAge /\ c \notin fired
    BY <1>1, <1>3, MaxAgeAssumption DEF ChannelInput
  <2>2. Noticed(mfp', fired')
    BY <1>1, <1>3, <2>1, InputNoticed DEF ChannelInput
  <2> QED BY <1>3, <2>2 DEF ChannelInput, Handling, Attention, cpuVars
<1>4. ASSUME NEW l \in Lines, NEW high \in BOOLEAN, LineInput(l, high)
      PROVE  Attention'
  BY <1>1, <1>4, LineNoticed DEF LineInput, Handling, Attention, cpuVars
<1>5. ASSUME NEW l \in AutoLevels, VideoInterrupt(l)
      PROVE  Attention'
  BY <1>5 DEF VideoInterrupt, Attention
<1>6. CASE DoSpecialties
  BY <1>1, <1>6, LoopSearches DEF DoSpecialties, Attention, Noticed
<1>7. CASE StartException
  <2>1. mfp \in Shape /\ Searched(mfp) /\ IackLength \in 0 .. MaxAge
    BY <1>1, <1>7, CpuAssumption DEF StartException, Attention, Good
  <2> QED BY <1>1, <1>7, <2>1, PassSearches DEF StartException, Attention, Noticed
<1>8. CASE NextInstruction
  BY <1>1, <1>8 DEF NextInstruction, Attention, Noticed
<1>9. CASE AcknowledgeMFP
  BY <1>1, <1>9, IackSearches DEF AcknowledgeMFP, Attention, Noticed
<1>10. CASE AcknowledgeVideo
  BY <1>1, <1>10, LoopSearches DEF AcknowledgeVideo, Attention, Noticed
<1>11. CASE ResetMachine
  BY <1>1, <1>11, ResetSearches DEF ResetMachine, Attention, Noticed
<1>12. CASE SaveSnapshot
  BY <1>1, <1>12 DEF SaveSnapshot, Attention, cpuVars
<1>13. CASE RestoreSnapshot
  <2> DEFINE m == snap.mfp
  <2>1. Good(m) /\ Noticed(m, snap.fired)
    BY <1>1, <1>13 DEF RestoreSnapshot
  <2> HIDE DEF m
  <2>2. Noticed([m EXCEPT !.SPCFLAG_MFP = FALSE], snap.fired)
    BY <2>1 DEF Good, Shape, Noticed, Searched, Witness
  <2> QED BY <1>1, <1>13, <2>2 DEF RestoreSnapshot, Attention, m
<1>14. CASE UNCHANGED vars
  BY <1>14 DEF vars, cpuVars, Attention
<1> QED BY <1>2, <1>3, <1>4, <1>5, <1>6, <1>7, <1>8, <1>9, <1>10, <1>11, <1>12, <1>13, <1>14
        DEF Next, Device, CpuLoop, User

(* Between two instructions no request waits for anything but priorities   *)
(* and the mask, unless an instruction itself causes the edge of a line    *)
(* that its device then drives through two more edges in the handlers of   *)
(* the same instruction.                                                   *)
THEOREM NoRequestIsOverlooked ==
  ASSUME ~WithEdges
  PROVE  Spec => []NoRequestOverlooked
<1>1. Init => IInv /\ Attention
  BY InitGood, InitAttention
<1>2. IInv /\ Attention /\ [Next]_vars => (IInv /\ Attention)'
  BY StepGood, StepAttention
<1>3. Attention => NoRequestOverlooked
  BY DEF Attention, Searched, NoRequestOverlooked
<1> QED BY <1>1, <1>2, <1>3, PTL DEF Spec
-----------------------------------------------------------------------------
(* Edges.  An operation keeps the levels of the lines and raises no        *)
(* pending bit (Still), or raises exactly those of the edges it makes.     *)
Still(u, m) ==
  u.GPIP = m.GPIP /\ u.AER = m.AER /\ u.IPR \subseteq m.IPR

Edge(u, m, l) == ~ActiveLevel(m, l) /\ ActiveLevel(u, l) /\ l \notin u.DDR

EdgesOf(u, m) ==
  \A l \in Lines \cap u.IER \cap m.IER :
    (Edge(u, m, l) => l \in u.IPR) /\ (l \in u.IPR \ m.IPR => Edge(u, m, l))

LEMMA StillEdges ==
  ASSUME NEW u, NEW m, Still(u, m)
  PROVE  EdgesOf(u, m)
  BY DEF Still, EdgesOf, Edge, ActiveLevel

(* MFP_UpdateIRQ and the steps of the CPU loop look at no line. *)
LEMMA UpdateStill ==
  ASSUME NEW m \in Shape, NEW t
  PROVE  Still(MFP_UpdateIRQ(m, t), m)
  BY DEF MFP_UpdateIRQ, Still, Shape

LEMMA LoopStill ==
  ASSUME NEW m, Good(m)
  PROVE  Still(UpdateIfNeeded(m), m) /\ Still(MFP_DelayIRQ(UpdateIfNeeded(m)), m)
<1> DEFINE u == UpdateIfNeeded(m)
<1>1. Still(u, m)
  BY UpdateStill DEF UpdateIfNeeded, Still, Good
<1>2. u \in Shape
  BY UpdateIfNeededFacts DEF Good
<1> HIDE DEF u
<1>3. Still(MFP_DelayIRQ(u), u)
  BY <1>2 DEF MFP_DelayIRQ, Still, Shape
<1>4. Still(MFP_DelayIRQ(u), m)
  BY <1>1, <1>3 DEF Still
<1> QED BY <1>1, <1>4 DEF u

LEMMA IackStill ==
  ASSUME NEW m, Good(m)
  PROVE  Still(MFP_ProcessIACK(m), m)
<1> DEFINE u == MFP_UpdateIRQ(m, 0)
<1> DEFINE c == u.Current_Interrupt
<1> DEFINE ipr == u.IPR \ {c}
<1> DEFINE isr == IF u.SEI THEN u.ISR \cup {c} ELSE u.ISR \ {c}
<1> DEFINE w == [u EXCEPT !.IPR = ipr, !.ISR = isr]
<1>1. 0 \in Ages /\ m \in Shape
  BY MaxAgeAssumption DEF Ages, Never, Good
<1>2. u \in Shape
  BY <1>1, UpdateFacts DEF Good, Justified
<1>3. Still(u, m)
  BY <1>1, UpdateStill
<1>4. MFP_ProcessIACK(m) = MFP_UpdateIRQ(w, 0)
  BY DEF MFP_ProcessIACK
<1> HIDE DEF u
<1>5. c \in Channels \cup {NoInterrupt}
  BY <1>2 DEF Shape
<1>6. ipr \in SUBSET Channels /\ isr \in SUBSET (Channels \cup {NoInterrupt}) /\ ipr \subseteq u.IPR
  BY <1>2, <1>5 DEF Shape
<1> HIDE DEF ipr, isr, c
<1>7. w \in Shape /\ Still(w, u)
  BY <1>2, <1>6 DEF Shape, Still
<1> HIDE DEF w
<1>8. Still(MFP_UpdateIRQ(w, 0), w)
  BY <1>7, UpdateStill
<1> QED BY <1>3, <1>4, <1>7, <1>8 DEF Still

(* Writes of the other registers. *)
LEMMA WriteStill ==
  ASSUME NEW m \in Shape, NEW half \in SUBSET Channels, NEW v \in SUBSET Channels,
         NEW sei \in BOOLEAN, NEW t
  PROVE  /\ Still(MFP_Enable_WriteByte(m, half, v, t), m)
         /\ Still(MFP_Pending_WriteByte(m, half, v, t), m)
         /\ Still(MFP_InService_WriteByte(m, half, v, t), m)
         /\ Still(MFP_Mask_WriteByte(m, half, v, t), m)
         /\ Still(MFP_VectorReg_WriteByte(m, sei, t), m)
<1>1. ASSUME NEW w \in Shape, Still(w, m)
      PROVE  Still(MFP_UpdateIRQ(w, t), m)
  BY <1>1, UpdateStill DEF Still
<1>2. Still(MFP_Enable_WriteByte(m, half, v, t), m)
  <2> DEFINE ier == Written(m.IER, half, v)
  <2> DEFINE ipr == m.IPR \ (half \ ier)
  <2> DEFINE w == [m EXCEPT !.IER = ier, !.IPR = ipr]
  <2>1. ier \in SUBSET Channels /\ ipr \in SUBSET Channels /\ ipr \subseteq m.IPR
    BY DEF Written, Shape
  <2>2. MFP_Enable_WriteByte(m, half, v, t) = MFP_UpdateIRQ(w, t)
    BY DEF MFP_Enable_WriteByte
  <2> HIDE DEF ier, ipr
  <2>3. w \in Shape /\ Still(w, m)
    BY <2>1 DEF Shape, Still
  <2> QED BY <1>1, <2>2, <2>3
<1>3. Still(MFP_Pending_WriteByte(m, half, v, t), m)
  <2> DEFINE ipr == m.IPR \ (half \ v)
  <2> DEFINE w == [m EXCEPT !.IPR = ipr]
  <2>1. w \in Shape /\ Still(w, m)
    BY DEF Shape, Still
  <2> QED BY <1>1, <2>1 DEF MFP_Pending_WriteByte
<1>4. Still(MFP_InService_WriteByte(m, half, v, t), m)
  <2> DEFINE isr == m.ISR \ (half \ v)
  <2> DEFINE w == [m EXCEPT !.ISR = isr]
  <2>1. w \in Shape /\ Still(w, m)
    BY DEF Shape, Still
  <2> QED BY <1>1, <2>1 DEF MFP_InService_WriteByte
<1>5. Still(MFP_Mask_WriteByte(m, half, v, t), m)
  <2> DEFINE imr == Written(m.IMR, half, v)
  <2> DEFINE w == [m EXCEPT !.IMR = imr]
  <2>1. imr \in SUBSET Channels
    BY DEF Written, Shape
  <2> HIDE DEF imr
  <2>2. w \in Shape /\ Still(w, m)
    BY <2>1 DEF Shape, Still
  <2> QED BY <1>1, <2>2 DEF MFP_Mask_WriteByte, imr
<1>6. Still(MFP_VectorReg_WriteByte(m, sei, t), m)
  <2> DEFINE w == [m EXCEPT !.SEI = FALSE, !.ISR = {}]
  <2> DEFINE w1 == [m EXCEPT !.SEI = sei]
  <2>1. w \in Shape /\ Still(w, m) /\ Still(w1, m)
    BY DEF Shape, Still
  <2> QED BY <1>1, <2>1 DEF MFP_VectorReg_WriteByte
<1> QED BY <1>2, <1>3, <1>4, <1>5, <1>6

(* What MFP_GPIP_Update_Interrupt finds after a change of GPIP, AER or DDR *)
(* are the edges of that change.                                           *)
LEMMA PortEdges ==
  ASSUME NEW m, Good(m), NEW v \in SUBSET Lines, NEW delay \in Ages, NEW u, PortChange(m, u, v)
  PROVE  EdgesOf(MFP_GPIP_Update_Interrupt(m, u, delay), m)
<1> DEFINE ls == TriggeredLines(m, u)
<1> DEFINE r == InputOnLines(u, ls, delay)
<1>1. u \in Shape /\ u.IPR = m.IPR /\ u.IER = m.IER
  <2>1. CASE u = [m EXCEPT !.GPIP = v]
    BY <2>1 DEF Good, Shape
  <2>2. CASE u = [m EXCEPT !.AER = v]
    BY <2>2 DEF Good, Shape
  <2>3. CASE u = [m EXCEPT !.DDR = v]
    BY <2>3 DEF Good, Shape
  <2> QED BY <2>1, <2>2, <2>3 DEF PortChange
<1>2. ls = {l \in Lines : Edge(u, m, l)}
  BY DEF TriggeredLines, Edge
<1> HIDE DEF ls
<1>3. /\ r.GPIP = u.GPIP /\ r.AER = u.AER /\ r.DDR = u.DDR /\ r.IER = m.IER
      /\ r.IPR = (m.IPR \cup (ls \cap m.IER)) \ (ls \ m.IER)
  BY <1>1 DEF InputOnLines, Shape
<1> HIDE DEF r
<1>4. \A l \in Lines : Edge(r, m, l) = Edge(u, m, l)
  BY <1>3 DEF Edge, ActiveLevel
<1>5. EdgesOf(r, m)
  BY <1>2, <1>3, <1>4 DEF EdgesOf
<1> QED BY <1>5 DEF MFP_GPIP_Update_Interrupt, r, ls

LEMMA PortWriteEdges ==
  ASSUME NEW m, Good(m), NEW v \in SUBSET Lines, NEW delay \in Ages
  PROVE  /\ EdgesOf(MFP_GPIP_WriteByte(m, v, delay), m)
         /\ EdgesOf(MFP_ActiveEdge_WriteByte(m, v, delay), m)
         /\ EdgesOf(MFP_DataDirection_WriteByte(m, v, delay), m)
<1>1. Written(m.GPIP, m.DDR, v) \in SUBSET Lines
  BY DEF Written, Good, Shape
<1> QED BY <1>1, PortEdges
        DEF PortChange, MFP_GPIP_WriteByte, MFP_ActiveEdge_WriteByte, MFP_DataDirection_WriteByte

LEMMA LineEdges ==
  ASSUME NEW m, Good(m), NEW l \in Lines, NEW high \in BOOLEAN, NEW delay \in Ages
  PROVE  EdgesOf(MFP_GPIP_Set_Line_Input(m, l, high, delay), m)
<1> DEFINE v == IF high THEN m.GPIP \cup {l} ELSE m.GPIP \ {l}
<1>1. v \in SUBSET Lines
  BY DEF Good, Shape
<1>2. \/ MFP_GPIP_Set_Line_Input(m, l, high, delay) = m
      \/ MFP_GPIP_Set_Line_Input(m, l, high, delay)
           = MFP_GPIP_Update_Interrupt(m, [m EXCEPT !.GPIP = v], delay)
  BY DEF MFP_GPIP_Set_Line_Input
<1>3. EdgesOf(m, m)
  BY StillEdges DEF Still
<1> HIDE DEF v
<1> QED BY <1>1, <1>2, <1>3, PortEdges DEF PortChange

(* Time that passes before an access makes no edge. *)
LEMMA EdgesAfterTime ==
  ASSUME NEW m, Good(m), NEW n, NEW r, EdgesOf(r, PassTime(m, n))
  PROVE  EdgesOf(r, m)
<1> DEFINE u == PassTime(m, n)
<1>1. u.IER = m.IER /\ u.IPR = m.IPR /\ u.GPIP = m.GPIP /\ u.AER = m.AER
  BY DEF PassTime, Good, Shape
<1> HIDE DEF u
<1>2. EdgesOf(r, u)
  BY DEF u
<1> QED BY <1>1, <1>2 DEF EdgesOf, Edge, ActiveLevel

(* A reset MFP has no channel enabled. *)
LEMMA ResetEdges ==
  ASSUME NEW flag, NEW m
  PROVE  EdgesOf(MFP_Reset(flag), m)
  BY DEF EdgesOf, MFP_Reset

(* Every instruction but a read of GPIP. *)
LEMMA InstructionEdges ==
  ASSUME IInv, Instruction
  PROVE  Refresh \/ EdgesOf(mfp', mfp)
<1>1. PICK n \in InstrLengths :
        \/ OtherInstruction(n)
        \/ \E l \in IntMasks : WriteSR(n, l)
        \/ \E t \in 0 .. n :
             \/ \E half \in Halves, v \in RegisterValues :
                  \/ WriteIER(n, half, v, t)
                  \/ WriteIPR(n, half, v, t)
                  \/ WriteISR(n, half, v, t)
                  \/ WriteIMR(n, half, v, t)
             \/ \E sei \in SeiModes : WriteVR(n, sei, t)
        \/ \E v \in SUBSET Lines : WriteGPIP(n, v) \/ WriteAER(n, v) \/ WriteDDR(n, v)
        \/ \E l \in Lines, high \in BOOLEAN : AccessDevice(n, l, high)
        \/ \E hs \in SUBSET PolledLines : ReadGPIP(n, hs)
        \/ ResetInstruction(n)
  BY DEF Instruction
<1>2. n \in 0 .. MaxAge /\ n \in Ages
  BY CpuAssumption, MaxAgeAssumption DEF Ages, Never
<1>3. Good(mfp) /\ Good(Aged(n)) /\ Aged(n) \in Shape
  BY <1>2, PassFacts DEF IInv, Aged, Passive, Good
<1>4. ASSUME NEW m, Execute(n, m), EdgesOf(m, Aged(n)) \/ Still(m, Aged(n))
      PROVE  EdgesOf(mfp', mfp)
  <2>1. EdgesOf(m, Aged(n))
    BY <1>4, StillEdges
  <2> QED BY <1>3, <1>4, <2>1, EdgesAfterTime DEF Aged, Execute
<1>5. CASE OtherInstruction(n) \/ \E l \in IntMasks : WriteSR(n, l)
  <2>1. Still(Aged(n), Aged(n))
    BY DEF Still
  <2> QED BY <1>4, <1>5, <2>1 DEF OtherInstruction, WriteSR
<1>6. ASSUME NEW t \in 0 .. n, NEW half \in Halves, NEW v \in RegisterValues,
             \/ WriteIER(n, half, v, t) \/ WriteIPR(n, half, v, t)
             \/ WriteISR(n, half, v, t) \/ WriteIMR(n, half, v, t)
      PROVE  EdgesOf(mfp', mfp)
  <2>1. half \in SUBSET Channels /\ v \in SUBSET Channels /\ TRUE \in BOOLEAN
    BY CpuAssumption DEF Halves, HalfA, HalfB
  <2> QED BY <1>3, <1>4, <1>6, <2>1, WriteStill DEF WriteIER, WriteIPR, WriteISR, WriteIMR
<1>7. ASSUME NEW t \in 0 .. n, NEW sei \in SeiModes, WriteVR(n, sei, t)
      PROVE  EdgesOf(mfp', mfp)
  <2>1. sei \in BOOLEAN /\ {} \in SUBSET Channels
    BY CpuAssumption
  <2> QED BY <1>3, <1>4, <1>7, <2>1, WriteStill DEF WriteVR
<1>8. ASSUME NEW v \in SUBSET Lines, WriteGPIP(n, v) \/ WriteAER(n, v) \/ WriteDDR(n, v)
      PROVE  EdgesOf(mfp', mfp)
  BY <1>2, <1>3, <1>4, <1>8, PortWriteEdges DEF WriteGPIP, WriteAER, WriteDDR
<1>9. ASSUME NEW l \in Lines, NEW high \in BOOLEAN, AccessDevice(n, l, high)
      PROVE  EdgesOf(mfp', mfp)
  BY <1>2, <1>3, <1>4, <1>9, LineEdges DEF AccessDevice
<1>10. ASSUME NEW hs \in SUBSET PolledLines, ReadGPIP(n, hs)
       PROVE  Refresh
  BY <1>10 DEF Refresh
<1>11. CASE ResetInstruction(n)
  BY <1>11, ResetEdges DEF ResetInstruction
<1> QED BY <1>1, <1>5, <1>6, <1>7, <1>8, <1>9, <1>10, <1>11

(* Every step but that and a restore. *)
LEMMA StepEdges ==
  ASSUME IInv, Next
  PROVE  RestoreSnapshot \/ Refresh \/ EdgesOf(mfp', mfp)
<1>1. Good(mfp) /\ late \in 0 .. MaxAge /\ EdgesOf(mfp, mfp)
  BY StillEdges DEF IInv, Still
<1>2. ASSUME NEW c \in Channels \ Lines, NEW delay \in 0 .. late, ChannelInput(c, delay)
      PROVE  EdgesOf(mfp', mfp)
  <2> DEFINE m == mfp
  <2> DEFINE r == MFP_InputOnChannel(m, c, delay)
  <2>1. mfp' = r /\ m \in Shape
    BY <1>1, <1>2 DEF ChannelInput, Good
  <2> HIDE DEF m
  <2>2. r.GPIP = m.GPIP /\ r.AER = m.AER /\ r.IPR \subseteq m.IPR \cup {c}
    BY <2>1 DEF MFP_InputOnChannel, Shape
  <2> HIDE DEF r
  <2>3. EdgesOf(r, m)
    BY <2>2 DEF EdgesOf, Edge, ActiveLevel
  <2> QED BY <2>1, <2>3 DEF m
<1>3. ASSUME NEW l \in Lines, NEW high \in BOOLEAN, LineInput(l, high)
      PROVE  EdgesOf(mfp', mfp)
  <2>1. 0 \in Ages
    BY MaxAgeAssumption DEF Ages, Never
  <2> QED BY <1>1, <1>3, <2>1, LineEdges DEF LineInput
<1>4. CASE (\E l \in AutoLevels : VideoInterrupt(l)) \/ NextInstruction \/ SaveSnapshot
  BY <1>1, <1>4 DEF VideoInterrupt, NextInstruction, SaveSnapshot
<1>5. CASE DoSpecialties \/ AcknowledgeVideo
  BY <1>1, <1>5, LoopStill, StillEdges DEF DoSpecialties, AcknowledgeVideo
<1>6. CASE StartException
  <2>1. EdgesOf(PassTime(mfp, IackLength), PassTime(mfp, IackLength))
    BY StillEdges DEF Still
  <2> QED BY <1>1, <1>6, <2>1, EdgesAfterTime DEF StartException
<1>7. CASE AcknowledgeMFP
  BY <1>1, <1>7, IackStill, StillEdges DEF AcknowledgeMFP
<1>8. CASE ResetMachine
  BY <1>8, ResetEdges DEF ResetMachine
<1> QED BY <1>2, <1>3, <1>4, <1>5, <1>6, <1>7, <1>8, InstructionEdges
        DEF Next, Device, CpuLoop, User

(* The pending bit of an enabled line rises exactly with its active edges, *)
(* whatever the program writes to AER, DDR and GPIP.                       *)
THEOREM EdgesAreExact == Spec => EdgesExactly
<1>1. Init => IInv
  BY InitGood
<1>2. IInv /\ [Next]_vars => IInv'
  BY StepGood
<1>3. IInv /\ [Next]_vars =>
        [\A l \in Lines \cap mfp'.IER \cap mfp.IER :
           ~RestoreSnapshot /\ ~Refresh =>
           LET edge == ~ActiveLevel(mfp, l) /\ ActiveLevel(mfp', l) /\ l \notin mfp'.DDR
           IN  (edge => l \in mfp'.IPR) /\ (l \in mfp'.IPR \ mfp.IPR => edge)]_vars
  BY StepEdges DEF EdgesOf, Edge
<1> QED BY <1>1, <1>2, <1>3, PTL DEF Spec, EdgesExactly
=============================================================================
