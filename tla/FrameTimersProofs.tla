-------------------------- MODULE FrameTimersProofs --------------------------
(***************************************************************************)
(* Proofs of the properties of module FrameTimersSpec, for every value of  *)
(* its constants that is ordered as the timings of video.h are.            *)
(*                                                                         *)
(* The proofs speak of the time that an entry has left and of the position *)
(* at which it is due on the current line ("On"), which only the calls of  *)
(* the handlers and a change of the line's length move.  The invariant     *)
(* FrameInv says: AUTOSEND is in use and near enough for the search to     *)
(* find an entry (Works); the entries in use are those of the line (Chain) *)
(* and on the last line the HBL comes first (Order); in a frame that       *)
(* started as it should, the HBL and the VBL are where they belong (Grid)  *)
(* and the end of the line is between the last position at which the       *)
(* length of the line may change and its HBL (Lines).  A lemma follows for *)
(* every step.                                                             *)
(***************************************************************************)
EXTENDS FrameTimersSpec, CycIntLemmas

(* Internal cycles of a position, and of the period of AUTOSEND. *)
Conv(x) == INT_CONVERT_TO_INTERNAL(x, "CPU")
Limit == INT_CONVERT_TO_INTERNAL(AutoSendCycles, "CPU8")

-----------------------------------------------------------------------------
(* Units. *)

LEMMA ConvType == \A x \in Int : Conv(x) \in Int
BY FactorAssumption DEF Conv, INT_CONVERT_TO_INTERNAL

LEMMA ConvNat == \A x \in Nat : Conv(x) \in Nat
<1>1. INT_CPU_TO_INTERNAL \in Nat
  BY FactorAssumption
<1> QED BY <1>1 DEF Conv, INT_CONVERT_TO_INTERNAL

LEMMA ConvAdds ==
  ASSUME NEW x \in Int, NEW y \in Int, NEW z, z = x + y
  PROVE  Conv(z) \in Int /\ Conv(x) \in Int /\ Conv(y) \in Int /\ Conv(z) = Conv(x) + Conv(y)
<1>1. INT_CPU_TO_INTERNAL \in Int
  BY FactorAssumption
<1> QED BY <1>1 DEF Conv, INT_CONVERT_TO_INTERNAL

LEMMA ConvLess == \A x, y \in Int : (x < y <=> Conv(x) < Conv(y)) /\ (x <= y <=> Conv(x) <= Conv(y))
<1>1. INT_CPU_TO_INTERNAL \in Int /\ INT_CPU_TO_INTERNAL > 0
  BY FactorAssumption
<1>2. ASSUME NEW x \in Int, NEW y \in Int, x < y
      PROVE  Conv(x) < Conv(y)
  <2>1. y - x \in Nat /\ y - x > 0
    BY <1>2
  <2>2. (y - x) * INT_CPU_TO_INTERNAL > 0
    BY <1>1, <2>1
  <2> QED BY <1>1, <2>2 DEF Conv, INT_CONVERT_TO_INTERNAL
<1>3. \A x, y \in Int : x = y \/ x < y \/ y < x
  OBVIOUS
<1>4. \A x \in Int : Conv(x) \in Int
  BY ConvType
<1> HIDE DEF Conv
<1> QED BY <1>2, <1>3, <1>4

LEMMA ConvZero == Conv(0) = 0
BY FactorAssumption DEF Conv, INT_CONVERT_TO_INTERNAL

LEMMA LimitType == Limit \in Nat
<1>1. INT_CPU_TO_INTERNAL \in Nat /\ FreqFactor \in Nat /\ AutoSendCycles \in Nat
  BY FactorAssumption, FrameTimingsAssumption DEF FreqFactor
<1> QED BY <1>1 DEF Limit, INT_CONVERT_TO_INTERNAL

-----------------------------------------------------------------------------
(* The entries. *)
LEMMA Entries ==
  /\ INTERRUPT_VIDEO_VBL \in Handlers /\ INTERRUPT_VIDEO_HBL \in Handlers
  /\ INTERRUPT_VIDEO_ENDLINE \in Handlers /\ INTERRUPT_IKBD_AUTOSEND \in Handlers
  /\ INTERRUPT_VIDEO_VBL \in InterruptId /\ INTERRUPT_VIDEO_HBL \in InterruptId
  /\ INTERRUPT_VIDEO_ENDLINE \in InterruptId /\ INTERRUPT_IKBD_AUTOSEND \in InterruptId
  /\ INTERRUPT_VIDEO_VBL # INTERRUPT_VIDEO_HBL
  /\ INTERRUPT_VIDEO_VBL # INTERRUPT_VIDEO_ENDLINE
  /\ INTERRUPT_VIDEO_VBL # INTERRUPT_IKBD_AUTOSEND
  /\ INTERRUPT_VIDEO_HBL # INTERRUPT_VIDEO_ENDLINE
  /\ INTERRUPT_VIDEO_HBL # INTERRUPT_IKBD_AUTOSEND
  /\ INTERRUPT_VIDEO_ENDLINE # INTERRUPT_IKBD_AUTOSEND
<1>1. /\ INTERRUPT_VIDEO_VBL \in Handlers /\ INTERRUPT_VIDEO_HBL \in Handlers
      /\ INTERRUPT_VIDEO_ENDLINE \in Handlers /\ INTERRUPT_IKBD_AUTOSEND \in Handlers
  BY FrameEntriesAssumption
<1>2. /\ INTERRUPT_VIDEO_VBL \in Nat /\ INTERRUPT_VIDEO_HBL \in Nat
      /\ INTERRUPT_VIDEO_ENDLINE \in Nat /\ INTERRUPT_IKBD_AUTOSEND \in Nat
  BY <1>1, HandlersAssumption
<1>3. /\ INTERRUPT_VIDEO_VBL < INTERRUPT_VIDEO_HBL
      /\ INTERRUPT_VIDEO_HBL < INTERRUPT_VIDEO_ENDLINE
      /\ INTERRUPT_VIDEO_ENDLINE < INTERRUPT_IKBD_AUTOSEND
  BY FrameEntriesAssumption
<1> QED BY <1>1, <1>2, <1>3 DEF InterruptId

(* Lengths and positions. *)
LEMMA Timings ==
  /\ \A f \in Freq : /\ SCANLINES_PER_FRAME[f] \in Nat /\ SCANLINES_PER_FRAME[f] >= 2
                     /\ CYCLES_PER_LINE[f] \in Nat /\ CYCLES_PER_LINE[f] > 0
                     /\ LINE_END_CYCLE[f] \in Nat /\ LINE_END_CYCLE[f] > 0
  /\ \A f \in {50, 60} : RestartVideoCounter_Line[f] \in Nat
  /\ RestartVideoCounter_Pos \in Nat /\ Line_Set_Pal \in Nat
  /\ VblVideoCycleOffset \in Nat /\ AutoSendCycles \in Nat
<1>1. {50, 60} \subseteq Freq
  BY DEF Freq
<1> QED BY <1>1, FrameTimingsAssumption

LEMMA FreqType ==
  \A v \in VideoState : /\ FreqHz(v) \in Freq /\ FreqHz(v) \in LineFreqs(v)
                        /\ LineFreqs(v) \subseteq Freq
                        /\ v.freq \in Freq
                        /\ ~v.bUseHighRes => FreqHz(v) \in {50, 60} /\ LineFreqs(v) = {50, 60}
                                             /\ FreqHz(v) = v.freq /\ v.freq \in {50, 60}
                        /\ v.bUseHighRes => FreqHz(v) = 71 /\ LineFreqs(v) = {71}
BY DEF VideoState, FreqHz, LineFreqs, Freq

-----------------------------------------------------------------------------
(* The machine: an entry is in use or not, and has some time left. *)

Machine == [cyc : SchedulerState, vid : VideoState]
Time(s, h) == TimeOf(s.cyc, h)
Kept(s, t, h) == InUse(t, h) = InUse(s, h) /\ Time(t, h) = Time(s, h)
Placed(t, h, time) == InUse(t, h) = TRUE /\ Time(t, h) = time

(* AUTOSEND is always there for the search to find. *)
Works(s) ==
  /\ s \in Machine
  /\ Chosen(s.cyc)
  /\ InUse(s, INTERRUPT_IKBD_AUTOSEND)
  /\ s.cyc.Cycles[INTERRUPT_IKBD_AUTOSEND] <= Limit

LEMMA MachineFacts ==
  ASSUME NEW s \in Machine
  PROVE  /\ s.cyc \in SchedulerState /\ s.vid \in VideoState
         /\ s.cyc.PendingInterruptCount \in Int
         /\ s.cyc.PendingInterruptFunction \in InterruptId
         /\ s.cyc.ActiveInterrupt \in InterruptId
         /\ Behind(s.cyc) \in Int
         /\ \A h \in InterruptId : /\ InUse(s, h) \in BOOLEAN /\ s.cyc.Cycles[h] \in Int
                                   /\ Time(s, h) \in Int
<1>1. s.cyc \in SchedulerState /\ s.vid \in VideoState
  BY DEF Machine
<1>2. /\ s.cyc.PendingInterruptCount \in Int /\ s.cyc.ActiveInterrupt \in InterruptId
      /\ s.cyc.PendingInterruptFunction \in InterruptId
      /\ \A h \in InterruptId : s.cyc.bUsed[h] \in BOOLEAN /\ s.cyc.Cycles[h] \in Int
  BY <1>1 DEF SchedulerState
<1>3. Behind(s.cyc) \in Int
  BY <1>2 DEF Behind, Elapsed
<1>4. ASSUME NEW h \in InterruptId PROVE Time(s, h) \in Int
  BY <1>2, <1>3 DEF Time, TimeOf
<1> QED BY <1>1, <1>2, <1>3, <1>4 DEF InUse

LEMMA VideoFacts ==
  ASSUME NEW v \in VideoState
  PROVE  /\ v.nHBL \in Nat /\ v.nScanlinesPerFrame \in Nat /\ v.nCyclesPerLine \in Nat
         /\ v.StartCycle \in Nat /\ v.HBL_CyclePos \in Nat /\ v.FrameCycles \in Nat
         /\ v.RestartVideoCounter \in BOOLEAN /\ v.bUseHighRes \in BOOLEAN
         /\ v.bUseVDIRes \in BOOLEAN /\ v.events \in Int /\ v.sincePoll \in Nat
BY DEF VideoState

LEMMA WorksFacts ==
  ASSUME NEW s, Works(s)
  PROVE  /\ s \in Machine
         /\ \A h \in InterruptId : Time(s, h) <= s.cyc.Cycles[h]
         /\ Time(s, INTERRUPT_IKBD_AUTOSEND) <= Limit
<1>1. s \in Machine /\ Behind(s.cyc) \in Nat
  BY DEF Works, Chosen
<1>2. ASSUME NEW h \in InterruptId
      PROVE  Time(s, h) <= s.cyc.Cycles[h]
  BY <1>1, MachineFacts DEF Time, TimeOf
<1>3. s.cyc.Cycles[INTERRUPT_IKBD_AUTOSEND] <= Limit
  BY DEF Works
<1>4. Time(s, INTERRUPT_IKBD_AUTOSEND) <= Limit
  BY <1>1, <1>2, <1>3, MachineFacts, Entries, LimitType
<1> QED BY <1>1, <1>2, <1>4

(* After a search, the time an entry has left is in the table. *)
LEMMA FreshWorks ==
  ASSUME NEW t \in Machine, Fresh(t.cyc), InUse(t, INTERRUPT_IKBD_AUTOSEND),
         Time(t, INTERRUPT_IKBD_AUTOSEND) <= Limit
  PROVE  Works(t)
<1>1. Chosen(t.cyc)
      /\ TimeOf(t.cyc, INTERRUPT_IKBD_AUTOSEND) = t.cyc.Cycles[INTERRUPT_IKBD_AUTOSEND]
  BY FreshIsChosen, Entries
<1> QED BY <1>1 DEF Works, Time

LEMMA AddDoes ==
  ASSUME NEW s \in Machine, NEW n \in Int, NEW h \in Handlers, NEW t, t = Add(s, n, h)
  PROVE  /\ t \in Machine /\ t.vid = s.vid /\ Fresh(t.cyc)
         /\ Placed(t, h, Conv(n))
         /\ \A g \in InterruptId \ {h} : Kept(s, t, g)
<1> DEFINE c == CycInt_AddRelativeInterrupt(s.cyc, n, "CPU", h)
<1>1. t = [s EXCEPT !.cyc = c]
  BY DEF Add
<1>2. "CPU" \in CycleType /\ s.cyc \in SchedulerState /\ h \in InterruptId
  BY MachineFacts DEF CycleType, InterruptId
<1>3. PICK m : m = INT_CONVERT_TO_INTERNAL(n, "CPU")
  OBVIOUS
<1>4. /\ Fresh(c) /\ c.bUsed[h] /\ c.Cycles[h] = m
      /\ \A g \in InterruptId \ {h} : c.bUsed[g] = s.cyc.bUsed[g] /\ c.Cycles[g] = TimeOf(s.cyc, g)
  BY <1>2, <1>3, AddRelativeEffect
<1> HIDE DEF c
<1>5. \A g \in InterruptId : TimeOf(c, g) = c.Cycles[g]
  BY <1>4, FreshIsChosen
<1>6. c \in SchedulerState /\ c.bUsed[h] \in BOOLEAN
  BY <1>2, <1>4 DEF Fresh, SchedulerState
<1>7. t.cyc = c /\ t.vid = s.vid /\ t \in Machine
  BY <1>1, <1>6 DEF Machine
<1>8. Placed(t, h, Conv(n))
  BY <1>2, <1>3, <1>4, <1>5, <1>6, <1>7 DEF Placed, InUse, Time, Conv
<1> QED BY <1>4, <1>5, <1>7, <1>8 DEF Kept, InUse, Time

(* AUTOSEND fits into the counter of the CPU: 150000 cycles of 8 MHz do,   *)
(* at 16 and 32 MHz they do not.                                           *)
AutoSendFits == Limit < INT_MAX

(* The timings of video.h. *)
RealTimings ==
  /\ AutoSendFits
  /\ AutoSendResets \subseteq {FALSE}
  /\ VblVideoCycleOffset > 0
  /\ \A f \in Freq : Line_Set_Pal < LINE_END_CYCLE[f] /\ LINE_END_CYCLE[f] < CYCLES_PER_LINE[f]
  /\ \A f \in {50, 60} : RestartVideoCounter_Pos <= CYCLES_PER_LINE[f]
  /\ \A f, g \in {50, 60} : /\ LINE_END_CYCLE[f] < CYCLES_PER_LINE[g]
                             /\ RestartVideoCounter_Line[f] # SCANLINES_PER_FRAME[g] - 1

LEMMA AddWorks ==
  ASSUME NEW s, Works(s), NEW n \in Int, NEW h \in Handlers, h # INTERRUPT_IKBD_AUTOSEND,
         NEW t, t = Add(s, n, h)
  PROVE  Works(t)
<1>1. s \in Machine /\ Time(s, INTERRUPT_IKBD_AUTOSEND) <= Limit
      /\ InUse(s, INTERRUPT_IKBD_AUTOSEND)
  BY WorksFacts DEF Works
<1>2. t \in Machine /\ Fresh(t.cyc) /\ Kept(s, t, INTERRUPT_IKBD_AUTOSEND)
  BY <1>1, AddDoes, Entries
<1>3. InUse(t, INTERRUPT_IKBD_AUTOSEND) /\ Time(t, INTERRUPT_IKBD_AUTOSEND) <= Limit
  BY <1>1, <1>2 DEF Kept
<1> QED BY <1>2, <1>3, FreshWorks

LEMMA ActiveFacts ==
  ASSUME AutoSendFits, NEW s, Works(s)
  PROVE  /\ INTERRUPT_IKBD_AUTOSEND \in Candidates(s.cyc)
         /\ s.cyc.ActiveInterrupt \in Handlers /\ s.cyc.ActiveInterrupt \in InterruptId
         /\ s.cyc.ActiveInterrupt > 0
         /\ s.cyc.PendingInterruptFunction = s.cyc.ActiveInterrupt
         /\ InUse(s, s.cyc.ActiveInterrupt)
         /\ s.cyc.PendingInterruptCount = Time(s, s.cyc.ActiveInterrupt)
         /\ \A h \in Handlers : InUse(s, h) => Time(s, s.cyc.ActiveInterrupt) <= Time(s, h)
         /\ \A h \in InterruptId : InUse(s, h) => CyclesLeft(s.cyc, h) = Time(s, h)
<1>1. /\ s \in Machine /\ Chosen(s.cyc) /\ InUse(s, INTERRUPT_IKBD_AUTOSEND)
      /\ s.cyc.Cycles[INTERRUPT_IKBD_AUTOSEND] <= Limit
  BY DEF Works
<1>2. INTERRUPT_IKBD_AUTOSEND \in Candidates(s.cyc)
  <2>1. s.cyc.Cycles[INTERRUPT_IKBD_AUTOSEND] \in Int
    BY <1>1, MachineFacts, Entries
  <2> QED BY <1>1, <2>1, Entries, LimitType, IntMaxAssumption DEF AutoSendFits, Candidates, InUse
<1>3. PICK c : c = s.cyc
  OBVIOUS
<1>4. /\ c.ActiveInterrupt \in Handlers
      /\ c.ActiveInterrupt \in InterruptId
      /\ c.ActiveInterrupt > 0
      /\ c.PendingInterruptFunction = c.ActiveInterrupt
      /\ c.bUsed[c.ActiveInterrupt]
      /\ Behind(c) = Elapsed(c)
      /\ TimeOf(c, c.ActiveInterrupt) = c.PendingInterruptCount
      /\ \A h \in Handlers : c.bUsed[h] => c.PendingInterruptCount <= TimeOf(c, h)
  BY <1>1, <1>2, <1>3, ChosenFacts
<1>5. \A h \in InterruptId : c.bUsed[h] => CyclesLeft(c, h) = TimeOf(c, h)
  BY <1>4 DEF CyclesLeft, TimeOf
<1> QED BY <1>2, <1>3, <1>4, <1>5 DEF InUse, Time

LEMMA DueFacts ==
  ASSUME AutoSendFits, Works(st), NEW h, Due(h)
  PROVE  /\ st.cyc.ActiveInterrupt = h /\ h \in Handlers /\ h \in InterruptId
         /\ InUse(st, h) /\ Time(st, h) <= 0
         /\ st.cyc.PendingInterruptCount = Time(st, h)
         /\ \A g \in Handlers : InUse(st, g) => Time(st, h) <= Time(st, g)
<1>1. st.cyc.PendingInterruptFunction = h /\ st.cyc.PendingInterruptCount <= 0
  BY DEF Due, HandlerIsDue
<1> QED BY <1>1, ActiveFacts

LEMMA AcknowledgeDoes ==
  ASSUME AutoSendFits, NEW s, Works(s), NEW h, h = s.cyc.ActiveInterrupt, NEW t, t = Acknowledge(s)
  PROVE  /\ t \in Machine /\ t.vid = s.vid /\ Fresh(t.cyc)
         /\ InUse(t, h) = FALSE /\ Time(t, h) = Time(s, h)
         /\ \A g \in InterruptId \ {h} : Kept(s, t, g)
         /\ h # INTERRUPT_IKBD_AUTOSEND => Works(t)
<1> DEFINE c == CycInt_AcknowledgeInterrupt(s.cyc)
<1>1. t = [s EXCEPT !.cyc = c]
  BY DEF Acknowledge
<1>2. s \in Machine /\ s.cyc \in SchedulerState /\ s.cyc.ActiveInterrupt > 0 /\ h \in InterruptId
  BY ActiveFacts, MachineFacts DEF Works
<1>3. /\ Fresh(c) /\ ~c.bUsed[h]
      /\ \A g \in InterruptId \ {h} : c.bUsed[g] = s.cyc.bUsed[g]
      /\ \A g \in InterruptId : c.Cycles[g] = TimeOf(s.cyc, g)
  BY <1>2, AcknowledgeEffect
<1> HIDE DEF c
<1>4. \A g \in InterruptId : TimeOf(c, g) = c.Cycles[g]
  BY <1>3, FreshIsChosen
<1>5. c \in SchedulerState /\ c.bUsed[h] \in BOOLEAN
  BY <1>2, <1>3 DEF Fresh, SchedulerState
<1>6. t.cyc = c /\ t.vid = s.vid /\ t \in Machine
  BY <1>1, <1>2, <1>5 DEF Machine
<1>7. /\ InUse(t, h) = FALSE /\ Time(t, h) = Time(s, h)
      /\ \A g \in InterruptId \ {h} : Kept(s, t, g)
  BY <1>2, <1>3, <1>4, <1>5, <1>6 DEF Kept, InUse, Time
<1>8. ASSUME h # INTERRUPT_IKBD_AUTOSEND PROVE Works(t)
  <2>1. Kept(s, t, INTERRUPT_IKBD_AUTOSEND) /\ InUse(s, INTERRUPT_IKBD_AUTOSEND)
        /\ Time(s, INTERRUPT_IKBD_AUTOSEND) <= Limit
    BY <1>7, <1>8, Entries, WorksFacts DEF Works
  <2>2. InUse(t, INTERRUPT_IKBD_AUTOSEND) /\ Time(t, INTERRUPT_IKBD_AUTOSEND) <= Limit
    BY <2>1 DEF Kept
  <2> QED BY <1>3, <1>6, <2>2, FreshWorks
<1> QED BY <1>3, <1>6, <1>7, <1>8

-----------------------------------------------------------------------------
(* Positions on the current line, in internal cycles. *)

On(s, h) == Time(s, h) + Conv(s.vid.FrameCycles) - Conv(s.vid.StartCycle)

LEMMA OnFacts ==
  ASSUME NEW s \in Machine, NEW h \in InterruptId
  PROVE  /\ On(s, h) \in Int
         /\ Conv(s.vid.FrameCycles) \in Nat /\ Conv(s.vid.StartCycle) \in Nat
         /\ Time(s, h) = On(s, h) - Conv(s.vid.FrameCycles) + Conv(s.vid.StartCycle)
<1>1. s.vid.FrameCycles \in Nat /\ s.vid.StartCycle \in Nat /\ Time(s, h) \in Int
  BY MachineFacts, VideoFacts
<1> QED BY <1>1, ConvNat DEF On

LEMMA OnKept ==
  ASSUME NEW s, NEW t, NEW h, Kept(s, t, h), t.vid.FrameCycles = s.vid.FrameCycles,
         t.vid.StartCycle = s.vid.StartCycle
  PROVE  On(t, h) = On(s, h)
BY DEF Kept, On

(* Video_AddInterrupt, on the current line. *)
AddedAt(s, t, h, position) ==
  /\ t \in Machine /\ t.vid = s.vid /\ Fresh(t.cyc)
  /\ InUse(t, h) = TRUE /\ On(t, h) = position
  /\ \A g \in InterruptId \ {h} : Kept(s, t, g)
  /\ Works(s) => Works(t)

LEMMA AddInterruptDoes ==
  ASSUME NEW s \in Machine, s.vid.nHBL < s.vid.nScanlinesPerFrame,
         NEW Line \in Int, Line <= s.vid.nHBL,
         NEW Pos \in Int, NEW h \in Handlers, h # INTERRUPT_IKBD_AUTOSEND,
         NEW t, t = Video_AddInterrupt(s, Line, Pos, h)
  PROVE  AddedAt(s, t, h, Conv(Pos))
<1>1. /\ s.vid.nHBL \in Nat /\ s.vid.nScanlinesPerFrame \in Nat /\ s.vid.StartCycle \in Nat
      /\ s.vid.FrameCycles \in Nat
  BY MachineFacts, VideoFacts
<1>2. PICK k \in Int, n \in Int : k = Pos + s.vid.StartCycle /\ n = k - s.vid.FrameCycles
  BY <1>1
<1>3. t = Add(s, n, h)
  BY <1>1, <1>2 DEF Video_AddInterrupt, LineStart
<1>4. /\ t \in Machine /\ t.vid = s.vid /\ Fresh(t.cyc) /\ Placed(t, h, Conv(n))
      /\ \A g \in InterruptId \ {h} : Kept(s, t, g)
  BY <1>3, AddDoes
<1>5. Conv(n) = Conv(Pos) + Conv(s.vid.StartCycle) - Conv(s.vid.FrameCycles)
  <2>0. PICK a \in Int, b \in Int : a = s.vid.StartCycle /\ b = s.vid.FrameCycles
    BY <1>1
  <2>1. Conv(k) = Conv(n) + Conv(b) /\ Conv(n) \in Int /\ Conv(b) \in Int
    <3>1. k = n + b
      BY <1>2, <2>0
    <3> QED BY ONLY <3>1, k \in Int, n \in Int, b \in Int, ConvAdds
  <2>2. Conv(k) = Conv(Pos) + Conv(a) /\ Conv(Pos) \in Int /\ Conv(a) \in Int
    BY ONLY Pos \in Int, <1>2, <2>0, ConvAdds
  <2> QED BY <2>0, <2>1, <2>2
<1>6. On(t, h) = Conv(Pos) /\ InUse(t, h) = TRUE
  <2>1. Conv(Pos) \in Int /\ Conv(s.vid.StartCycle) \in Int /\ Conv(s.vid.FrameCycles) \in Int
    BY <1>1, ConvType
  <2>2. Time(t, h) = Conv(n) /\ InUse(t, h) = TRUE
    BY <1>4 DEF Placed
  <2>3. On(t, h) = Conv(n) + Conv(s.vid.FrameCycles) - Conv(s.vid.StartCycle)
    BY <1>4, <2>2 DEF On
  <2> QED BY <1>5, <2>1, <2>2, <2>3
<1>7. ASSUME Works(s) PROVE Works(t)
  BY <1>2, <1>3, <1>7, AddWorks
<1> QED BY <1>4, <1>6, <1>7 DEF AddedAt

LEMMA AddHBLDoes ==
  ASSUME NEW s \in Machine, s.vid.nHBL < s.vid.nScanlinesPerFrame, ~s.vid.bUseVDIRes,
         NEW Line \in Int, Line <= s.vid.nHBL,
         NEW Pos \in Int, NEW t, t = Video_AddInterruptHBL(s, Line, Pos)
  PROVE  AddedAt(s, t, INTERRUPT_VIDEO_HBL, Conv(Pos))
<1>1. t = Video_AddInterrupt(s, Line, Pos, INTERRUPT_VIDEO_HBL)
  BY DEF Video_AddInterruptHBL
<1>2. PICK h \in Handlers : h = INTERRUPT_VIDEO_HBL /\ h # INTERRUPT_IKBD_AUTOSEND
  BY Entries
<1> QED BY <1>1, <1>2, AddInterruptDoes

LEMMA AddTimerBDoes ==
  ASSUME NEW s \in Machine, s.vid.nHBL < s.vid.nScanlinesPerFrame, ~s.vid.bUseVDIRes,
         NEW Line \in Int, Line <= s.vid.nHBL, NEW Cycle \in Int,
         NEW Pos \in Int, Cycle < Pos,
         NEW t, t = Video_AddInterruptTimerB(s, Line, Cycle, Pos)
  PROVE  AddedAt(s, t, INTERRUPT_VIDEO_ENDLINE, Conv(Pos))
<1>1. t = Video_AddInterrupt(s, Line, Pos, INTERRUPT_VIDEO_ENDLINE)
  BY DEF Video_AddInterruptTimerB
<1>2. PICK h \in Handlers : h = INTERRUPT_VIDEO_ENDLINE /\ h # INTERRUPT_IKBD_AUTOSEND
  BY Entries
<1> QED BY <1>1, <1>2, AddInterruptDoes

(* The changes of the video state alone. *)
WithVideo(s, v) == [s EXCEPT !.vid = v]

LEMMA VideoOnly ==
  ASSUME NEW s \in Machine, NEW v \in VideoState, NEW t, t = WithVideo(s, v)
  PROVE  /\ t \in Machine /\ t.vid = v /\ t.cyc = s.cyc
         /\ \A h \in InterruptId : Kept(s, t, h)
<1>1. t \in Machine /\ t.vid = v /\ t.cyc = s.cyc
  BY DEF Machine, WithVideo
<1> QED BY <1>1 DEF Kept, InUse, Time

LEMMA VideoOnlyWorks ==
  ASSUME NEW s, Works(s), NEW v \in VideoState, NEW t, t = WithVideo(s, v)
  PROVE  Works(t)
<1>1. s \in Machine
  BY DEF Works
<1>2. t \in Machine /\ t.cyc = s.cyc
  BY <1>1, VideoOnly
<1> QED BY <1>2 DEF Works, InUse

(* The fields that the frame's invariant speaks of, but for the time. *)
SameLine(v, w) ==
  /\ w.nHBL = v.nHBL /\ w.nScanlinesPerFrame = v.nScanlinesPerFrame
  /\ w.nCyclesPerLine = v.nCyclesPerLine /\ w.StartCycle = v.StartCycle
  /\ w.HBL_CyclePos = v.HBL_CyclePos /\ w.RestartVideoCounter = v.RestartVideoCounter
  /\ w.bUseHighRes = v.bUseHighRes /\ w.bUseVDIRes = v.bUseVDIRes /\ w.events = v.events

(* An instruction brings the position and all entries forward together.    *)
LEMMA ChargeDoes ==
  ASSUME AutoSendFits, NEW s, Works(s), NEW c \in InstrCycles, NEW t, t = Charge(s, c)
  PROVE  /\ Works(t) /\ SameLine(s.vid, t.vid)
         /\ t.vid.FrameCycles >= s.vid.FrameCycles
         /\ \A h \in InterruptId : InUse(t, h) = InUse(s, h)
         /\ \A h \in InterruptId : InUse(s, h) => On(t, h) = On(s, h)
         /\ \E d \in Nat : /\ Conv(t.vid.sincePoll) = Conv(s.vid.sincePoll) + d
                           /\ \A h \in InterruptId : InUse(s, h) => Time(t, h) = Time(s, h) - d
<1>1. c \in Nat /\ RoundUpTo4(c) \in Nat
  BY InstrAssumption, ChargeType
<1>2. PICK n \in Nat, d \in Nat : n = RoundUpTo4(c) /\ d = INT_CONVERT_TO_INTERNAL(RoundUpTo4(c), "CPU")
  BY <1>1, ChargeType
<1>3. PICK x : x = M68000_AddCycles(s.cyc, c)
  OBVIOUS
<1>4. /\ s \in Machine /\ Chosen(s.cyc) /\ INTERRUPT_IKBD_AUTOSEND \in Candidates(s.cyc)
      /\ InUse(s, INTERRUPT_IKBD_AUTOSEND) /\ s.cyc.Cycles[INTERRUPT_IKBD_AUTOSEND] <= Limit
  BY ActiveFacts DEF Works
<1>5. /\ Chosen(x) /\ x.bUsed = s.cyc.bUsed /\ x.Cycles = s.cyc.Cycles
      /\ \A h \in InterruptId : s.cyc.bUsed[h] => TimeOf(x, h) = TimeOf(s.cyc, h) - d
  BY <1>1, <1>2, <1>3, <1>4, ChargeEffect
<1>6. t = [s EXCEPT !.cyc = x, !.vid.FrameCycles = @ + n, !.vid.sincePoll = @ + n]
  BY <1>2, <1>3 DEF Charge
<1>7. x \in SchedulerState
  BY <1>5 DEF Chosen
<1>8. s.vid \in VideoState /\ s.vid.FrameCycles \in Nat /\ s.vid.sincePoll \in Nat
      /\ s.vid.StartCycle \in Nat
  BY <1>4, MachineFacts, VideoFacts
<1>9. /\ t.cyc = x /\ t.vid = [s.vid EXCEPT !.FrameCycles = s.vid.FrameCycles + n,
                                            !.sincePoll = s.vid.sincePoll + n]
      /\ t = [cyc |-> t.cyc, vid |-> t.vid]
  BY <1>4, <1>6 DEF Machine
<1>10. /\ t.vid \in VideoState /\ SameLine(s.vid, t.vid)
       /\ t.vid.FrameCycles = s.vid.FrameCycles + n /\ t.vid.sincePoll = s.vid.sincePoll + n
  <2> DEFINE v == s.vid
  <2> DEFINE w == t.vid
  <2>1. w = [v EXCEPT !.FrameCycles = v.FrameCycles + n, !.sincePoll = v.sincePoll + n]
    BY <1>9
  <2>2. v \in VideoState /\ v.FrameCycles \in Nat /\ v.sincePoll \in Nat
    BY <1>8
  <2> HIDE DEF v, w
  <2>3. /\ w.nHBL = v.nHBL /\ w.nScanlinesPerFrame = v.nScanlinesPerFrame
        /\ w.nCyclesPerLine = v.nCyclesPerLine /\ w.StartCycle = v.StartCycle
        /\ w.HBL_CyclePos = v.HBL_CyclePos /\ w.RestartVideoCounter = v.RestartVideoCounter
        /\ w.FrameCycles = v.FrameCycles + n /\ w.freq = v.freq
        /\ w.bUseHighRes = v.bUseHighRes /\ w.bUseVDIRes = v.bUseVDIRes
        /\ w.events = v.events /\ w.sincePoll = v.sincePoll + n
    BY <2>1, <2>2 DEF VideoState
  <2>4. w \in VideoState
    <3>1. PICK z \in Nat, y \in Nat : z = v.FrameCycles + n /\ y = v.sincePoll + n
      BY <2>2
    <3>2. w = [v EXCEPT !.FrameCycles = z, !.sincePoll = y]
      BY <2>1, <3>1
    <3> QED BY <2>2, <3>2 DEF VideoState
  <2> QED BY <2>3, <2>4 DEF SameLine, v, w
<1>11. t \in Machine
  BY <1>7, <1>9, <1>10 DEF Machine
<1>12. Works(t)
  BY <1>4, <1>5, <1>9, <1>11 DEF Works, InUse
<1>13. /\ Conv(t.vid.FrameCycles) = Conv(s.vid.FrameCycles) + d
       /\ Conv(t.vid.sincePoll) = Conv(s.vid.sincePoll) + d
  <2>1. d = Conv(n)
    BY <1>2 DEF Conv
  <2>2. n \in Int /\ s.vid.FrameCycles \in Int /\ s.vid.sincePoll \in Int
    BY <1>8
  <2> QED BY <1>10, <2>1, <2>2, ConvAdds
<1>14. \A h \in InterruptId : InUse(s, h) => Time(t, h) = Time(s, h) - d
  BY <1>5, <1>9 DEF InUse, Time
<1>15. \A h \in InterruptId : InUse(s, h) => On(t, h) = On(s, h)
  <2>1. \A h \in InterruptId : Time(s, h) \in Int
    BY <1>4, MachineFacts
  <2>2. Conv(s.vid.FrameCycles) \in Int /\ Conv(s.vid.StartCycle) \in Int
    BY <1>8, ConvType
  <2>3. t.vid.StartCycle = s.vid.StartCycle
    BY <1>10 DEF SameLine
  <2> QED BY <1>13, <1>14, <2>1, <2>2, <2>3 DEF On
<1> QED BY <1>5, <1>8, <1>9, <1>10, <1>12, <1>13, <1>14, <1>15 DEF InUse

-----------------------------------------------------------------------------
(* The invariant. *)

Frame(s) ==
  LET v == s.vid IN
  /\ v.nScanlinesPerFrame >= 2 /\ v.nHBL <= v.nScanlinesPerFrame
  /\ ~v.bUseHighRes =>
       v.nScanlinesPerFrame \in {SCANLINES_PER_FRAME[50], SCANLINES_PER_FRAME[60]}
  /\ v.RestartVideoCounter => /\ v.nHBL > 0 /\ v.nHBL < v.nScanlinesPerFrame - 1
                              /\ RestartVideoCounter_Pos <= v.nCyclesPerLine

(* Which of the chain's entries are in use, on every line. *)
Chain(s) ==
  LET v == s.vid IN
  IF v.bUseVDIRes
  THEN /\ ~InUse(s, INTERRUPT_VIDEO_HBL) /\ InUse(s, INTERRUPT_VIDEO_VBL)
       /\ ~v.RestartVideoCounter
  ELSE /\ InUse(s, INTERRUPT_VIDEO_HBL) <=> v.nHBL < v.nScanlinesPerFrame
       /\ InUse(s, INTERRUPT_VIDEO_VBL) <=> v.nHBL >= v.nScanlinesPerFrame - 1

(* On the last line the HBL comes before the VBL, also in a frame that is  *)
(* late as a whole.                                                        *)
Order(s) ==
  LET v == s.vid IN
  ~v.bUseVDIRes /\ v.nHBL = v.nScanlinesPerFrame - 1 =>
    /\ On(s, INTERRUPT_VIDEO_HBL) < On(s, INTERRUPT_VIDEO_VBL)
    /\ On(s, INTERRUPT_VIDEO_VBL) >= Conv(v.nCyclesPerLine + VblVideoCycleOffset)

Whole(s) == ~s.vid.bUseVDIRes /\ s.vid.events # -1
NextHblPos(v) == IF v.RestartVideoCounter THEN RestartVideoCounter_Pos ELSE v.HBL_CyclePos

Grid(s) ==
  LET v == s.vid IN
  Whole(s) =>
    /\ v.nHBL > 0 /\ v.nHBL < v.nScanlinesPerFrame =>
         On(s, INTERRUPT_VIDEO_HBL) = Conv(NextHblPos(v))
    /\ v.nHBL >= v.nScanlinesPerFrame - 1 =>
         On(s, INTERRUPT_VIDEO_VBL) = Conv(v.nCyclesPerLine + VblVideoCycleOffset)

(* Where the HBL that ends the line is, or will be. *)
LineHbl(s) ==
  IF s.vid.RestartVideoCounter THEN Conv(s.vid.HBL_CyclePos) ELSE On(s, INTERRUPT_VIDEO_HBL)

(* The end of the current line, for timer B, is still to come: before its  *)
(* HBL, and after the length of the line has become final.                 *)
EndToCome(s) ==
  /\ InUse(s, INTERRUPT_VIDEO_ENDLINE)
  /\ On(s, INTERRUPT_VIDEO_ENDLINE) < LineHbl(s)
  /\ On(s, INTERRUPT_VIDEO_ENDLINE) > Conv(Line_Set_Pal)

(* The line has ended: its length is final, and the next end is that of    *)
(* the next line, if there is one.                                         *)
EndPassed(s) ==
  LET v == s.vid IN
  /\ v.FrameCycles - v.StartCycle > Line_Set_Pal
  /\ IF v.nHBL = v.nScanlinesPerFrame - 1 THEN ~InUse(s, INTERRUPT_VIDEO_ENDLINE)
     ELSE /\ InUse(s, INTERRUPT_VIDEO_ENDLINE)
          /\ On(s, INTERRUPT_VIDEO_ENDLINE) >= LineHbl(s)
          /\ \E f \in LineFreqs(v) :
               On(s, INTERRUPT_VIDEO_ENDLINE) = Conv(v.nCyclesPerLine + LINE_END_CYCLE[f])

Lines(s) ==
  LET v == s.vid IN
  Whole(s) =>
    /\ v.HBL_CyclePos = v.nCyclesPerLine
    /\ v.nHBL = 0 =>
         \A f \in LineFreqs(v) :
           On(s, INTERRUPT_VIDEO_HBL) <= Conv(v.nCyclesPerLine + LINE_END_CYCLE[f])
    /\ \/ v.nHBL < v.nScanlinesPerFrame /\ v.events = v.nHBL /\ EndToCome(s)
       \/ v.nHBL < v.nScanlinesPerFrame /\ v.events = v.nHBL + 1 /\ EndPassed(s)
       \/ /\ v.nHBL = v.nScanlinesPerFrame /\ v.events = v.nHBL
          /\ ~InUse(s, INTERRUPT_VIDEO_ENDLINE)

Polled(s) == Conv(s.vid.sincePoll) + Time(s, INTERRUPT_IKBD_AUTOSEND) <= Limit

Video(s) == Frame(s) /\ Chain(s) /\ Order(s) /\ Grid(s) /\ Lines(s)

FrameInv(s) == Works(s) /\ Video(s) /\ Polled(s)

-----------------------------------------------------------------------------
(* Steps that move nothing on the line. *)

VideoEntries == {INTERRUPT_VIDEO_VBL, INTERRUPT_VIDEO_HBL, INTERRUPT_VIDEO_ENDLINE}

Unmoved(s, t) ==
  /\ SameLine(s.vid, t.vid) /\ t.vid.FrameCycles >= s.vid.FrameCycles
  /\ \A h \in VideoEntries : /\ InUse(t, h) = InUse(s, h)
                             /\ InUse(s, h) => On(t, h) = On(s, h)

LEMMA UnmovedVideo ==
  ASSUME NEW s \in Machine, NEW t \in Machine, Unmoved(s, t), Video(s)
  PROVE  Video(t)
<1> DEFINE v == s.vid
<1> DEFINE w == t.vid
<1>1. /\ w.nHBL = v.nHBL /\ w.nScanlinesPerFrame = v.nScanlinesPerFrame
      /\ w.nCyclesPerLine = v.nCyclesPerLine /\ w.StartCycle = v.StartCycle
      /\ w.HBL_CyclePos = v.HBL_CyclePos /\ w.RestartVideoCounter = v.RestartVideoCounter
      /\ w.bUseHighRes = v.bUseHighRes /\ w.bUseVDIRes = v.bUseVDIRes /\ w.events = v.events
      /\ w.FrameCycles >= v.FrameCycles
  BY DEF Unmoved, SameLine
<1>2. /\ InUse(t, INTERRUPT_VIDEO_VBL) = InUse(s, INTERRUPT_VIDEO_VBL)
      /\ InUse(t, INTERRUPT_VIDEO_HBL) = InUse(s, INTERRUPT_VIDEO_HBL)
      /\ InUse(t, INTERRUPT_VIDEO_ENDLINE) = InUse(s, INTERRUPT_VIDEO_ENDLINE)
      /\ InUse(s, INTERRUPT_VIDEO_VBL) => On(t, INTERRUPT_VIDEO_VBL) = On(s, INTERRUPT_VIDEO_VBL)
      /\ InUse(s, INTERRUPT_VIDEO_HBL) => On(t, INTERRUPT_VIDEO_HBL) = On(s, INTERRUPT_VIDEO_HBL)
      /\ InUse(s, INTERRUPT_VIDEO_ENDLINE) =>
           On(t, INTERRUPT_VIDEO_ENDLINE) = On(s, INTERRUPT_VIDEO_ENDLINE)
  BY DEF Unmoved, VideoEntries
<1>3. /\ v.nHBL \in Nat /\ v.nScanlinesPerFrame \in Nat /\ v.StartCycle \in Nat
      /\ v.FrameCycles \in Nat /\ w.FrameCycles \in Nat
  BY MachineFacts, VideoFacts
<1>4. Frame(s) /\ Chain(s) /\ Order(s) /\ Grid(s) /\ Lines(s)
  BY DEF Video
<1>5. Frame(t)
  BY <1>1, <1>4 DEF Frame
<1>6. Chain(t)
  BY <1>1, <1>2, <1>4 DEF Chain
<1>7. /\ ~v.bUseVDIRes /\ v.nHBL < v.nScanlinesPerFrame => InUse(s, INTERRUPT_VIDEO_HBL)
      /\ ~v.bUseVDIRes /\ v.nHBL >= v.nScanlinesPerFrame - 1 => InUse(s, INTERRUPT_VIDEO_VBL)
  BY <1>4 DEF Chain
<1>8. Whole(t) = Whole(s) /\ NextHblPos(w) = NextHblPos(v) /\ LineFreqs(w) = LineFreqs(v)
  BY <1>1 DEF Whole, NextHblPos, LineFreqs
<1>9. Order(t)
  BY <1>1, <1>2, <1>3, <1>4, <1>7 DEF Order
<1>10. Grid(t)
  BY <1>1, <1>2, <1>3, <1>4, <1>7, <1>8 DEF Grid, Whole
<1>11. v.nHBL < v.nScanlinesPerFrame /\ Whole(s) => LineHbl(t) = LineHbl(s)
  BY <1>1, <1>2, <1>7 DEF LineHbl, Whole
<1>12. Lines(t)
  <2>1. Whole(s) /\ v.nHBL < v.nScanlinesPerFrame /\ EndToCome(s) => EndToCome(t)
    BY <1>1, <1>2, <1>11 DEF EndToCome
  <2>2. Whole(s) /\ v.nHBL < v.nScanlinesPerFrame /\ EndPassed(s) => EndPassed(t)
    BY <1>1, <1>2, <1>3, <1>8, <1>11, Timings DEF EndPassed
  <2>3. Whole(s) /\ v.nHBL = 0 => InUse(s, INTERRUPT_VIDEO_HBL)
    BY <1>3, <1>4, <1>7 DEF Frame, Whole
  <2> QED BY <1>1, <1>2, <1>4, <1>8, <2>1, <2>2, <2>3 DEF Lines
<1> QED BY <1>5, <1>6, <1>9, <1>10, <1>12 DEF Video

LEMMA ChargeInv ==
  ASSUME AutoSendFits, NEW s, FrameInv(s), NEW c \in InstrCycles, NEW t, t = Charge(s, c)
  PROVE  FrameInv(t)
<1>1. Works(s) /\ s \in Machine /\ Video(s) /\ Polled(s) /\ InUse(s, INTERRUPT_IKBD_AUTOSEND)
  BY DEF FrameInv, Works
<1>2. PICK d \in Nat :
        /\ Works(t) /\ SameLine(s.vid, t.vid)
        /\ t.vid.FrameCycles >= s.vid.FrameCycles
        /\ \A h \in InterruptId : InUse(t, h) = InUse(s, h)
        /\ \A h \in InterruptId : InUse(s, h) => On(t, h) = On(s, h)
        /\ Conv(t.vid.sincePoll) = Conv(s.vid.sincePoll) + d
        /\ \A h \in InterruptId : InUse(s, h) => Time(t, h) = Time(s, h) - d
  BY <1>1, ChargeDoes
<1>3. t \in Machine
  BY <1>2 DEF Works
<1>4. VideoEntries \subseteq InterruptId
  BY Entries DEF VideoEntries
<1>5. Video(t)
  BY <1>1, <1>2, <1>3, <1>4, UnmovedVideo DEF Unmoved
<1>6. Polled(t)
  <2>1. Time(t, INTERRUPT_IKBD_AUTOSEND) = Time(s, INTERRUPT_IKBD_AUTOSEND) - d
        /\ Time(s, INTERRUPT_IKBD_AUTOSEND) \in Int
    BY <1>1, <1>2, Entries, MachineFacts
  <2>2. Conv(s.vid.sincePoll) \in Int
    BY <1>1, MachineFacts, VideoFacts, ConvType
  <2> QED BY <1>1, <1>2, <2>1, <2>2, LimitType DEF Polled
<1> QED BY <1>2, <1>5, <1>6 DEF FrameInv

-----------------------------------------------------------------------------
(* The program changes the frequency. *)

LEMMA FrequencyChanged ==
  ASSUME NEW s, FrameInv(s), NEW f \in {50, 60}, NEW t, t = [s EXCEPT !.vid.freq = f]
  PROVE  /\ FrameInv(t)
         /\ SameLine(s.vid, t.vid) /\ t.vid.FrameCycles = s.vid.FrameCycles /\ t.vid.freq = f
<1>1. Works(s) /\ s \in Machine /\ Video(s) /\ Polled(s) /\ s.vid \in VideoState
  BY MachineFacts DEF FrameInv, Works
<1>2. PICK w : w = [s.vid EXCEPT !.freq = f]
  OBVIOUS
<1>3. /\ w \in VideoState /\ SameLine(s.vid, w) /\ w.freq = f /\ w.FrameCycles = s.vid.FrameCycles
      /\ w.sincePoll = s.vid.sincePoll
  BY <1>1, <1>2 DEF VideoState, SameLine
<1>4. t = WithVideo(s, w)
  BY <1>2 DEF WithVideo
<1>5. /\ t \in Machine /\ t.vid = w /\ t.cyc = s.cyc /\ Works(t)
      /\ \A h \in InterruptId : Kept(s, t, h)
  <2>1. w \in VideoState
    BY <1>3
  <2>2. /\ t \in Machine /\ t.vid = w /\ t.cyc = s.cyc
        /\ \A h \in InterruptId : Kept(s, t, h)
    BY ONLY <1>1, <2>1, <1>4, VideoOnly
  <2>3. Works(t)
    BY ONLY <1>1, <2>1, <1>4, VideoOnlyWorks
  <2> QED BY <2>2, <2>3
<1>6. \A h \in VideoEntries : InUse(t, h) = InUse(s, h) /\ On(t, h) = On(s, h)
  <2>1. VideoEntries \subseteq InterruptId
    BY Entries DEF VideoEntries
  <2>2. w.StartCycle = s.vid.StartCycle
    BY <1>3 DEF SameLine
  <2> QED BY <1>3, <1>5, <2>1, <2>2 DEF Kept, On
<1>7. Video(t)
  <2>1. s.vid.FrameCycles \in Nat
    BY <1>1, VideoFacts
  <2>2. Unmoved(s, t)
    BY <1>3, <1>5, <1>6, <2>1 DEF Unmoved
  <2> QED BY <1>1, <1>5, <2>2, UnmovedVideo
<1>8. Polled(t)
  BY <1>1, <1>3, <1>5, Entries DEF Polled, Kept
<1> QED BY <1>3, <1>5, <1>7, <1>8 DEF FrameInv

LEMMA ModifyDoes ==
  ASSUME NEW s, Works(s), NEW n \in Int,
         NEW t, t = [s EXCEPT !.cyc = CycInt_ModifyInterrupt(s.cyc, n, "CPU", INTERRUPT_VIDEO_VBL)]
  PROVE  /\ Works(t) /\ t.vid = s.vid
         /\ InUse(t, INTERRUPT_VIDEO_VBL) = InUse(s, INTERRUPT_VIDEO_VBL)
         /\ On(t, INTERRUPT_VIDEO_VBL) = On(s, INTERRUPT_VIDEO_VBL) + Conv(n)
         /\ \A g \in InterruptId \ {INTERRUPT_VIDEO_VBL} : Kept(s, t, g)
<1> DEFINE c == CycInt_ModifyInterrupt(s.cyc, n, "CPU", INTERRUPT_VIDEO_VBL)
<1>1. s \in Machine /\ s.cyc \in SchedulerState /\ "CPU" \in CycleType
  BY MachineFacts DEF Works, CycleType
<1>2. PICK m : m = INT_CONVERT_TO_INTERNAL(n, "CPU")
  OBVIOUS
<1>3. /\ Fresh(c) /\ c.bUsed = s.cyc.bUsed
      /\ c.Cycles[INTERRUPT_VIDEO_VBL] = TimeOf(s.cyc, INTERRUPT_VIDEO_VBL) + m
      /\ \A g \in InterruptId \ {INTERRUPT_VIDEO_VBL} : c.Cycles[g] = TimeOf(s.cyc, g)
  BY <1>1, <1>2, Entries, ModifyEffect
<1>4. t = [s EXCEPT !.cyc = c]
  OBVIOUS
<1> HIDE DEF c
<1>5. /\ c \in SchedulerState /\ \A g \in InterruptId : TimeOf(c, g) = c.Cycles[g]
  BY <1>3, FreshIsChosen DEF Fresh
<1>6. t.cyc = c /\ t.vid = s.vid /\ t \in Machine
  BY <1>1, <1>4, <1>5 DEF Machine
<1>7. \A g \in InterruptId \ {INTERRUPT_VIDEO_VBL} : Kept(s, t, g)
  BY <1>3, <1>5, <1>6 DEF Kept, InUse, Time
<1>8. /\ InUse(t, INTERRUPT_VIDEO_VBL) = InUse(s, INTERRUPT_VIDEO_VBL)
      /\ Time(t, INTERRUPT_VIDEO_VBL) = Time(s, INTERRUPT_VIDEO_VBL) + Conv(n)
  BY <1>2, <1>3, <1>5, <1>6, Entries DEF InUse, Time, Conv
<1>9. On(t, INTERRUPT_VIDEO_VBL) = On(s, INTERRUPT_VIDEO_VBL) + Conv(n)
  <2>1. Conv(n) \in Int /\ Time(s, INTERRUPT_VIDEO_VBL) \in Int
        /\ Conv(s.vid.FrameCycles) \in Int /\ Conv(s.vid.StartCycle) \in Int
    BY <1>1, MachineFacts, Entries, ConvType, VideoFacts
  <2> QED BY <1>6, <1>8, <2>1 DEF On
<1>10. Works(t)
  <2>1. Kept(s, t, INTERRUPT_IKBD_AUTOSEND)
    BY <1>7, Entries
  <2>2. InUse(t, INTERRUPT_IKBD_AUTOSEND) /\ Time(t, INTERRUPT_IKBD_AUTOSEND) <= Limit
    BY <2>1, WorksFacts DEF Works, Kept
  <2> QED BY <1>3, <1>6, <2>2, FreshWorks
<1> QED BY <1>6, <1>7, <1>8, <1>9, <1>10

(* ChangeLine: where the entries are afterwards. *)
WithLength(v, cycles) == [v EXCEPT !.HBL_CyclePos = cycles, !.nCyclesPerLine = cycles]

LineChanged(s, t, v, cycles) ==
  /\ Works(t)
  /\ t.vid = WithLength(v, cycles)
  /\ v.RestartVideoCounter => Kept(s, t, INTERRUPT_VIDEO_HBL)
  /\ ~v.RestartVideoCounter => /\ InUse(t, INTERRUPT_VIDEO_HBL) = TRUE
                               /\ On(t, INTERRUPT_VIDEO_HBL) = Conv(cycles)
  /\ InUse(t, INTERRUPT_VIDEO_VBL) = InUse(s, INTERRUPT_VIDEO_VBL)
  /\ v.nHBL = v.nScanlinesPerFrame - 1 =>
       On(t, INTERRUPT_VIDEO_VBL)
         = On(s, INTERRUPT_VIDEO_VBL) + Conv(cycles) - Conv(v.nCyclesPerLine)
  /\ InUse(t, INTERRUPT_VIDEO_ENDLINE) = TRUE
  /\ On(t, INTERRUPT_VIDEO_ENDLINE) = Conv(LINE_END_CYCLE[v.freq])
  /\ Kept(s, t, INTERRUPT_IKBD_AUTOSEND)

LEMMA ChangeLineDoes ==
  ASSUME RealTimings, NEW s, Works(s), NEW v, v = s.vid,
         ~v.bUseVDIRes, v.nHBL < v.nScanlinesPerFrame, v.freq \in {50, 60},
         LineCycles(v) \in Int, LineCycles(v) <= Line_Set_Pal,
         NEW cycles, cycles = CYCLES_PER_LINE[v.freq],
         NEW t, t = ChangeLine(s)
  PROVE  LineChanged(s, t, v, cycles)
<1>1. /\ s \in Machine /\ v \in VideoState /\ v.nHBL \in Nat /\ v.nScanlinesPerFrame \in Nat
      /\ v.nCyclesPerLine \in Nat /\ v.StartCycle \in Nat /\ v.FrameCycles \in Nat
      /\ v.nHBL \in Int /\ v.nHBL <= v.nHBL
  BY MachineFacts, VideoFacts DEF Works
<1>2. /\ cycles \in Nat /\ cycles \in Int
      /\ LINE_END_CYCLE[v.freq] \in Int /\ LineCycles(v) < LINE_END_CYCLE[v.freq]
  <2>1. v.freq \in Freq
    BY DEF Freq
  <2> QED BY <2>1, Timings DEF RealTimings
<1>3. PICK h : h = IF v.RestartVideoCounter THEN s ELSE Video_AddInterruptHBL(s, v.nHBL, cycles)
  OBVIOUS
<1>4. /\ Works(h) /\ h \in Machine /\ h.vid = v
      /\ v.RestartVideoCounter => h = s
      /\ ~v.RestartVideoCounter => /\ InUse(h, INTERRUPT_VIDEO_HBL) = TRUE
                                   /\ On(h, INTERRUPT_VIDEO_HBL) = Conv(cycles)
      /\ \A g \in InterruptId \ {INTERRUPT_VIDEO_HBL} : Kept(s, h, g)
  <2>1. CASE v.RestartVideoCounter
    BY <1>1, <1>3, <2>1 DEF Kept
  <2>2. CASE ~v.RestartVideoCounter
    <3>1. AddedAt(s, h, INTERRUPT_VIDEO_HBL, Conv(cycles))
      BY <1>1, <1>2, <1>3, <2>2, AddHBLDoes
    <3> QED BY <2>2, <3>1 DEF AddedAt
  <2> QED BY <2>1, <2>2
<1>5. PICK m : m =
        IF v.nHBL = v.nScanlinesPerFrame - 1 /\ v.nCyclesPerLine # cycles
        THEN [h EXCEPT !.cyc = CycInt_ModifyInterrupt(h.cyc, cycles - v.nCyclesPerLine, "CPU",
                                                      INTERRUPT_VIDEO_VBL)]
        ELSE h
  OBVIOUS
<1>6. /\ Works(m) /\ m \in Machine /\ m.vid = v
      /\ InUse(m, INTERRUPT_VIDEO_VBL) = InUse(h, INTERRUPT_VIDEO_VBL)
      /\ v.nHBL = v.nScanlinesPerFrame - 1 =>
           On(m, INTERRUPT_VIDEO_VBL)
             = On(h, INTERRUPT_VIDEO_VBL) + Conv(cycles) - Conv(v.nCyclesPerLine)
      /\ \A g \in InterruptId \ {INTERRUPT_VIDEO_VBL} : Kept(h, m, g)
  <2>1. CASE v.nHBL = v.nScanlinesPerFrame - 1 /\ v.nCyclesPerLine # cycles
    <3>1. PICK n \in Int : n = cycles - v.nCyclesPerLine
      BY <1>1, <1>2
    <3>2. m = [h EXCEPT !.cyc = CycInt_ModifyInterrupt(h.cyc, n, "CPU", INTERRUPT_VIDEO_VBL)]
      BY <1>5, <2>1, <3>1
    <3>3. /\ Works(m) /\ m.vid = h.vid
          /\ InUse(m, INTERRUPT_VIDEO_VBL) = InUse(h, INTERRUPT_VIDEO_VBL)
          /\ On(m, INTERRUPT_VIDEO_VBL) = On(h, INTERRUPT_VIDEO_VBL) + Conv(n)
          /\ \A g \in InterruptId \ {INTERRUPT_VIDEO_VBL} : Kept(h, m, g)
      BY <1>4, <3>2, ModifyDoes
    <3>4. cycles = n + v.nCyclesPerLine /\ v.nCyclesPerLine \in Int
      BY <1>1, <1>2, <3>1
    <3>5. Conv(cycles) = Conv(n) + Conv(v.nCyclesPerLine) /\ Conv(n) \in Int
          /\ Conv(v.nCyclesPerLine) \in Int
      BY ONLY <3>4, n \in Int, ConvAdds
    <3>6. On(h, INTERRUPT_VIDEO_VBL) \in Int
      BY <1>4, OnFacts, Entries
    <3> QED BY <1>4, <3>3, <3>5, <3>6 DEF Works
  <2>2. CASE ~(v.nHBL = v.nScanlinesPerFrame - 1 /\ v.nCyclesPerLine # cycles)
    <3>1. m = h
      BY <1>5, <2>2
    <3>2. On(h, INTERRUPT_VIDEO_VBL) \in Int /\ Conv(cycles) \in Int
      BY <1>2, <1>4, OnFacts, Entries, ConvType
    <3> QED BY <1>4, <2>2, <3>1, <3>2 DEF Kept
  <2> QED BY <2>1, <2>2
<1>7. PICK w : w = [v EXCEPT !.HBL_CyclePos = cycles, !.nCyclesPerLine = cycles]
  OBVIOUS
<1>8. /\ w \in VideoState /\ w.nHBL = v.nHBL /\ w.nScanlinesPerFrame = v.nScanlinesPerFrame
      /\ w.StartCycle = v.StartCycle /\ w.FrameCycles = v.FrameCycles
      /\ w.bUseVDIRes = v.bUseVDIRes
  <2>1. v \in VideoState /\ cycles \in Nat
    BY <1>1, <1>2
  <2> QED BY ONLY <2>1, <1>7 DEF VideoState
<1>9. PICK x : x = WithVideo(m, w)
  OBVIOUS
<1>10. /\ Works(x) /\ x \in Machine /\ x.vid = w /\ \A g \in InterruptId : Kept(m, x, g)
  BY <1>6, <1>8, <1>9, VideoOnly, VideoOnlyWorks
<1>11. t = Video_AddInterruptTimerB(x, v.nHBL, LineCycles(v), LINE_END_CYCLE[v.freq])
  <2>1. x = [m EXCEPT !.vid.HBL_CyclePos = cycles, !.vid.nCyclesPerLine = cycles]
    BY <1>6, <1>7, <1>9 DEF WithVideo
  <2> QED BY <1>3, <1>5, <2>1 DEF ChangeLine
<1>12. AddedAt(x, t, INTERRUPT_VIDEO_ENDLINE, Conv(LINE_END_CYCLE[v.freq]))
  <2>1. PICK n \in Int, c \in Int, p \in Int :
          n = v.nHBL /\ c = LineCycles(v) /\ p = LINE_END_CYCLE[v.freq]
    BY <1>1, <1>2
  <2>2. /\ x.vid.nHBL < x.vid.nScanlinesPerFrame /\ ~x.vid.bUseVDIRes /\ n <= x.vid.nHBL /\ c < p
        /\ t = Video_AddInterruptTimerB(x, n, c, p)
    BY <1>1, <1>2, <1>8, <1>10, <1>11, <2>1
  <2>3. AddedAt(x, t, INTERRUPT_VIDEO_ENDLINE, Conv(p))
    BY <1>10, <2>2, AddTimerBDoes
  <2> QED BY <2>1, <2>3
<1>13. /\ Works(t) /\ t.vid = w
       /\ InUse(t, INTERRUPT_VIDEO_ENDLINE) = TRUE
       /\ On(t, INTERRUPT_VIDEO_ENDLINE) = Conv(LINE_END_CYCLE[v.freq])
       /\ \A g \in InterruptId \ {INTERRUPT_VIDEO_ENDLINE} : Kept(x, t, g)
  BY <1>10, <1>12 DEF AddedAt
<1>14. /\ Kept(m, t, INTERRUPT_VIDEO_HBL) /\ Kept(m, t, INTERRUPT_VIDEO_VBL)
       /\ Kept(m, t, INTERRUPT_IKBD_AUTOSEND)
  BY <1>10, <1>13, Entries DEF Kept
<1>15. /\ Kept(h, t, INTERRUPT_VIDEO_HBL) /\ Kept(s, h, INTERRUPT_VIDEO_VBL)
       /\ Kept(s, t, INTERRUPT_IKBD_AUTOSEND)
  BY <1>4, <1>6, <1>14, Entries DEF Kept
<1>16. /\ On(t, INTERRUPT_VIDEO_HBL) = On(h, INTERRUPT_VIDEO_HBL)
       /\ On(t, INTERRUPT_VIDEO_VBL) = On(m, INTERRUPT_VIDEO_VBL)
       /\ On(h, INTERRUPT_VIDEO_VBL) = On(s, INTERRUPT_VIDEO_VBL)
  BY <1>4, <1>6, <1>8, <1>13, <1>14, <1>15, OnKept
<1> QED BY <1>4, <1>6, <1>7, <1>13, <1>14, <1>15, <1>16
    DEF Kept, WithLength, LineChanged

LEMMA ChangeLineInv ==
  ASSUME RealTimings, NEW s, FrameInv(s), ~s.vid.bUseVDIRes, ~s.vid.bUseHighRes,
         LineCycles(s.vid) <= Line_Set_Pal, HblCounterVideo(s.vid) = s.vid.nHBL,
         NEW t, t = ChangeLine(s)
  PROVE  FrameInv(t)
<1>0. PICK v : v = s.vid
  OBVIOUS
<1>1. /\ Works(s) /\ s \in Machine /\ Frame(s) /\ Chain(s) /\ Order(s) /\ Grid(s) /\ Lines(s)
      /\ Polled(s)
  BY DEF FrameInv, Video, Works
<1>2. /\ v \in VideoState /\ v.nHBL \in Nat /\ v.nScanlinesPerFrame \in Nat
      /\ v.nCyclesPerLine \in Nat /\ v.StartCycle \in Nat /\ v.FrameCycles \in Nat
      /\ v.events \in Int
      /\ v.nScanlinesPerFrame >= 2 /\ v.nHBL <= v.nScanlinesPerFrame
      /\ v.freq \in {50, 60} /\ v.freq \in LineFreqs(v) /\ v.freq \in Freq
  BY <1>0, <1>1, MachineFacts, VideoFacts, FreqType DEF Frame
<1>3. /\ v.nHBL < v.nScanlinesPerFrame
      /\ LineCycles(v) = v.FrameCycles - v.StartCycle
      /\ LineCycles(v) \in Int /\ LineCycles(v) <= Line_Set_Pal
  BY <1>0, <1>2 DEF HblCounterVideo, LineCycles
<1>4. PICK cycles : cycles = CYCLES_PER_LINE[v.freq]
  OBVIOUS
<1>5. /\ Works(t)
      /\ t.vid = WithLength(v, cycles)
      /\ v.RestartVideoCounter => Kept(s, t, INTERRUPT_VIDEO_HBL)
      /\ ~v.RestartVideoCounter => /\ InUse(t, INTERRUPT_VIDEO_HBL) = TRUE
                                   /\ On(t, INTERRUPT_VIDEO_HBL) = Conv(cycles)
      /\ InUse(t, INTERRUPT_VIDEO_VBL) = InUse(s, INTERRUPT_VIDEO_VBL)
      /\ v.nHBL = v.nScanlinesPerFrame - 1 =>
           On(t, INTERRUPT_VIDEO_VBL)
             = On(s, INTERRUPT_VIDEO_VBL) + Conv(cycles) - Conv(v.nCyclesPerLine)
      /\ InUse(t, INTERRUPT_VIDEO_ENDLINE) = TRUE
      /\ On(t, INTERRUPT_VIDEO_ENDLINE) = Conv(LINE_END_CYCLE[v.freq])
      /\ Kept(s, t, INTERRUPT_IKBD_AUTOSEND)
  <2>1. ~v.bUseVDIRes
    BY <1>0
  <2>2. LineChanged(s, t, v, cycles)
    BY <1>0, <1>1, <1>2, <1>3, <1>4, <2>1, ChangeLineDoes
  <2> QED BY <2>2 DEF LineChanged
<1>6. /\ t.vid.nHBL = v.nHBL /\ t.vid.nScanlinesPerFrame = v.nScanlinesPerFrame
      /\ t.vid.nCyclesPerLine = cycles /\ t.vid.HBL_CyclePos = cycles
      /\ t.vid.StartCycle = v.StartCycle /\ t.vid.FrameCycles = v.FrameCycles
      /\ t.vid.RestartVideoCounter = v.RestartVideoCounter
      /\ t.vid.bUseHighRes = v.bUseHighRes /\ t.vid.bUseVDIRes = v.bUseVDIRes
      /\ t.vid.events = v.events /\ t.vid.sincePoll = v.sincePoll
  BY <1>2, <1>5 DEF VideoState, WithLength
<1>7. /\ Conv(cycles) \in Int /\ Conv(v.nCyclesPerLine) \in Int
      /\ Conv(VblVideoCycleOffset) \in Int /\ Conv(VblVideoCycleOffset) > 0
      /\ Conv(cycles + VblVideoCycleOffset) = Conv(cycles) + Conv(VblVideoCycleOffset)
      /\ Conv(v.nCyclesPerLine + VblVideoCycleOffset)
           = Conv(v.nCyclesPerLine) + Conv(VblVideoCycleOffset)
      /\ Conv(LINE_END_CYCLE[v.freq]) < Conv(cycles)
      /\ Conv(LINE_END_CYCLE[v.freq]) > Conv(Line_Set_Pal)
  <2>1. /\ cycles \in Int /\ v.nCyclesPerLine \in Int /\ VblVideoCycleOffset \in Int
        /\ Line_Set_Pal \in Int /\ LINE_END_CYCLE[v.freq] \in Int /\ 0 \in Int
        /\ VblVideoCycleOffset > 0 /\ LINE_END_CYCLE[v.freq] < cycles
        /\ Line_Set_Pal < LINE_END_CYCLE[v.freq]
    BY <1>2, <1>4, Timings DEF RealTimings
  <2>2. Conv(cycles + VblVideoCycleOffset) = Conv(cycles) + Conv(VblVideoCycleOffset)
    BY ONLY <2>1, ConvAdds
  <2>3. Conv(v.nCyclesPerLine + VblVideoCycleOffset)
           = Conv(v.nCyclesPerLine) + Conv(VblVideoCycleOffset)
    BY ONLY <2>1, ConvAdds
  <2>4. /\ Conv(cycles) \in Int /\ Conv(v.nCyclesPerLine) \in Int
        /\ Conv(VblVideoCycleOffset) \in Int
    BY <2>1, ConvType
  <2>5. /\ Conv(0) < Conv(VblVideoCycleOffset)
        /\ Conv(LINE_END_CYCLE[v.freq]) < Conv(cycles)
        /\ Conv(Line_Set_Pal) < Conv(LINE_END_CYCLE[v.freq])
    BY <2>1, ConvLess
  <2>6. Conv(Line_Set_Pal) \in Int /\ Conv(LINE_END_CYCLE[v.freq]) \in Int
    BY <2>1, ConvType
  <2> QED BY <2>2, <2>3, <2>4, <2>5, <2>6, ConvZero
<1>8. Frame(t)
  <2>1. RestartVideoCounter_Pos <= cycles
    BY <1>2, <1>4 DEF RealTimings
  <2> QED BY <1>0, <1>1, <1>6, <2>1 DEF Frame
<1>9. /\ InUse(s, INTERRUPT_VIDEO_HBL)
      /\ InUse(s, INTERRUPT_VIDEO_VBL) <=> v.nHBL >= v.nScanlinesPerFrame - 1
  BY <1>0, <1>1, <1>3 DEF Chain
<1>10. InUse(t, INTERRUPT_VIDEO_HBL)
  BY <1>5, <1>9 DEF Kept
<1>11. Chain(t)
  BY <1>0, <1>3, <1>5, <1>6, <1>9, <1>10 DEF Chain
<1>12. v.RestartVideoCounter =>
         /\ v.nHBL > 0 /\ v.nHBL < v.nScanlinesPerFrame - 1
         /\ On(t, INTERRUPT_VIDEO_HBL) = On(s, INTERRUPT_VIDEO_HBL)
  <2>1. SUFFICES ASSUME v.RestartVideoCounter
                 PROVE  /\ v.nHBL > 0 /\ v.nHBL < v.nScanlinesPerFrame - 1
                        /\ On(t, INTERRUPT_VIDEO_HBL) = On(s, INTERRUPT_VIDEO_HBL)
    OBVIOUS
  <2>2. Kept(s, t, INTERRUPT_VIDEO_HBL)
    BY <1>5, <2>1
  <2>3. On(t, INTERRUPT_VIDEO_HBL) = On(s, INTERRUPT_VIDEO_HBL)
    BY <1>0, <1>6, <2>2, OnKept
  <2> QED BY <1>0, <1>1, <2>1, <2>3 DEF Frame
<1>13. On(s, INTERRUPT_VIDEO_VBL) \in Int
  BY <1>1, OnFacts, Entries
<1>14. Order(t)
  <2>1. CASE v.nHBL = v.nScanlinesPerFrame - 1
    <3>1. ~v.RestartVideoCounter
      BY <1>2, <1>12, <2>1
    <3>2. On(s, INTERRUPT_VIDEO_VBL) >= Conv(v.nCyclesPerLine + VblVideoCycleOffset)
      BY <1>0, <1>1, <2>1 DEF Order
    <3>3. On(t, INTERRUPT_VIDEO_VBL) >= Conv(cycles) + Conv(VblVideoCycleOffset)
      BY <1>5, <1>7, <1>13, <2>1, <3>2
    <3>4. On(t, INTERRUPT_VIDEO_HBL) < On(t, INTERRUPT_VIDEO_VBL)
      BY <1>5, <1>7, <1>13, <2>1, <3>1, <3>3
    <3> QED BY <1>6, <1>7, <2>1, <3>3, <3>4 DEF Order
  <2> QED BY <1>6, <2>1 DEF Order
<1>15. Whole(t) = Whole(s)
  BY <1>0, <1>6 DEF Whole
<1>16. Grid(t)
  <2>1. ASSUME Whole(s), v.nHBL > 0
        PROVE  On(t, INTERRUPT_VIDEO_HBL) = Conv(NextHblPos(t.vid))
    <3>1. CASE v.RestartVideoCounter
      <4>1. On(s, INTERRUPT_VIDEO_HBL) = Conv(RestartVideoCounter_Pos)
        BY <1>0, <1>1, <1>3, <2>1, <3>1 DEF Grid, NextHblPos
      <4> QED BY <1>6, <1>12, <3>1, <4>1 DEF NextHblPos
    <3>2. CASE ~v.RestartVideoCounter
      BY <1>5, <1>6, <3>2 DEF NextHblPos
    <3> QED BY <3>1, <3>2
  <2>2. ASSUME Whole(s), v.nHBL >= v.nScanlinesPerFrame - 1
        PROVE  On(t, INTERRUPT_VIDEO_VBL) = Conv(cycles + VblVideoCycleOffset)
    <3>1. v.nHBL = v.nScanlinesPerFrame - 1
      BY <1>2, <1>3, <2>2
    <3>2. On(s, INTERRUPT_VIDEO_VBL) = Conv(v.nCyclesPerLine + VblVideoCycleOffset)
      BY <1>0, <1>1, <2>2 DEF Grid
    <3> QED BY <1>5, <1>7, <1>13, <3>1, <3>2
  <2> QED BY <1>6, <1>15, <2>1, <2>2 DEF Grid
<1>17. Lines(t)
  <2>1. SUFFICES ASSUME Whole(s)
                 PROVE  /\ v.nHBL = 0 => \A f \in LineFreqs(v) :
                             On(t, INTERRUPT_VIDEO_HBL) <= Conv(cycles + LINE_END_CYCLE[f])
                        /\ v.events = v.nHBL /\ EndToCome(t)
    BY <1>3, <1>6, <1>15 DEF Lines, LineFreqs
  <2>2. ASSUME v.nHBL = 0, NEW f \in LineFreqs(v)
        PROVE  On(t, INTERRUPT_VIDEO_HBL) <= Conv(cycles + LINE_END_CYCLE[f])
    <3>1. On(t, INTERRUPT_VIDEO_HBL) = Conv(cycles)
      BY <1>5, <1>12, <2>2
    <3>2. PICK e \in Int : e = LINE_END_CYCLE[f] /\ e > 0
      BY <1>2, Timings, FreqType
    <3>3. cycles \in Int /\ cycles + e \in Int /\ cycles <= cycles + e
      BY <1>2, <1>4, <3>2, Timings
    <3> QED BY <3>1, <3>2, <3>3, ConvLess
  <2>3. ~EndPassed(s)
    BY <1>0, <1>2, <1>3, Timings DEF EndPassed
  <2>4. v.events = v.nHBL
    BY <1>0, <1>1, <1>3, <2>1, <2>3 DEF Lines
  <2>5. LineHbl(t) = Conv(cycles)
    BY <1>5, <1>6 DEF LineHbl
  <2>6. EndToCome(t)
    BY <1>5, <1>7, <2>5 DEF EndToCome
  <2> QED BY <2>2, <2>4, <2>6
<1>18. Polled(t)
  BY <1>0, <1>1, <1>5, <1>6 DEF Polled, Kept
<1> QED BY <1>5, <1>8, <1>11, <1>14, <1>16, <1>17, <1>18 DEF FrameInv, Video

LEMMA SyncInv ==
  ASSUME RealTimings, NEW s, FrameInv(s), NEW f \in {50, 60}, NEW t, t = Video_Sync_WriteByte(s, f)
  PROVE  FrameInv(t)
<1>1. PICK r : r = [s EXCEPT !.vid.freq = f]
  OBVIOUS
<1>2. FrameInv(r) /\ SameLine(s.vid, r.vid) /\ r.vid.FrameCycles = s.vid.FrameCycles
  BY <1>1, FrequencyChanged
<1>3. CASE t = r
  BY <1>2, <1>3
<1>4. CASE t # r
  <2>1. /\ LineCycles(s.vid) < Line_Set_Pal \/ LineCycles(s.vid) <= Line_Set_Pal
        /\ HblCounterVideo(s.vid) = s.vid.nHBL
        /\ ~s.vid.bUseVDIRes /\ ~s.vid.bUseHighRes
        /\ t = ChangeLine(r)
    BY <1>1, <1>4 DEF Video_Sync_WriteByte
  <2>2. /\ s.vid.nHBL \in Nat /\ s.vid.nScanlinesPerFrame \in Nat
        /\ s.vid.nCyclesPerLine \in Nat /\ s.vid.StartCycle \in Nat /\ s.vid.FrameCycles \in Nat
    BY MachineFacts, VideoFacts DEF FrameInv, Works
  <2>3. LineCycles(s.vid) \in Int /\ LineCycles(s.vid) <= Line_Set_Pal
    BY <2>1, <2>2, Timings DEF LineCycles
  <2>4. /\ HblCounterVideo(r.vid) = HblCounterVideo(s.vid) /\ LineCycles(r.vid) = LineCycles(s.vid)
        /\ r.vid.nHBL = s.vid.nHBL /\ ~r.vid.bUseVDIRes /\ ~r.vid.bUseHighRes
    BY <1>2, <2>1 DEF SameLine, HblCounterVideo, LineCycles
  <2> QED BY <1>2, <2>1, <2>3, <2>4, ChangeLineInv
<1> QED BY <1>3, <1>4

LEMMA ProgramInv ==
  ASSUME RealTimings, FrameInv(st), Program
  PROVE  FrameInv(st')
<1>1. PICK c \in InstrCycles :
        OtherInstruction(c) \/ ResetInstruction(c) \/ (\E f \in {50, 60} : WriteSync(f, c))
  BY DEF Program
<1>2. AutoSendFits
  BY DEF RealTimings
<1>3. CASE OtherInstruction(c)
  BY <1>2, <1>3, ChargeInv DEF OtherInstruction, Execute
<1>4. CASE ResetInstruction(c)
  <2>1. PICK s : s = Video_Sync_WriteByte(st, 60)
    OBVIOUS
  <2>2. FrameInv(s)
    BY <2>1, SyncInv
  <2>3. InUse(s, INTERRUPT_IKBD_AUTOSEND)
    BY <2>2 DEF FrameInv, Works
  <2>4. RESET(st) = s
    BY <2>1, <2>3 DEF RESET, IKBD_Reset
  <2>5. st' = Charge(s, c)
    BY <1>4, <2>4 DEF ResetInstruction, Execute
  <2> QED BY <1>2, <2>2, <2>5, ChargeInv
<1>5. CASE \E f \in {50, 60} : WriteSync(f, c)
  <2>1. PICK f \in {50, 60} : WriteSync(f, c)
    BY <1>5
  <2>2. PICK s : s = Video_Sync_WriteByte(st, f)
    OBVIOUS
  <2>3. FrameInv(s)
    BY <2>2, SyncInv
  <2>4. st' = Charge(s, c)
    BY <2>1, <2>2 DEF WriteSync, Execute
  <2> QED BY <1>2, <2>3, <2>4, ChargeInv
<1> QED BY <1>1, <1>3, <1>4, <1>5

-----------------------------------------------------------------------------
(* The HBL handler. *)

(* What is known when one of the handlers is called. *)
LEMMA CalledFacts ==
  ASSUME RealTimings, FrameInv(st), NEW h, Due(h), h # INTERRUPT_IKBD_AUTOSEND,
         NEW t, t = Acknowledge(st)
  PROVE  /\ Works(st) /\ st \in Machine /\ st.vid \in VideoState
         /\ Frame(st) /\ Chain(st) /\ Order(st) /\ Grid(st) /\ Lines(st) /\ Polled(st)
         /\ Works(t) /\ t \in Machine /\ t.vid = st.vid
         /\ InUse(st, h) /\ InUse(t, h) = FALSE
         /\ \A g \in InterruptId \ {h} : Kept(st, t, g)
         /\ \A g \in Handlers : InUse(st, g) => On(st, h) <= On(st, g)
<1>1. /\ Works(st) /\ st \in Machine /\ AutoSendFits
      /\ Frame(st) /\ Chain(st) /\ Order(st) /\ Grid(st) /\ Lines(st) /\ Polled(st)
  BY DEF FrameInv, Video, Works, RealTimings
<1>2. st.vid \in VideoState
  BY <1>1, MachineFacts
<1>3. /\ h = st.cyc.ActiveInterrupt /\ InUse(st, h) /\ h \in InterruptId /\ Handlers \subseteq InterruptId
      /\ \A g \in Handlers : InUse(st, g) => Time(st, h) <= Time(st, g)
  BY <1>1, DueFacts DEF InterruptId
<1>4. /\ t \in Machine /\ t.vid = st.vid /\ InUse(t, h) = FALSE /\ Works(t)
      /\ \A g \in InterruptId \ {h} : Kept(st, t, g)
  BY <1>1, <1>3, AcknowledgeDoes
<1>5. ASSUME NEW g \in Handlers, InUse(st, g)
      PROVE  On(st, h) <= On(st, g)
  <2>1. /\ Time(st, h) \in Int /\ Time(st, g) \in Int /\ Time(st, h) <= Time(st, g)
        /\ Conv(st.vid.FrameCycles) \in Int /\ Conv(st.vid.StartCycle) \in Int
    BY <1>1, <1>2, <1>3, <1>5, MachineFacts, VideoFacts, ConvType
  <2> QED BY <2>1 DEF On
<1> QED BY <1>1, <1>2, <1>3, <1>4, <1>5

(* Only the request to reload the video counter is dropped. *)
CounterReloaded(s, t) ==
  /\ t \in Machine /\ t.cyc = s.cyc
  /\ t.vid.nHBL = s.vid.nHBL /\ t.vid.nScanlinesPerFrame = s.vid.nScanlinesPerFrame
  /\ t.vid.nCyclesPerLine = s.vid.nCyclesPerLine /\ t.vid.StartCycle = s.vid.StartCycle
  /\ t.vid.HBL_CyclePos = s.vid.HBL_CyclePos /\ t.vid.RestartVideoCounter = FALSE
  /\ t.vid.FrameCycles = s.vid.FrameCycles /\ t.vid.freq = s.vid.freq
  /\ t.vid.bUseHighRes = s.vid.bUseHighRes /\ t.vid.bUseVDIRes = s.vid.bUseVDIRes
  /\ t.vid.events = s.vid.events /\ t.vid.sincePoll = s.vid.sincePoll
  /\ \A h \in InterruptId : Kept(s, t, h) /\ On(t, h) = On(s, h)
  /\ Works(s) => Works(t)

LEMMA WithoutRestart ==
  ASSUME NEW s \in Machine, NEW t, t = [s EXCEPT !.vid.RestartVideoCounter = FALSE]
  PROVE  CounterReloaded(s, t)
<1>1. PICK v, w : v = s.vid /\ w = [v EXCEPT !.RestartVideoCounter = FALSE]
  OBVIOUS
<1>2. v \in VideoState
  BY <1>1, MachineFacts
<1>3. /\ w \in VideoState
      /\ w.nHBL = v.nHBL /\ w.nScanlinesPerFrame = v.nScanlinesPerFrame
      /\ w.nCyclesPerLine = v.nCyclesPerLine /\ w.StartCycle = v.StartCycle
      /\ w.HBL_CyclePos = v.HBL_CyclePos /\ w.RestartVideoCounter = FALSE
      /\ w.FrameCycles = v.FrameCycles /\ w.freq = v.freq
      /\ w.bUseHighRes = v.bUseHighRes /\ w.bUseVDIRes = v.bUseVDIRes
      /\ w.events = v.events /\ w.sincePoll = v.sincePoll
  BY <1>1, <1>2 DEF VideoState
<1>4. t = WithVideo(s, w)
  BY <1>1 DEF WithVideo
<1>5. t \in Machine /\ t.vid = w /\ t.cyc = s.cyc /\ \A h \in InterruptId : Kept(s, t, h)
  BY ONLY s \in Machine, <1>3, <1>4, VideoOnly
<1>6. ASSUME Works(s) PROVE Works(t)
  BY <1>3, <1>4, <1>6, VideoOnlyWorks
<1>7. \A h \in InterruptId : On(t, h) = On(s, h)
  <2>1. t.vid.FrameCycles = s.vid.FrameCycles /\ t.vid.StartCycle = s.vid.StartCycle
    BY <1>1, <1>3, <1>5
  <2> QED BY <1>5, <2>1 DEF Kept, On
<1> QED BY <1>1, <1>3, <1>5, <1>6, <1>7 DEF CounterReloaded

(* The video counter was reloaded: the HBL of the same line follows. *)
LEMMA RestartHBLInv ==
  ASSUME RealTimings, FrameInv(st), Due(INTERRUPT_VIDEO_HBL), st.vid.RestartVideoCounter,
         NEW t, t = RestartHBL(Acknowledge(st))
  PROVE  FrameInv(t)
<1>1. PICK a : a = Acknowledge(st)
  OBVIOUS
<1>2. /\ Works(st) /\ st \in Machine /\ st.vid \in VideoState
      /\ Frame(st) /\ Chain(st) /\ Order(st) /\ Grid(st) /\ Lines(st) /\ Polled(st)
      /\ Works(a) /\ a \in Machine /\ a.vid = st.vid
      /\ InUse(st, INTERRUPT_VIDEO_HBL)
      /\ \A g \in InterruptId \ {INTERRUPT_VIDEO_HBL} : Kept(st, a, g)
  BY <1>1, CalledFacts, Entries
<1>3. PICK v : v = st.vid
  OBVIOUS
<1>4. /\ v.nHBL \in Nat /\ v.nHBL \in Int /\ v.nScanlinesPerFrame \in Nat /\ v.HBL_CyclePos \in Int
      /\ v.nHBL > 0 /\ v.nHBL < v.nScanlinesPerFrame - 1 /\ v.nHBL <= v.nHBL /\ ~v.bUseVDIRes
      /\ v.FrameCycles \in Nat /\ v.StartCycle \in Nat
  BY <1>2, <1>3, VideoFacts DEF Frame, Chain
<1>5. PICK x : x = Video_AddInterruptHBL(a, v.nHBL, v.HBL_CyclePos)
  OBVIOUS
<1>6. AddedAt(a, x, INTERRUPT_VIDEO_HBL, Conv(v.HBL_CyclePos))
  <2>1. PICK n \in Int, p \in Int : n = v.nHBL /\ p = v.HBL_CyclePos
    BY <1>4
  <2>2. AddedAt(a, x, INTERRUPT_VIDEO_HBL, Conv(p))
    BY <1>2, <1>3, <1>4, <1>5, <2>1, AddHBLDoes
  <2> QED BY <2>1, <2>2
<1>7. /\ Works(x) /\ x \in Machine /\ x.vid = v
      /\ InUse(x, INTERRUPT_VIDEO_HBL) = TRUE /\ On(x, INTERRUPT_VIDEO_HBL) = Conv(v.HBL_CyclePos)
      /\ \A g \in InterruptId \ {INTERRUPT_VIDEO_HBL} : Kept(a, x, g)
  BY <1>2, <1>3, <1>6 DEF AddedAt
<1>8. t = [x EXCEPT !.vid.RestartVideoCounter = FALSE]
  BY <1>1, <1>2, <1>3, <1>5 DEF RestartHBL
<1>9. /\ Works(t) /\ t \in Machine
      /\ t.vid.nHBL = v.nHBL /\ t.vid.nScanlinesPerFrame = v.nScanlinesPerFrame
      /\ t.vid.nCyclesPerLine = v.nCyclesPerLine /\ t.vid.StartCycle = v.StartCycle
      /\ t.vid.HBL_CyclePos = v.HBL_CyclePos /\ t.vid.RestartVideoCounter = FALSE
      /\ t.vid.FrameCycles = v.FrameCycles
      /\ t.vid.bUseHighRes = v.bUseHighRes /\ t.vid.bUseVDIRes = v.bUseVDIRes
      /\ t.vid.events = v.events /\ t.vid.sincePoll = v.sincePoll
      /\ \A h \in InterruptId : Kept(x, t, h) /\ On(t, h) = On(x, h)
  <2>1. CounterReloaded(x, t)
    BY <1>7, <1>8, WithoutRestart
  <2> QED BY <1>7, <2>1 DEF CounterReloaded
<1>10. /\ InUse(t, INTERRUPT_VIDEO_HBL) = TRUE
       /\ On(t, INTERRUPT_VIDEO_HBL) = Conv(v.HBL_CyclePos)
       /\ \A g \in InterruptId \ {INTERRUPT_VIDEO_HBL} : Kept(st, t, g)
  <2>1. InUse(t, INTERRUPT_VIDEO_HBL) = TRUE /\ On(t, INTERRUPT_VIDEO_HBL) = Conv(v.HBL_CyclePos)
    BY <1>7, <1>9, Entries DEF Kept
  <2>2. ASSUME NEW g \in InterruptId \ {INTERRUPT_VIDEO_HBL} PROVE Kept(st, t, g)
    BY <1>2, <1>7, <1>9, <2>2 DEF Kept
  <2> QED BY <2>1, <2>2
<1>11. /\ InUse(t, INTERRUPT_VIDEO_VBL) = InUse(st, INTERRUPT_VIDEO_VBL)
       /\ InUse(t, INTERRUPT_VIDEO_ENDLINE) = InUse(st, INTERRUPT_VIDEO_ENDLINE)
       /\ On(t, INTERRUPT_VIDEO_ENDLINE) = On(st, INTERRUPT_VIDEO_ENDLINE)
       /\ Time(t, INTERRUPT_IKBD_AUTOSEND) = Time(st, INTERRUPT_IKBD_AUTOSEND)
  BY <1>3, <1>9, <1>10, Entries, OnKept DEF Kept
<1>12. Frame(t)
  BY <1>2, <1>3, <1>9 DEF Frame
<1>13. Chain(t)
  BY <1>2, <1>3, <1>4, <1>9, <1>10, <1>11 DEF Chain
<1>14. Order(t)
  BY <1>4, <1>9 DEF Order
<1>15. Grid(t)
  BY <1>4, <1>9, <1>10 DEF Grid, NextHblPos
<1>16. Lines(t)
  <2>1. LineHbl(st) = Conv(v.HBL_CyclePos) /\ LineHbl(t) = Conv(v.HBL_CyclePos)
    BY <1>3, <1>9, <1>10 DEF LineHbl
  <2>2. Whole(t) = Whole(st) /\ LineFreqs(t.vid) = LineFreqs(v)
    BY <1>3, <1>9 DEF Whole, LineFreqs
  <2>3. EndToCome(st) => EndToCome(t)
    BY <1>11, <2>1 DEF EndToCome
  <2>4. EndPassed(st) => EndPassed(t)
    BY <1>3, <1>4, <1>9, <1>11, <2>1, <2>2 DEF EndPassed
  <2> QED BY <1>2, <1>3, <1>4, <1>9, <2>2, <2>3, <2>4 DEF Lines
<1>17. Polled(t)
  BY <1>2, <1>3, <1>9, <1>11 DEF Polled
<1> QED BY <1>9, <1>12, <1>13, <1>14, <1>15, <1>16, <1>17 DEF FrameInv, Video

(* The end of line of the current line is never after its HBL. *)
LEMMA EndBeforeHBL ==
  ASSUME RealTimings, FrameInv(st), Due(INTERRUPT_VIDEO_HBL), ~st.vid.RestartVideoCounter,
         Whole(st)
  PROVE  st.vid.events = st.vid.nHBL + 1 /\ EndPassed(st)
<1>1. PICK a : a = Acknowledge(st)
  OBVIOUS
<1>2. /\ st \in Machine /\ Chain(st) /\ Lines(st) /\ InUse(st, INTERRUPT_VIDEO_HBL)
      /\ \A g \in Handlers : InUse(st, g) => On(st, INTERRUPT_VIDEO_HBL) <= On(st, g)
  BY <1>1, CalledFacts, Entries
<1>3. st.vid.nHBL < st.vid.nScanlinesPerFrame /\ st.vid.nHBL \in Nat
      /\ st.vid.nScanlinesPerFrame \in Nat
  BY <1>2, MachineFacts, VideoFacts DEF Chain
<1>4. ~EndToCome(st)
  <2>1. On(st, INTERRUPT_VIDEO_HBL) \in Int /\ On(st, INTERRUPT_VIDEO_ENDLINE) \in Int
    BY <1>2, OnFacts, Entries
  <2> QED BY <1>2, <2>1, Entries DEF EndToCome, LineHbl
<1> QED BY <1>2, <1>3, <1>4 DEF Lines

(* NextLine: where the entries are on the line that begins. *)
NewLine(s, t, v, c) ==
  /\ Works(t)
  /\ t.vid.nHBL = v.nHBL + 1 /\ t.vid.nScanlinesPerFrame = v.nScanlinesPerFrame
  /\ t.vid.nCyclesPerLine = c /\ t.vid.HBL_CyclePos = c
  /\ t.vid.StartCycle = v.StartCycle + v.nCyclesPerLine
  /\ t.vid.FrameCycles = v.FrameCycles
  /\ t.vid.bUseHighRes = v.bUseHighRes /\ t.vid.bUseVDIRes = v.bUseVDIRes
  /\ t.vid.events = v.events /\ t.vid.sincePoll = v.sincePoll
  /\ t.vid.RestartVideoCounter =>
       FreqHz(v) # 71 /\ \E f \in {50, 60} : t.vid.nHBL = RestartVideoCounter_Line[f]
  /\ InUse(t, INTERRUPT_VIDEO_HBL) = TRUE
  /\ On(t, INTERRUPT_VIDEO_HBL) = Conv(NextHblPos(t.vid))
  /\ IF t.vid.nHBL = v.nScanlinesPerFrame - 1
     THEN /\ InUse(t, INTERRUPT_VIDEO_VBL) = TRUE
          /\ On(t, INTERRUPT_VIDEO_VBL) = Conv(c + VblVideoCycleOffset)
     ELSE InUse(t, INTERRUPT_VIDEO_VBL) = InUse(s, INTERRUPT_VIDEO_VBL)
  /\ Kept(s, t, INTERRUPT_VIDEO_ENDLINE) /\ Kept(s, t, INTERRUPT_IKBD_AUTOSEND)

(* The video state of the next line. *)
LineBegun(v, w) ==
  /\ w \in VideoState
  /\ w.nHBL = v.nHBL + 1 /\ w.nScanlinesPerFrame = v.nScanlinesPerFrame
  /\ w.nCyclesPerLine = CYCLES_PER_LINE[FreqHz(v)] /\ w.HBL_CyclePos = CYCLES_PER_LINE[FreqHz(v)]
  /\ w.StartCycle = v.StartCycle + v.nCyclesPerLine
  /\ w.FrameCycles = v.FrameCycles
  /\ w.bUseHighRes = v.bUseHighRes /\ w.bUseVDIRes = v.bUseVDIRes
  /\ w.events = v.events /\ w.sincePoll = v.sincePoll
  /\ w.RestartVideoCounter =>
       FreqHz(v) # 71 /\ \E f \in {50, 60} : w.nHBL = RestartVideoCounter_Line[f]

LEMMA LineBegins ==
  ASSUME NEW v \in VideoState,
         NEW w, w = Video_StartHBL([v EXCEPT !.nHBL = v.nHBL + 1,
                                             !.StartCycle = v.StartCycle + v.nCyclesPerLine])
  PROVE  LineBegun(v, w)
<1>1. PICK n \in Nat, start \in Nat : n = v.nHBL + 1 /\ start = v.StartCycle + v.nCyclesPerLine
  BY VideoFacts
<1>2. PICK u : u = [v EXCEPT !.nHBL = n, !.StartCycle = start]
  OBVIOUS
<1>3. /\ u \in VideoState /\ u.nHBL = n /\ u.StartCycle = start
      /\ u.nScanlinesPerFrame = v.nScanlinesPerFrame
      /\ u.FrameCycles = v.FrameCycles /\ u.freq = v.freq
      /\ u.bUseHighRes = v.bUseHighRes /\ u.bUseVDIRes = v.bUseVDIRes
      /\ u.events = v.events /\ u.sincePoll = v.sincePoll
  BY <1>2 DEF VideoState
<1>4. FreqHz(u) = FreqHz(v)
  BY <1>3 DEF FreqHz
<1>5. PICK c \in Nat : c = CYCLES_PER_LINE[FreqHz(v)]
  BY FreqType, Timings
<1>6. PICK b \in BOOLEAN :
        b = (FreqHz(u) # 71 /\ \E f \in {50, 60} : u.nHBL = RestartVideoCounter_Line[f])
  OBVIOUS
<1>7. w = [u EXCEPT !.nCyclesPerLine = c, !.HBL_CyclePos = c, !.RestartVideoCounter = b]
  <2>1. w = Video_StartHBL(u) /\ c = CYCLES_PER_LINE[FreqHz(u)]
    BY <1>1, <1>2, <1>4, <1>5, Zenon
  <2> QED BY ONLY <2>1, <1>6, Zenon DEF Video_StartHBL
<1>8. /\ w \in VideoState /\ w.nHBL = u.nHBL /\ w.StartCycle = u.StartCycle
      /\ w.nCyclesPerLine = c /\ w.HBL_CyclePos = c /\ w.RestartVideoCounter = b
      /\ w.nScanlinesPerFrame = u.nScanlinesPerFrame
      /\ w.FrameCycles = u.FrameCycles
      /\ w.bUseHighRes = u.bUseHighRes /\ w.bUseVDIRes = u.bUseVDIRes
      /\ w.events = u.events /\ w.sincePoll = u.sincePoll
  BY <1>3, <1>7 DEF VideoState
<1> QED BY <1>1, <1>3, <1>4, <1>5, <1>6, <1>8 DEF LineBegun

(* The VBL is asked for on the last line. *)
LEMMA AddVBLDoes ==
  ASSUME NEW s \in Machine, NEW v, v = s.vid, v.nHBL = v.nScanlinesPerFrame - 1,
         NEW t, t = AddVBL(s)
  PROVE  AddedAt(s, t, INTERRUPT_VIDEO_VBL, Conv(v.nCyclesPerLine + VblVideoCycleOffset))
<1>1. /\ v.nHBL \in Int /\ v.nScanlinesPerFrame \in Nat /\ v.nCyclesPerLine \in Nat
      /\ v.StartCycle \in Nat /\ v.FrameCycles \in Nat /\ VblVideoCycleOffset \in Nat
      /\ v.nHBL < v.nScanlinesPerFrame /\ v.nHBL <= v.nHBL
  BY MachineFacts, VideoFacts, Timings
<1>2. PICK p \in Int, n \in Int : p = v.nCyclesPerLine + VblVideoCycleOffset /\ n = v.nHBL
  BY <1>1
<1>3. PICK x \in Int : x = p + v.StartCycle - v.FrameCycles
  BY <1>1, <1>2
<1>4. x = v.StartCycle + v.nCyclesPerLine + VblVideoCycleOffset - v.FrameCycles
  BY <1>1, <1>2, <1>3
<1>5. t = Add(s, x, INTERRUPT_VIDEO_VBL)
  BY <1>4 DEF AddVBL
<1>6. t = Video_AddInterrupt(s, n, p, INTERRUPT_VIDEO_VBL)
  BY <1>1, <1>2, <1>3, <1>5 DEF Video_AddInterrupt, LineStart
<1>7. AddedAt(s, t, INTERRUPT_VIDEO_VBL, Conv(p))
  <2>1. PICK h \in Handlers : h = INTERRUPT_VIDEO_VBL /\ h # INTERRUPT_IKBD_AUTOSEND
    BY Entries
  <2>2. s.vid.nHBL < s.vid.nScanlinesPerFrame /\ n <= s.vid.nHBL
    BY <1>1, <1>2
  <2> QED BY <1>6, <2>1, <2>2, AddInterruptDoes
<1> QED BY <1>2, <1>7

LEMMA NextLineDoes ==
  ASSUME NEW s, Works(s), NEW v, v = s.vid, ~v.bUseVDIRes,
         v.nHBL + 1 < v.nScanlinesPerFrame, NEW line, NEW cycle,
         NEW t, t = NextLine(s, line, cycle)
  PROVE  NewLine(s, t, v, CYCLES_PER_LINE[FreqHz(v)])
<1>1. PICK w : w = Video_StartHBL([v EXCEPT !.nHBL = v.nHBL + 1,
                                            !.StartCycle = v.StartCycle + v.nCyclesPerLine])
  OBVIOUS
<1>2. PICK c : c = CYCLES_PER_LINE[FreqHz(v)]
  OBVIOUS
<1>3. /\ s \in Machine /\ v \in VideoState
  BY MachineFacts DEF Works
<1>4. /\ w \in VideoState /\ w.nHBL = v.nHBL + 1 /\ w.nScanlinesPerFrame = v.nScanlinesPerFrame
      /\ w.nCyclesPerLine = c /\ w.HBL_CyclePos = c
      /\ w.StartCycle = v.StartCycle + v.nCyclesPerLine /\ w.FrameCycles = v.FrameCycles
      /\ w.bUseHighRes = v.bUseHighRes /\ w.bUseVDIRes = v.bUseVDIRes
      /\ w.events = v.events /\ w.sincePoll = v.sincePoll
      /\ w.RestartVideoCounter =>
           FreqHz(v) # 71 /\ \E f \in {50, 60} : w.nHBL = RestartVideoCounter_Line[f]
  <2>1. LineBegun(v, w)
    BY <1>1, <1>3, LineBegins
  <2> QED BY <1>2, <2>1 DEF LineBegun
<1>5. /\ v.nHBL \in Nat /\ v.nScanlinesPerFrame \in Nat /\ w.nHBL \in Int
      /\ w.nHBL < w.nScanlinesPerFrame /\ w.nHBL <= w.nHBL /\ c \in Int
      /\ w.HBL_CyclePos \in Int /\ RestartVideoCounter_Pos \in Int
      /\ w.RestartVideoCounter \in BOOLEAN
  BY <1>3, <1>4, VideoFacts, Timings
<1>6. PICK a : a = WithVideo(s, w)
  OBVIOUS
<1>7. a \in Machine /\ a.vid = w /\ Works(a) /\ \A h \in InterruptId : Kept(s, a, h)
  <2>1. w \in VideoState
    BY <1>4
  <2>2. a \in Machine /\ a.vid = w /\ \A h \in InterruptId : Kept(s, a, h)
    BY ONLY <1>3, <1>6, <2>1, VideoOnly
  <2>3. Works(a)
    BY ONLY Works(s), <1>6, <2>1, VideoOnlyWorks
  <2> QED BY <2>2, <2>3
<1>8. PICK b : b = Video_AddInterruptHBL(a, w.nHBL, w.HBL_CyclePos)
  OBVIOUS
<1>9. /\ Works(b) /\ b \in Machine /\ b.vid = w
      /\ InUse(b, INTERRUPT_VIDEO_HBL) = TRUE /\ On(b, INTERRUPT_VIDEO_HBL) = Conv(c)
      /\ \A g \in InterruptId \ {INTERRUPT_VIDEO_HBL} : Kept(a, b, g)
  <2>1. PICK n \in Int, p \in Int : n = w.nHBL /\ p = w.HBL_CyclePos
    BY <1>5
  <2>2. ~w.bUseVDIRes
    BY <1>4
  <2>3. AddedAt(a, b, INTERRUPT_VIDEO_HBL, Conv(p))
    BY <1>5, <1>7, <1>8, <2>1, <2>2, AddHBLDoes
  <2> QED BY <1>4, <1>7, <2>1, <2>3 DEF AddedAt
<1>10. PICK d : d = AddVBL(b)
  OBVIOUS
<1>11. /\ Works(d) /\ d \in Machine /\ d.vid = w
       /\ IF w.nHBL = w.nScanlinesPerFrame - 1
          THEN /\ InUse(d, INTERRUPT_VIDEO_VBL) = TRUE
               /\ On(d, INTERRUPT_VIDEO_VBL) = Conv(c + VblVideoCycleOffset)
          ELSE InUse(d, INTERRUPT_VIDEO_VBL) = InUse(b, INTERRUPT_VIDEO_VBL)
       /\ \A g \in InterruptId \ {INTERRUPT_VIDEO_VBL} : Kept(b, d, g)
  <2>1. CASE w.nHBL = w.nScanlinesPerFrame - 1
    <3>1. AddedAt(b, d, INTERRUPT_VIDEO_VBL, Conv(w.nCyclesPerLine + VblVideoCycleOffset))
      BY <1>9, <1>10, <2>1, AddVBLDoes
    <3> QED BY <1>4, <1>9, <2>1, <3>1 DEF AddedAt
  <2>2. CASE w.nHBL # w.nScanlinesPerFrame - 1
    <3>1. d = b
      BY <1>9, <1>10, <2>2 DEF AddVBL
    <3> QED BY <1>9, <2>2, <3>1 DEF Kept
  <2> QED BY <2>1, <2>2
<1>12. /\ InUse(d, INTERRUPT_VIDEO_HBL) = TRUE /\ On(d, INTERRUPT_VIDEO_HBL) = Conv(c)
       /\ InUse(b, INTERRUPT_VIDEO_VBL) = InUse(s, INTERRUPT_VIDEO_VBL)
       /\ Kept(s, d, INTERRUPT_VIDEO_ENDLINE) /\ Kept(s, d, INTERRUPT_IKBD_AUTOSEND)
  BY <1>7, <1>9, <1>11, Entries DEF Kept, On
<1>13. t = IF ~w.RestartVideoCounter THEN d
           ELSE IF w.nHBL = line /\ cycle >= RestartVideoCounter_Pos
                THEN [d EXCEPT !.vid.RestartVideoCounter = FALSE]
                ELSE Video_AddInterruptHBL(d, w.nHBL, RestartVideoCounter_Pos)
  BY <1>1, <1>6, <1>8, <1>10 DEF NextLine, WithVideo
<1>14. CASE ~w.RestartVideoCounter
  BY <1>2, <1>4, <1>11, <1>12, <1>13, <1>14 DEF NewLine, NextHblPos
<1>15. CASE w.RestartVideoCounter /\ w.nHBL = line /\ cycle >= RestartVideoCounter_Pos
  <2>1. CounterReloaded(d, t)
    BY <1>11, <1>13, <1>15, WithoutRestart
  <2>2. /\ Works(t) /\ t.vid.RestartVideoCounter = FALSE
        /\ t.vid.nHBL = w.nHBL /\ t.vid.nScanlinesPerFrame = w.nScanlinesPerFrame
        /\ t.vid.nCyclesPerLine = c /\ t.vid.HBL_CyclePos = c
        /\ t.vid.StartCycle = w.StartCycle /\ t.vid.FrameCycles = w.FrameCycles
        /\ t.vid.bUseHighRes = w.bUseHighRes /\ t.vid.bUseVDIRes = w.bUseVDIRes
        /\ t.vid.events = w.events /\ t.vid.sincePoll = w.sincePoll
        /\ \A h \in InterruptId : InUse(t, h) = InUse(d, h) /\ Time(t, h) = Time(d, h)
                                  /\ On(t, h) = On(d, h)
    BY <1>4, <1>11, <2>1 DEF CounterReloaded, Kept
  <2>3. /\ InUse(t, INTERRUPT_VIDEO_HBL) = TRUE /\ On(t, INTERRUPT_VIDEO_HBL) = Conv(c)
        /\ NextHblPos(t.vid) = c
        /\ InUse(t, INTERRUPT_VIDEO_VBL) = InUse(d, INTERRUPT_VIDEO_VBL)
        /\ On(t, INTERRUPT_VIDEO_VBL) = On(d, INTERRUPT_VIDEO_VBL)
        /\ Kept(s, t, INTERRUPT_VIDEO_ENDLINE) /\ Kept(s, t, INTERRUPT_IKBD_AUTOSEND)
    BY <1>12, <2>2, Entries DEF Kept, NextHblPos
  <2> QED BY <1>2, <1>4, <1>11, <1>12, <2>2, <2>3 DEF NewLine
<1>16. CASE w.RestartVideoCounter /\ ~(w.nHBL = line /\ cycle >= RestartVideoCounter_Pos)
  <2>1. PICK n \in Int, p \in Int : n = w.nHBL /\ p = RestartVideoCounter_Pos
    BY <1>5
  <2>2. ~w.bUseVDIRes /\ t = Video_AddInterruptHBL(d, n, p)
    BY <1>4, <1>13, <1>16, <2>1
  <2>3. AddedAt(d, t, INTERRUPT_VIDEO_HBL, Conv(p))
    BY <1>5, <1>11, <2>1, <2>2, AddHBLDoes
  <2>4. /\ Works(t) /\ t.vid = w
        /\ InUse(t, INTERRUPT_VIDEO_HBL) = TRUE
        /\ On(t, INTERRUPT_VIDEO_HBL) = Conv(RestartVideoCounter_Pos)
        /\ \A g \in InterruptId \ {INTERRUPT_VIDEO_HBL} : Kept(d, t, g)
    BY <1>11, <2>1, <2>3 DEF AddedAt
  <2>5. /\ NextHblPos(t.vid) = RestartVideoCounter_Pos
        /\ InUse(t, INTERRUPT_VIDEO_VBL) = InUse(d, INTERRUPT_VIDEO_VBL)
        /\ On(t, INTERRUPT_VIDEO_VBL) = On(d, INTERRUPT_VIDEO_VBL)
        /\ Kept(s, t, INTERRUPT_VIDEO_ENDLINE) /\ Kept(s, t, INTERRUPT_IKBD_AUTOSEND)
    BY <1>11, <1>12, <1>16, <2>4, Entries DEF Kept, NextHblPos, On
  <2> QED BY <1>2, <1>4, <1>11, <1>12, <2>4, <2>5 DEF NewLine
<1> QED BY <1>14, <1>15, <1>16

LEMMA NextLineInv ==
  ASSUME RealTimings, FrameInv(st), Due(INTERRUPT_VIDEO_HBL), ~st.vid.RestartVideoCounter,
         st.vid.nHBL + 1 < st.vid.nScanlinesPerFrame, NEW line, NEW cycle,
         NEW t, t = NextLine(Acknowledge(st), line, cycle)
  PROVE  FrameInv(t)
<1>1. PICK a, v : a = Acknowledge(st) /\ v = st.vid
  OBVIOUS
<1>2. /\ st \in Machine /\ v \in VideoState
      /\ Frame(st) /\ Chain(st) /\ Lines(st) /\ Polled(st)
      /\ Works(a) /\ a \in Machine /\ a.vid = v
      /\ InUse(st, INTERRUPT_VIDEO_HBL)
      /\ \A g \in InterruptId \ {INTERRUPT_VIDEO_HBL} : Kept(st, a, g)
  BY <1>1, CalledFacts, Entries
<1>3. /\ v.nHBL \in Nat /\ v.nScanlinesPerFrame \in Nat /\ v.nCyclesPerLine \in Nat
      /\ v.StartCycle \in Nat /\ v.FrameCycles \in Nat /\ v.bUseHighRes \in BOOLEAN
      /\ ~v.bUseVDIRes /\ FreqHz(v) \in Freq
  BY <1>1, <1>2, VideoFacts, FreqType DEF Chain
<1>4. PICK n \in Nat, m \in Nat : n = v.nHBL + 1 /\ m = v.nScanlinesPerFrame /\ n < m /\ n > 0
  <2>1. v.nHBL + 1 < v.nScanlinesPerFrame
    BY <1>1
  <2> QED BY ONLY <2>1, <1>3
<1>5. PICK c : c = CYCLES_PER_LINE[FreqHz(v)]
  OBVIOUS
<1>6. NewLine(a, t, v, c)
  BY <1>1, <1>2, <1>3, <1>5, NextLineDoes
<1>7. /\ Works(t) /\ t \in Machine
      /\ t.vid.nHBL = n /\ t.vid.nScanlinesPerFrame = m
      /\ t.vid.nCyclesPerLine = c /\ t.vid.HBL_CyclePos = c
      /\ t.vid.StartCycle = v.StartCycle + v.nCyclesPerLine
      /\ t.vid.FrameCycles = v.FrameCycles
      /\ t.vid.bUseHighRes = v.bUseHighRes /\ t.vid.bUseVDIRes = v.bUseVDIRes
      /\ t.vid.events = v.events /\ t.vid.sincePoll = v.sincePoll
      /\ InUse(t, INTERRUPT_VIDEO_HBL) = TRUE
      /\ On(t, INTERRUPT_VIDEO_HBL) = Conv(NextHblPos(t.vid))
      /\ Kept(a, t, INTERRUPT_VIDEO_ENDLINE) /\ Kept(a, t, INTERRUPT_IKBD_AUTOSEND)
  BY <1>4, <1>6 DEF NewLine, Works
<1>8. t.vid.RestartVideoCounter =>
        /\ FreqHz(v) # 71 /\ \E f \in {50, 60} : n = RestartVideoCounter_Line[f]
        /\ n < m - 1 /\ RestartVideoCounter_Pos <= c
  <2>1. SUFFICES ASSUME t.vid.RestartVideoCounter
                 PROVE  /\ FreqHz(v) # 71
                        /\ \E f \in {50, 60} : n = RestartVideoCounter_Line[f]
                        /\ n < m - 1 /\ RestartVideoCounter_Pos <= c
    OBVIOUS
  <2>2. PICK f \in {50, 60} : FreqHz(v) # 71 /\ n = RestartVideoCounter_Line[f]
    BY <1>6, <1>7, <2>1 DEF NewLine
  <2>3. ~v.bUseHighRes
    BY <2>2 DEF FreqHz
  <2>4. PICK g \in {50, 60} : v.nScanlinesPerFrame = SCANLINES_PER_FRAME[g]
    BY <1>4, <1>1, <1>2, <2>3 DEF Frame
  <2>5. n # m - 1
    BY <1>4, <2>2, <2>4 DEF RealTimings
  <2>6. RestartVideoCounter_Pos <= c
    BY <1>2, <1>5, <2>3, FreqType DEF RealTimings
  <2> QED BY <1>4, <2>2, <2>5, <2>6
<1>9. /\ InUse(t, INTERRUPT_VIDEO_VBL) <=> n = m - 1
      /\ n = m - 1 =>
           On(t, INTERRUPT_VIDEO_VBL) = Conv(c + VblVideoCycleOffset)
  <2>1. CASE n = m - 1
    <3>1. InUse(t, INTERRUPT_VIDEO_VBL) = TRUE
          /\ On(t, INTERRUPT_VIDEO_VBL) = Conv(c + VblVideoCycleOffset)
      BY <1>4, <1>6, <1>7, <2>1 DEF NewLine
    <3> QED BY <2>1, <3>1
  <2>2. CASE n # m - 1
    <3>1. InUse(t, INTERRUPT_VIDEO_VBL) = InUse(a, INTERRUPT_VIDEO_VBL)
      BY <1>4, <1>6, <1>7, <2>2 DEF NewLine
    <3>2. InUse(a, INTERRUPT_VIDEO_VBL) = InUse(st, INTERRUPT_VIDEO_VBL)
      BY <1>2, Entries DEF Kept
    <3>3. ~InUse(st, INTERRUPT_VIDEO_VBL)
      BY <1>4, <1>1, <1>2, <1>3, <2>2 DEF Chain
    <3> QED BY <2>2, <3>1, <3>2, <3>3
  <2> QED BY <2>1, <2>2
<1>10. /\ Kept(st, t, INTERRUPT_VIDEO_ENDLINE) /\ Kept(st, t, INTERRUPT_IKBD_AUTOSEND)
  BY <1>2, <1>7, Entries DEF Kept
<1>11. Frame(t)
  <2>1. t.vid.RestartVideoCounter => n > 0 /\ n < m - 1 /\ RestartVideoCounter_Pos <= c
    BY <1>4, <1>8
  <2> QED BY <1>4, <1>1, <1>2, <1>3, <1>7, <2>1 DEF Frame
<1>12. Chain(t)
  BY <1>4, <1>3, <1>7, <1>9 DEF Chain
<1>13. Order(t)
  <2>1. SUFFICES ASSUME n = m - 1
                 PROVE  /\ On(t, INTERRUPT_VIDEO_HBL) < On(t, INTERRUPT_VIDEO_VBL)
                        /\ On(t, INTERRUPT_VIDEO_VBL) >= Conv(c + VblVideoCycleOffset)
    BY <1>7 DEF Order
  <2>2. On(t, INTERRUPT_VIDEO_HBL) = Conv(c)
    BY <1>4, <1>7, <1>8, <2>1 DEF NextHblPos
  <2>3. PICK x \in Int : x = c + VblVideoCycleOffset /\ c \in Int /\ c < x
    BY <1>3, <1>5, Timings DEF RealTimings
  <2>4. Conv(x) \in Int /\ Conv(c) < Conv(x)
    BY <2>3, ConvLess, ConvType
  <2> QED BY <1>9, <2>1, <2>2, <2>3, <2>4
<1>14. Grid(t)
  <2>1. n >= m - 1 => n = m - 1
    BY <1>4
  <2> QED BY <1>7, <1>9, <2>1 DEF Grid
<1>15. Lines(t)
  <2>1. SUFFICES ASSUME Whole(st)
                 PROVE  v.events = v.nHBL + 1 /\ EndToCome(t)
    <3>1. Whole(t) = Whole(st)
      BY <1>1, <1>7 DEF Whole
    <3>2. n # 0 /\ n < m
      BY <1>4
    <3> QED BY <1>4, <1>7, <2>1, <3>1, <3>2 DEF Lines
  <2>2. v.events = v.nHBL + 1 /\ EndPassed(st)
    BY <1>1, <2>1, EndBeforeHBL
  <2>3. PICK f \in LineFreqs(v) :
          /\ InUse(st, INTERRUPT_VIDEO_ENDLINE)
          /\ On(st, INTERRUPT_VIDEO_ENDLINE) = Conv(v.nCyclesPerLine + LINE_END_CYCLE[f])
    BY <1>4, <1>1, <1>3, <2>2 DEF EndPassed
  <2>4. PICK e \in Int : e = LINE_END_CYCLE[f] /\ Line_Set_Pal < e /\ e < c
    <3>1. f \in Freq
      BY <1>2, <2>3, FreqType
    <3>2. Line_Set_Pal < LINE_END_CYCLE[f] /\ LINE_END_CYCLE[f] \in Int
      BY <3>1, Timings DEF RealTimings
    <3>3. CASE v.bUseHighRes
      <4>1. f = FreqHz(v)
        BY <1>2, <2>3, <3>3, FreqType
      <4> QED BY <1>5, <3>1, <3>2, <4>1 DEF RealTimings
    <3>4. CASE ~v.bUseHighRes
      <4>1. f \in {50, 60} /\ FreqHz(v) \in {50, 60}
        BY <1>2, <2>3, <3>4, FreqType
      <4> QED BY <1>5, <3>2, <4>1 DEF RealTimings
    <3> QED BY <1>3, <3>3, <3>4
  <2>5. On(t, INTERRUPT_VIDEO_ENDLINE) = Conv(e)
    <3>1. PICK x \in Int, y \in Int, z \in Int, k \in Int :
            /\ x = v.nCyclesPerLine /\ y = v.StartCycle /\ z = y + x /\ k = x + e
      BY <1>3, <2>4
    <3>2. Conv(z) = Conv(y) + Conv(x) /\ Conv(y) \in Int /\ Conv(x) \in Int
      <4>1. z = y + x
        BY <3>1
      <4> QED BY ONLY <4>1, x \in Int, y \in Int, z \in Int, ConvAdds
    <3>3. Conv(k) = Conv(x) + Conv(e) /\ Conv(e) \in Int
      BY ONLY <3>1, x \in Int, e \in Int, ConvAdds
    <3>4. Time(st, INTERRUPT_VIDEO_ENDLINE) \in Int /\ Conv(v.FrameCycles) \in Int
      BY <1>2, <1>3, MachineFacts, Entries, ConvType
    <3>5. Time(st, INTERRUPT_VIDEO_ENDLINE) + Conv(v.FrameCycles) - Conv(y) = Conv(k)
      BY <1>1, <2>3, <2>4, <3>1 DEF On
    <3>6. On(t, INTERRUPT_VIDEO_ENDLINE)
            = Time(st, INTERRUPT_VIDEO_ENDLINE) + Conv(v.FrameCycles) - Conv(z)
      BY <1>7, <1>10, <3>1 DEF On, Kept
    <3> QED BY <3>2, <3>3, <3>4, <3>5, <3>6
  <2>6. LineHbl(t) = Conv(c)
    BY <1>7 DEF LineHbl, NextHblPos
  <2>7. Conv(e) < Conv(c) /\ Conv(Line_Set_Pal) < Conv(e) /\ Conv(e) \in Int
        /\ Conv(Line_Set_Pal) \in Int
    <3>1. c \in Int /\ Line_Set_Pal \in Int
      BY <1>3, <1>5, Timings
    <3> QED BY <2>4, <3>1, ConvLess, ConvType
  <2>8. InUse(t, INTERRUPT_VIDEO_ENDLINE)
    BY <1>10, <2>3 DEF Kept
  <2> QED BY <2>2, <2>5, <2>6, <2>7, <2>8 DEF EndToCome
<1>16. Polled(t)
  BY <1>1, <1>2, <1>7, <1>10 DEF Polled, Kept
<1> QED BY <1>7, <1>11, <1>12, <1>13, <1>14, <1>15, <1>16 DEF FrameInv, Video

(* The HBL of the last line. *)
LEMMA LastLineInv ==
  ASSUME RealTimings, FrameInv(st), Due(INTERRUPT_VIDEO_HBL), ~st.vid.RestartVideoCounter,
         ~(st.vid.nHBL + 1 < st.vid.nScanlinesPerFrame),
         NEW t, t = [Acknowledge(st) EXCEPT !.vid.nHBL = st.vid.nHBL + 1]
  PROVE  FrameInv(t)
<1>1. PICK a, v : a = Acknowledge(st) /\ v = st.vid
  OBVIOUS
<1>2. /\ st \in Machine /\ v \in VideoState
      /\ Frame(st) /\ Chain(st) /\ Grid(st) /\ Lines(st) /\ Polled(st)
      /\ Works(a) /\ a \in Machine /\ a.vid = v
      /\ InUse(st, INTERRUPT_VIDEO_HBL) /\ InUse(a, INTERRUPT_VIDEO_HBL) = FALSE
      /\ \A g \in InterruptId \ {INTERRUPT_VIDEO_HBL} : Kept(st, a, g)
  BY <1>1, CalledFacts, Entries
<1>3. /\ v.nHBL \in Nat /\ v.nScanlinesPerFrame \in Nat /\ v.nCyclesPerLine \in Nat
      /\ v.StartCycle \in Nat /\ v.FrameCycles \in Nat
      /\ ~v.bUseVDIRes /\ v.nHBL < v.nScanlinesPerFrame
  BY <1>1, <1>2, VideoFacts DEF Chain
<1>4. PICK n \in Nat : n = v.nHBL + 1 /\ n = v.nScanlinesPerFrame /\ v.nHBL = n - 1 /\ n >= 2
  BY <1>1, <1>2, <1>3 DEF Frame
<1>5. PICK w : w = [v EXCEPT !.nHBL = n]
  OBVIOUS
<1>6. /\ w \in VideoState
      /\ w.nHBL = n /\ w.nScanlinesPerFrame = v.nScanlinesPerFrame
      /\ w.nCyclesPerLine = v.nCyclesPerLine /\ w.StartCycle = v.StartCycle
      /\ w.HBL_CyclePos = v.HBL_CyclePos /\ w.RestartVideoCounter = v.RestartVideoCounter
      /\ w.FrameCycles = v.FrameCycles
      /\ w.bUseHighRes = v.bUseHighRes /\ w.bUseVDIRes = v.bUseVDIRes
      /\ w.events = v.events /\ w.sincePoll = v.sincePoll
  BY <1>2, <1>5 DEF VideoState
<1>7. t = WithVideo(a, w)
  BY <1>1, <1>2, <1>4, <1>5 DEF WithVideo
<1>8. Works(t) /\ t \in Machine /\ t.vid = w /\ \A h \in InterruptId : Kept(a, t, h)
  <2>1. w \in VideoState
    BY <1>6
  <2>2. t \in Machine /\ t.vid = w /\ \A h \in InterruptId : Kept(a, t, h)
    BY ONLY <1>2, <1>7, <2>1, VideoOnly
  <2>3. Works(t)
    BY ONLY <1>2, <1>7, <2>1, VideoOnlyWorks
  <2> QED BY <2>2, <2>3
<1>9. /\ InUse(t, INTERRUPT_VIDEO_HBL) = FALSE
      /\ Kept(st, t, INTERRUPT_VIDEO_VBL) /\ Kept(st, t, INTERRUPT_VIDEO_ENDLINE)
      /\ Kept(st, t, INTERRUPT_IKBD_AUTOSEND)
      /\ On(t, INTERRUPT_VIDEO_VBL) = On(st, INTERRUPT_VIDEO_VBL)
  BY <1>1, <1>2, <1>6, <1>8, Entries DEF Kept, On
<1>10. Frame(t)
  BY <1>1, <1>2, <1>4, <1>6, <1>8 DEF Frame
<1>11. Chain(t)
  <2>1. InUse(st, INTERRUPT_VIDEO_VBL)
    BY <1>1, <1>2, <1>3, <1>4 DEF Chain
  <2> QED BY <1>3, <1>4, <1>6, <1>8, <1>9, <2>1 DEF Chain, Kept
<1>12. Order(t)
  BY <1>4, <1>6, <1>8 DEF Order
<1>13. Whole(t) = Whole(st)
  BY <1>1, <1>6, <1>8 DEF Whole
<1>14. Grid(t)
  BY <1>1, <1>2, <1>4, <1>6, <1>8, <1>9, <1>13 DEF Grid
<1>15. Lines(t)
  <2>1. ASSUME Whole(st)
        PROVE  v.HBL_CyclePos = v.nCyclesPerLine /\ v.events = n
               /\ ~InUse(t, INTERRUPT_VIDEO_ENDLINE)
    <3>1. v.events = v.nHBL + 1 /\ EndPassed(st)
      BY <1>1, <2>1, EndBeforeHBL
    <3>2. ~InUse(st, INTERRUPT_VIDEO_ENDLINE)
      BY <1>1, <1>4, <3>1 DEF EndPassed
    <3>3. v.HBL_CyclePos = v.nCyclesPerLine
      BY <1>1, <1>2, <2>1 DEF Lines
    <3> QED BY <1>4, <1>9, <3>1, <3>2, <3>3 DEF Kept
  <2> QED BY <1>4, <1>6, <1>8, <1>13, <2>1 DEF Lines
<1>16. Polled(t)
  BY <1>1, <1>2, <1>6, <1>8, <1>9 DEF Polled, Kept
<1> QED BY <1>8, <1>10, <1>11, <1>12, <1>14, <1>15, <1>16 DEF FrameInv, Video

LEMMA HBLInv ==
  ASSUME RealTimings, FrameInv(st), HBLHandler
  PROVE  FrameInv(st')
<1>1. Due(INTERRUPT_VIDEO_HBL) /\ st' = Video_InterruptHandler_HBL(st)
  BY DEF HBLHandler
<1>2. CASE st.vid.RestartVideoCounter
  <2>1. st' = RestartHBL(Acknowledge(st))
    BY <1>1, <1>2 DEF Video_InterruptHandler_HBL
  <2> QED BY <1>1, <1>2, <2>1, RestartHBLInv
<1>3. CASE ~st.vid.RestartVideoCounter /\ st.vid.nHBL + 1 < st.vid.nScanlinesPerFrame
  <2>1. st' = NextLine(Acknowledge(st), HblCounterVideo(st.vid), LineCycles(st.vid))
    BY <1>1, <1>3 DEF Video_InterruptHandler_HBL
  <2> QED BY <1>1, <1>3, <2>1, NextLineInv
<1>4. CASE ~st.vid.RestartVideoCounter /\ ~(st.vid.nHBL + 1 < st.vid.nScanlinesPerFrame)
  <2>1. st' = [Acknowledge(st) EXCEPT !.vid.nHBL = st.vid.nHBL + 1]
    BY <1>1, <1>4 DEF Video_InterruptHandler_HBL
  <2> QED BY <1>1, <1>4, <2>1, LastLineInv
<1> QED BY <1>2, <1>3, <1>4

-----------------------------------------------------------------------------
(* The end-of-line handler. *)

(* It is called before the HBL of the line that ends: a tie is decided by  *)
(* the order of the entries, and a video counter that has not been         *)
(* reloaded yet is reloaded first.                                         *)
LEMMA EndToComeWhenCalled ==
  ASSUME RealTimings, FrameInv(st), Due(INTERRUPT_VIDEO_ENDLINE), Whole(st)
  PROVE  /\ EndToCome(st) /\ st.vid.events = st.vid.nHBL
         /\ st.vid.nHBL < st.vid.nScanlinesPerFrame
<1>1. PICK a, v : a = Acknowledge(st) /\ v = st.vid
  OBVIOUS
<1>2. /\ Works(st) /\ st \in Machine /\ v \in VideoState
      /\ Frame(st) /\ Chain(st) /\ Grid(st) /\ Lines(st)
      /\ InUse(st, INTERRUPT_VIDEO_ENDLINE)
      /\ \A g \in Handlers : InUse(st, g) => On(st, INTERRUPT_VIDEO_ENDLINE) <= On(st, g)
  BY <1>1, CalledFacts, Entries
<1>3. /\ v.nHBL \in Nat /\ v.nScanlinesPerFrame \in Nat /\ v.nCyclesPerLine \in Nat
      /\ v.FrameCycles \in Nat /\ v.StartCycle \in Nat
      /\ ~v.bUseVDIRes
  BY <1>1, <1>2, VideoFacts DEF Whole
<1>4. SUFFICES ASSUME v.nHBL < v.nScanlinesPerFrame, EndPassed(st)
               PROVE  FALSE
  BY <1>1, <1>2 DEF Lines
<1>5. InUse(st, INTERRUPT_VIDEO_HBL)
  BY <1>1, <1>2, <1>3, <1>4 DEF Chain
<1>6. /\ On(st, INTERRUPT_VIDEO_ENDLINE) \in Int /\ On(st, INTERRUPT_VIDEO_HBL) \in Int
      /\ On(st, INTERRUPT_VIDEO_ENDLINE) <= On(st, INTERRUPT_VIDEO_HBL)
  BY <1>2, <1>5, OnFacts, Entries
<1>7. PICK f \in LineFreqs(v) :
        /\ On(st, INTERRUPT_VIDEO_ENDLINE) >= LineHbl(st)
        /\ On(st, INTERRUPT_VIDEO_ENDLINE) = Conv(v.nCyclesPerLine + LINE_END_CYCLE[f])
  BY <1>1, <1>2, <1>4 DEF EndPassed
<1>8. CASE v.RestartVideoCounter
  <2>1. /\ On(st, INTERRUPT_VIDEO_HBL) = Conv(RestartVideoCounter_Pos)
        /\ RestartVideoCounter_Pos <= v.nCyclesPerLine
    BY <1>1, <1>2, <1>4, <1>8 DEF Grid, Frame, NextHblPos
  <2>2. PICK x \in Int : x = v.nCyclesPerLine + LINE_END_CYCLE[f] /\ RestartVideoCounter_Pos < x
                         /\ RestartVideoCounter_Pos \in Int
    <3>1. f \in Freq
      BY <1>2, FreqType
    <3> QED BY <1>3, <2>1, <3>1, Timings
  <2>3. Conv(RestartVideoCounter_Pos) < Conv(x)
    BY <2>2, ConvLess
  <2> QED BY <1>6, <1>7, <2>1, <2>2, <2>3
<1>9. CASE ~v.RestartVideoCounter
  <2>1. On(st, INTERRUPT_VIDEO_ENDLINE) = On(st, INTERRUPT_VIDEO_HBL)
    BY <1>1, <1>6, <1>7, <1>9 DEF LineHbl
  <2>0. PICK c : c = st.cyc
    OBVIOUS
  <2>2. PICK b \in Int : c = st.cyc /\ b = Behind(c) /\ c \in SchedulerState
    BY <1>2, <2>0, MachineFacts
  <2>3. Time(st, INTERRUPT_VIDEO_ENDLINE) = Time(st, INTERRUPT_VIDEO_HBL)
    <3>1. /\ Time(st, INTERRUPT_VIDEO_ENDLINE) \in Int /\ Time(st, INTERRUPT_VIDEO_HBL) \in Int
          /\ Conv(v.FrameCycles) \in Int /\ Conv(v.StartCycle) \in Int
      BY <1>2, <1>3, MachineFacts, Entries, ConvType
    <3> QED BY <1>1, <2>1, <3>1 DEF On
  <2>4. c.Cycles[INTERRUPT_VIDEO_ENDLINE] = c.Cycles[INTERRUPT_VIDEO_HBL]
        /\ c.Cycles[INTERRUPT_VIDEO_HBL] \in Int
    <3>1. c.Cycles[INTERRUPT_VIDEO_ENDLINE] \in Int /\ c.Cycles[INTERRUPT_VIDEO_HBL] \in Int
      BY <2>2, Entries DEF SchedulerState
    <3>2. c.bUsed[INTERRUPT_VIDEO_ENDLINE] /\ c.bUsed[INTERRUPT_VIDEO_HBL]
      BY <1>2, <1>5, <2>2 DEF InUse
    <3>3. /\ Time(st, INTERRUPT_VIDEO_ENDLINE) = c.Cycles[INTERRUPT_VIDEO_ENDLINE] - b
          /\ Time(st, INTERRUPT_VIDEO_HBL) = c.Cycles[INTERRUPT_VIDEO_HBL] - b
      BY <2>2, <3>2 DEF Time, TimeOf
    <3>4. PICK p \in Int, q \in Int :
            p = c.Cycles[INTERRUPT_VIDEO_ENDLINE] /\ q = c.Cycles[INTERRUPT_VIDEO_HBL]
      BY <3>1
    <3>5. p - b = q - b
      BY <2>3, <3>3, <3>4
    <3>6. p = q
      BY ONLY <3>5, p \in Int, q \in Int, b \in Int
    <3> QED BY <3>4, <3>6
  <2>5. INTERRUPT_VIDEO_ENDLINE \in Candidates(c) /\ IsFirst(c, INTERRUPT_VIDEO_ENDLINE)
    <3>1. /\ INTERRUPT_IKBD_AUTOSEND \in Candidates(c) /\ c.ActiveInterrupt = INTERRUPT_VIDEO_ENDLINE
      BY <1>2, <2>2, ActiveFacts, DueFacts DEF RealTimings
    <3>2. c.ActiveInterrupt = LowestInterrupt(c) /\ TableOK(c)
      BY <1>2, <2>2 DEF Works, Chosen, TableOK, SchedulerState
    <3> QED BY <3>1, <3>2, LowestFacts
  <2>6. INTERRUPT_VIDEO_HBL \in Candidates(c)
    BY <1>5, <2>2, <2>4, <2>5, Entries DEF Candidates, InUse
  <2>7. INTERRUPT_VIDEO_ENDLINE <= INTERRUPT_VIDEO_HBL
    BY <2>4, <2>5, <2>6 DEF IsFirst
  <2>8. INTERRUPT_VIDEO_HBL < INTERRUPT_VIDEO_ENDLINE
        /\ INTERRUPT_VIDEO_HBL \in Nat /\ INTERRUPT_VIDEO_ENDLINE \in Nat
    BY FrameEntriesAssumption, HandlersAssumption
  <2> QED BY <2>7, <2>8
<1> QED BY <1>8, <1>9

(* Only the number of end-of-line events changes in the video state. *)
LEMMA EventsOnly ==
  ASSUME NEW s \in Machine, NEW e \in Int, NEW t, t = [s EXCEPT !.vid.events = e]
  PROVE  \E w \in VideoState : /\ w = [s.vid EXCEPT !.events = e]
                               /\ t = WithVideo(s, w)
<1>1. s.vid \in VideoState
  BY MachineFacts
<1>2. PICK w : w = [s.vid EXCEPT !.events = e]
  OBVIOUS
<1>3. w \in VideoState
  BY <1>1, <1>2 DEF VideoState
<1>4. t = WithVideo(s, w)
  BY <1>2 DEF WithVideo
<1> QED BY <1>2, <1>3, <1>4

LEMMA NextEndLineDoes ==
  ASSUME NEW s \in Machine, NEW v, v = s.vid, v.nHBL < v.nScanlinesPerFrame,
         NEW t, t = NextEndLine(s)
  PROVE  AddedAt(s, t, INTERRUPT_VIDEO_ENDLINE, Conv(v.nCyclesPerLine + LINE_END_CYCLE[FreqHz(v)]))
<1>1. /\ v \in VideoState /\ v.nHBL \in Int /\ v.nHBL \in Nat /\ v.nScanlinesPerFrame \in Nat
      /\ v.nCyclesPerLine \in Nat /\ v.StartCycle \in Nat /\ v.FrameCycles \in Nat
      /\ v.nHBL <= v.nHBL
  BY MachineFacts, VideoFacts
<1>2. PICK e \in Nat : e = LINE_END_CYCLE[FreqHz(v)]
  BY <1>1, FreqType, Timings
<1>3. PICK k \in Int, p \in Int, n \in Int :
        /\ k = v.FrameCycles - v.StartCycle /\ p = v.nCyclesPerLine + e /\ n = v.nHBL
  BY <1>1, <1>2
<1>4. PICK x \in Int : x = e - k + v.nCyclesPerLine
  BY <1>1, <1>2, <1>3
<1>5. (IF HblCounterVideo(v) = v.nHBL + 1 THEN LineCycles(v) + v.nCyclesPerLine ELSE LineCycles(v)) = k
  <2>1. LineCycles(v) = IF v.nHBL = v.nScanlinesPerFrame \/ HblCounterVideo(v) = v.nHBL + 1
                        THEN k - v.nCyclesPerLine ELSE k
    BY ONLY <1>3 DEF LineCycles
  <2>2. v.nHBL # v.nScanlinesPerFrame /\ k - v.nCyclesPerLine + v.nCyclesPerLine = k
    BY <1>1, <1>3
  <2> QED BY ONLY <2>1, <2>2
<1>6. t = Add(s, x, INTERRUPT_VIDEO_ENDLINE)
  BY <1>2, <1>4, <1>5 DEF NextEndLine
<1>7. x = p + v.StartCycle - v.FrameCycles
  BY <1>1, <1>3, <1>4
<1>8. t = Video_AddInterrupt(s, n, p, INTERRUPT_VIDEO_ENDLINE)
  BY <1>1, <1>3, <1>6, <1>7 DEF Video_AddInterrupt, LineStart
<1>9. AddedAt(s, t, INTERRUPT_VIDEO_ENDLINE, Conv(p))
  <2>1. PICK h \in Handlers : h = INTERRUPT_VIDEO_ENDLINE /\ h # INTERRUPT_IKBD_AUTOSEND
    BY Entries
  <2>2. s.vid.nHBL < s.vid.nScanlinesPerFrame /\ n <= s.vid.nHBL
    BY <1>1, <1>3
  <2> QED BY <1>8, <2>1, <2>2, AddInterruptDoes
<1> QED BY <1>2, <1>3, <1>9

(* The handler: it moves the entry ENDLINE alone. *)
LineEnded(s, t, v) ==
  /\ Works(t)
  /\ t.vid.nHBL = v.nHBL /\ t.vid.nScanlinesPerFrame = v.nScanlinesPerFrame
  /\ t.vid.nCyclesPerLine = v.nCyclesPerLine /\ t.vid.StartCycle = v.StartCycle
  /\ t.vid.HBL_CyclePos = v.HBL_CyclePos /\ t.vid.RestartVideoCounter = v.RestartVideoCounter
  /\ t.vid.FrameCycles = v.FrameCycles
  /\ t.vid.bUseHighRes = v.bUseHighRes /\ t.vid.bUseVDIRes = v.bUseVDIRes
  /\ t.vid.sincePoll = v.sincePoll
  /\ v.bUseVDIRes => t.vid.events = v.events
  /\ ~v.bUseVDIRes => t.vid.events = IF v.events = -1 THEN -1 ELSE v.events + 1
  /\ ~v.bUseVDIRes =>
       IF v.nHBL < v.nScanlinesPerFrame - 1
       THEN /\ InUse(t, INTERRUPT_VIDEO_ENDLINE) = TRUE
            /\ On(t, INTERRUPT_VIDEO_ENDLINE)
                 = Conv(v.nCyclesPerLine + LINE_END_CYCLE[FreqHz(v)])
       ELSE InUse(t, INTERRUPT_VIDEO_ENDLINE) = FALSE
  /\ \A g \in InterruptId \ {INTERRUPT_VIDEO_ENDLINE} : Kept(s, t, g)

LEMMA EndLineDoes ==
  ASSUME RealTimings, FrameInv(st), EndLineHandler
  PROVE  LineEnded(st, st', st.vid)
<1>1. Due(INTERRUPT_VIDEO_ENDLINE) /\ st' = Video_InterruptHandler_EndLine(st)
  BY DEF EndLineHandler
<1>2. PICK a, v, t : a = Acknowledge(st) /\ v = st.vid /\ t = st'
  OBVIOUS
<1>3. /\ st \in Machine /\ v \in VideoState
      /\ Works(a) /\ a \in Machine /\ a.vid = v
      /\ InUse(a, INTERRUPT_VIDEO_ENDLINE) = FALSE
      /\ \A g \in InterruptId \ {INTERRUPT_VIDEO_ENDLINE} : Kept(st, a, g)
  BY <1>1, <1>2, CalledFacts, Entries
<1>4. v.nHBL \in Nat /\ v.nScanlinesPerFrame \in Nat /\ v.events \in Int
  BY <1>3, VideoFacts
<1>5. CASE v.bUseVDIRes
  <2>1. t = a
    BY <1>1, <1>2, <1>5 DEF Video_InterruptHandler_EndLine
  <2> QED BY <1>2, <1>3, <1>5, <2>1 DEF LineEnded
<1>6. CASE ~v.bUseVDIRes
  <2>1. PICK n : n = IF v.nHBL < v.nScanlinesPerFrame - 1 THEN NextEndLine(a) ELSE a
    OBVIOUS
  <2>2. /\ Works(n) /\ n \in Machine /\ n.vid = v
        /\ IF v.nHBL < v.nScanlinesPerFrame - 1
           THEN /\ InUse(n, INTERRUPT_VIDEO_ENDLINE) = TRUE
                /\ On(n, INTERRUPT_VIDEO_ENDLINE)
                     = Conv(v.nCyclesPerLine + LINE_END_CYCLE[FreqHz(v)])
           ELSE InUse(n, INTERRUPT_VIDEO_ENDLINE) = FALSE
        /\ \A g \in InterruptId \ {INTERRUPT_VIDEO_ENDLINE} : Kept(st, n, g)
    <3>1. CASE v.nHBL < v.nScanlinesPerFrame - 1
      <4>1. v.nHBL < v.nScanlinesPerFrame
        BY <1>4, <3>1
      <4>2. AddedAt(a, n, INTERRUPT_VIDEO_ENDLINE,
                    Conv(v.nCyclesPerLine + LINE_END_CYCLE[FreqHz(v)]))
        BY <1>3, <2>1, <3>1, <4>1, NextEndLineDoes
      <4> QED BY <1>3, <3>1, <4>2 DEF AddedAt, Kept
    <3>2. CASE ~(v.nHBL < v.nScanlinesPerFrame - 1)
      <4>1. n = a
        BY <2>1, <3>2
      <4> QED BY <1>3, <3>2, <4>1
    <3> QED BY <3>1, <3>2
  <2>3. PICK e \in Int : e = IF v.events = -1 THEN -1 ELSE v.events + 1
    BY <1>4
  <2>4. t = [n EXCEPT !.vid.events = e]
    <3>1. t = [n EXCEPT !.vid.events = IF @ = -1 THEN -1 ELSE @ + 1]
      BY <1>1, <1>2, <1>6, <2>1, Zenon DEF Video_InterruptHandler_EndLine
    <3> QED BY ONLY <2>2, <2>3, <3>1
  <2>5. PICK w \in VideoState : w = [v EXCEPT !.events = e] /\ t = WithVideo(n, w)
    BY <2>2, <2>4, EventsOnly
  <2>6. Works(t) /\ t.vid = w /\ \A h \in InterruptId : Kept(n, t, h)
    <3>1. t.vid = w /\ \A h \in InterruptId : Kept(n, t, h)
      BY ONLY <2>2, <2>5, w \in VideoState, VideoOnly
    <3>2. Works(t)
      BY ONLY <2>2, <2>5, w \in VideoState, VideoOnlyWorks
    <3> QED BY <3>1, <3>2
  <2>7. /\ w.nHBL = v.nHBL /\ w.nScanlinesPerFrame = v.nScanlinesPerFrame
        /\ w.nCyclesPerLine = v.nCyclesPerLine /\ w.StartCycle = v.StartCycle
        /\ w.HBL_CyclePos = v.HBL_CyclePos /\ w.RestartVideoCounter = v.RestartVideoCounter
        /\ w.FrameCycles = v.FrameCycles
        /\ w.bUseHighRes = v.bUseHighRes /\ w.bUseVDIRes = v.bUseVDIRes
        /\ w.events = e /\ w.sincePoll = v.sincePoll
    BY <1>3, <2>5 DEF VideoState
  <2>8. /\ InUse(t, INTERRUPT_VIDEO_ENDLINE) = InUse(n, INTERRUPT_VIDEO_ENDLINE)
        /\ On(t, INTERRUPT_VIDEO_ENDLINE) = On(n, INTERRUPT_VIDEO_ENDLINE)
    BY <2>2, <2>6, <2>7, Entries DEF Kept, On
  <2>9. \A g \in InterruptId \ {INTERRUPT_VIDEO_ENDLINE} : Kept(st, t, g)
    BY <2>2, <2>6 DEF Kept
  <2>10. LineEnded(st, t, v)
    BY <1>6, <2>2, <2>3, <2>6, <2>7, <2>8, <2>9 DEF LineEnded
  <2> QED BY <1>2, <2>10
<1> QED BY <1>5, <1>6

LEMMA EndLineInv ==
  ASSUME RealTimings, FrameInv(st), EndLineHandler
  PROVE  FrameInv(st')
<1>1. PICK v, t, a : v = st.vid /\ t = st' /\ a = Acknowledge(st)
  OBVIOUS
<1>2. Due(INTERRUPT_VIDEO_ENDLINE) /\ LineEnded(st, t, v)
  BY <1>1, EndLineDoes DEF EndLineHandler
<1>3. /\ Works(st) /\ st \in Machine /\ v \in VideoState
      /\ Frame(st) /\ Chain(st) /\ Order(st) /\ Grid(st) /\ Lines(st) /\ Polled(st)
      /\ InUse(st, INTERRUPT_VIDEO_ENDLINE)
  BY <1>1, <1>2, CalledFacts, Entries
<1>4. /\ v.nHBL \in Nat /\ v.nScanlinesPerFrame \in Nat /\ v.nCyclesPerLine \in Nat
      /\ v.StartCycle \in Nat /\ v.FrameCycles \in Nat /\ v.events \in Int
      /\ v.nHBL <= v.nScanlinesPerFrame /\ v.nScanlinesPerFrame >= 2
  BY <1>1, <1>3, VideoFacts DEF Frame
<1>5. /\ Works(t)
      /\ t.vid.nHBL = v.nHBL /\ t.vid.nScanlinesPerFrame = v.nScanlinesPerFrame
      /\ t.vid.nCyclesPerLine = v.nCyclesPerLine /\ t.vid.StartCycle = v.StartCycle
      /\ t.vid.HBL_CyclePos = v.HBL_CyclePos
      /\ t.vid.RestartVideoCounter = v.RestartVideoCounter
      /\ t.vid.FrameCycles = v.FrameCycles
      /\ t.vid.bUseHighRes = v.bUseHighRes /\ t.vid.bUseVDIRes = v.bUseVDIRes
      /\ t.vid.sincePoll = v.sincePoll
  BY <1>2 DEF LineEnded
<1>6. /\ Kept(st, t, INTERRUPT_VIDEO_HBL) /\ Kept(st, t, INTERRUPT_VIDEO_VBL)
      /\ Kept(st, t, INTERRUPT_IKBD_AUTOSEND)
      /\ On(t, INTERRUPT_VIDEO_HBL) = On(st, INTERRUPT_VIDEO_HBL)
      /\ On(t, INTERRUPT_VIDEO_VBL) = On(st, INTERRUPT_VIDEO_VBL)
  <2>1. /\ Kept(st, t, INTERRUPT_VIDEO_HBL) /\ Kept(st, t, INTERRUPT_VIDEO_VBL)
        /\ Kept(st, t, INTERRUPT_IKBD_AUTOSEND)
    BY <1>2, Entries DEF LineEnded
  <2> QED BY <1>1, <1>5, <2>1 DEF Kept, On
<1>7. Frame(t)
  BY <1>1, <1>3, <1>5 DEF Frame
<1>8. Chain(t)
  BY <1>1, <1>3, <1>5, <1>6 DEF Chain, Kept
<1>9. Order(t)
  BY <1>1, <1>3, <1>5, <1>6 DEF Order
<1>10. Whole(t) => /\ ~v.bUseVDIRes /\ Whole(st)
                   /\ t.vid.events = v.events + 1
  <2>1. SUFFICES ASSUME Whole(t) PROVE ~v.bUseVDIRes /\ Whole(st) /\ t.vid.events = v.events + 1
    OBVIOUS
  <2>2. ~v.bUseVDIRes
    BY <1>5, <2>1 DEF Whole
  <2>3. t.vid.events = IF v.events = -1 THEN -1 ELSE v.events + 1
    BY <1>2, <2>2 DEF LineEnded
  <2>4. v.events # -1 /\ t.vid.events = v.events + 1
    BY <2>1, <2>3 DEF Whole
  <2> QED BY <1>1, <2>2, <2>4 DEF Whole
<1>11. Grid(t)
  <2>1. NextHblPos(t.vid) = NextHblPos(v)
    BY <1>5 DEF NextHblPos
  <2> QED BY <1>1, <1>3, <1>5, <1>6, <1>10, <2>1 DEF Grid
<1>12. Lines(t)
  <2>1. SUFFICES ASSUME Whole(t) PROVE
          /\ v.HBL_CyclePos = v.nCyclesPerLine
          /\ v.nHBL = 0 => \A f \in LineFreqs(v) :
               On(st, INTERRUPT_VIDEO_HBL) <= Conv(v.nCyclesPerLine + LINE_END_CYCLE[f])
          /\ v.nHBL < v.nScanlinesPerFrame /\ v.events = v.nHBL /\ EndPassed(t)
    BY <1>5, <1>6, <1>10 DEF Lines, LineFreqs
  <2>2. /\ ~v.bUseVDIRes /\ Whole(st)
    BY <1>10, <2>1
  <2>3. EndToCome(st) /\ v.events = v.nHBL /\ v.nHBL < v.nScanlinesPerFrame
    BY <1>1, <1>2, <2>2, EndToComeWhenCalled
  <2>4. /\ v.HBL_CyclePos = v.nCyclesPerLine
        /\ v.nHBL = 0 => \A f \in LineFreqs(v) :
             On(st, INTERRUPT_VIDEO_HBL) <= Conv(v.nCyclesPerLine + LINE_END_CYCLE[f])
    BY <1>1, <1>3, <2>2 DEF Lines
  <2>5. v.FrameCycles - v.StartCycle > Line_Set_Pal
    <3>1. Time(st, INTERRUPT_VIDEO_ENDLINE) <= 0 /\ Time(st, INTERRUPT_VIDEO_ENDLINE) \in Int
      BY <1>2, <1>3, DueFacts, MachineFacts, Entries DEF RealTimings
    <3>0. PICK x \in Int, y \in Int : x = v.FrameCycles /\ y = v.StartCycle
      BY <1>4
    <3>2. PICK z \in Int : x = v.FrameCycles /\ y = v.StartCycle /\ z = x - y
      BY <3>0
    <3>3. x = y + z
      BY <3>2
    <3>4. Conv(x) = Conv(y) + Conv(z) /\ Conv(y) \in Int /\ Conv(z) \in Int /\ Conv(x) \in Int
      BY ONLY <3>3, y \in Int, z \in Int, x \in Int, ConvAdds
    <3>5. Time(st, INTERRUPT_VIDEO_ENDLINE) + Conv(x) - Conv(y) > Conv(Line_Set_Pal)
      BY <1>1, <2>3, <3>2 DEF EndToCome, On
    <3>6. Line_Set_Pal \in Int /\ Conv(Line_Set_Pal) \in Int
      BY Timings, ConvType
    <3>7. Conv(Line_Set_Pal) < Conv(z)
      BY <3>1, <3>4, <3>5, <3>6
    <3>8. Line_Set_Pal < z
      BY <3>6, <3>7, ConvLess
    <3> QED BY <1>4, <3>2, <3>6, <3>8
  <2>6. ASSUME v.nHBL = v.nScanlinesPerFrame - 1
        PROVE  ~InUse(t, INTERRUPT_VIDEO_ENDLINE)
    <3>1. ~(v.nHBL < v.nScanlinesPerFrame - 1)
      BY <1>4, <2>6
    <3>2. InUse(t, INTERRUPT_VIDEO_ENDLINE) = FALSE
      BY <1>2, <2>2, <3>1 DEF LineEnded
    <3> QED BY <3>2
  <2>7. ASSUME v.nHBL # v.nScanlinesPerFrame - 1
        PROVE  /\ InUse(t, INTERRUPT_VIDEO_ENDLINE)
               /\ On(t, INTERRUPT_VIDEO_ENDLINE) >= LineHbl(t)
               /\ \E f \in LineFreqs(v) :
                    On(t, INTERRUPT_VIDEO_ENDLINE) = Conv(v.nCyclesPerLine + LINE_END_CYCLE[f])
    <3>1. v.nHBL < v.nScanlinesPerFrame - 1
      BY <1>4, <2>3, <2>7
    <3>2. PICK f : f = FreqHz(v) /\ f \in LineFreqs(v) /\ f \in Freq
      BY <1>3, FreqType
    <3>3. PICK n \in Int, k \in Int : n = v.nCyclesPerLine /\ k = n + LINE_END_CYCLE[f] /\ n <= k
      BY <1>4, <3>2, Timings
    <3>4. /\ InUse(t, INTERRUPT_VIDEO_ENDLINE) = TRUE
          /\ On(t, INTERRUPT_VIDEO_ENDLINE) = Conv(k)
      BY <1>2, <2>2, <3>1, <3>2, <3>3 DEF LineEnded
    <3>5. Conv(n) <= Conv(k) /\ Conv(n) \in Int /\ Conv(k) \in Int
      BY <3>3, ConvLess, ConvType
    <3>6. LineHbl(t) <= Conv(k)
      <4>1. CASE v.RestartVideoCounter
        BY <1>5, <2>4, <3>3, <3>5, <4>1 DEF LineHbl
      <4>2. CASE ~v.RestartVideoCounter /\ v.nHBL = 0
        BY <1>5, <1>6, <2>4, <3>2, <3>3, <4>2 DEF LineHbl
      <4>3. CASE ~v.RestartVideoCounter /\ v.nHBL # 0
        <5>1. On(st, INTERRUPT_VIDEO_HBL) = Conv(v.HBL_CyclePos)
          BY <1>1, <1>3, <1>4, <2>2, <2>3, <4>3 DEF Grid, NextHblPos
        <5> QED BY <1>5, <1>6, <2>4, <3>3, <3>5, <4>3, <5>1 DEF LineHbl
      <4> QED BY <4>1, <4>2, <4>3
    <3>7. LineHbl(t) \in Int
      <4>1. t \in Machine /\ v.HBL_CyclePos \in Int
        BY <1>3, <1>5, VideoFacts DEF Works
      <4>2. On(t, INTERRUPT_VIDEO_HBL) \in Int /\ Conv(v.HBL_CyclePos) \in Int
        BY <4>1, OnFacts, Entries, ConvType
      <4> QED BY <1>5, <4>2 DEF LineHbl
    <3> QED BY <3>2, <3>3, <3>4, <3>5, <3>6, <3>7
  <2>8. EndPassed(t)
    <3>1. LineFreqs(t.vid) = LineFreqs(v)
      BY <1>5 DEF LineFreqs
    <3> QED BY <1>5, <2>5, <2>6, <2>7, <3>1 DEF EndPassed
  <2> QED BY <2>3, <2>4, <2>8
<1>13. Polled(t)
  BY <1>1, <1>3, <1>5, <1>6 DEF Polled, Kept
<1> QED BY <1>1, <1>5, <1>7, <1>8, <1>9, <1>11, <1>12, <1>13 DEF FrameInv, Video

-----------------------------------------------------------------------------
(* The start of a frame. *)

(* Video_ClearOnVBL has been called. *)
Cleared(v) ==
  /\ v.nHBL = 0 /\ v.StartCycle = 0 /\ v.RestartVideoCounter = FALSE
  /\ v.nScanlinesPerFrame = SCANLINES_PER_FRAME[FreqHz(v)]
  /\ v.nCyclesPerLine = CYCLES_PER_LINE[FreqHz(v)]

(* The first end of line comes before the first HBL, which comes before    *)
(* the second end of line.                                                 *)
InTime(v) ==
  LET HblPos == CYCLES_PER_LINE[FreqHz(v)]
      now == v.FrameCycles
  IN  /\ LINE_END_CYCLE[FreqHz(v)] <= now /\ now < HblPos => now + 4 < HblPos
      /\ HblPos <= now => \A f \in LineFreqs(v) : now + 8 <= HblPos + LINE_END_CYCLE[f]

LEMMA ClearDoes ==
  ASSUME NEW v \in VideoState, NEW w, w = Video_ClearOnVBL(v)
  PROVE  /\ w \in VideoState /\ Cleared(w)
         /\ w.FrameCycles = v.FrameCycles /\ w.events = v.events /\ w.sincePoll = v.sincePoll
         /\ w.bUseHighRes = v.bUseHighRes /\ w.bUseVDIRes = v.bUseVDIRes /\ w.freq = v.freq
<1>1. PICK n \in Nat, c \in Nat : n = SCANLINES_PER_FRAME[FreqHz(v)] /\ c = CYCLES_PER_LINE[FreqHz(v)]
  BY FreqType, Timings
<1>2. PICK u : u = [v EXCEPT !.nHBL = 0, !.StartCycle = 0, !.RestartVideoCounter = FALSE]
  OBVIOUS
<1>3. w = [u EXCEPT !.nScanlinesPerFrame = n, !.nCyclesPerLine = c]
  BY <1>1, <1>2, Zenon DEF Video_ClearOnVBL
<1>4. /\ u \in VideoState
      /\ u.nHBL = 0 /\ u.StartCycle = 0 /\ u.RestartVideoCounter = FALSE
      /\ u.FrameCycles = v.FrameCycles /\ u.events = v.events /\ u.sincePoll = v.sincePoll
      /\ u.bUseHighRes = v.bUseHighRes /\ u.bUseVDIRes = v.bUseVDIRes /\ u.freq = v.freq
  BY <1>2 DEF VideoState
<1>5. /\ w \in VideoState
      /\ w.nHBL = 0 /\ w.StartCycle = 0 /\ w.RestartVideoCounter = FALSE
      /\ w.nScanlinesPerFrame = n /\ w.nCyclesPerLine = c
      /\ w.FrameCycles = v.FrameCycles /\ w.events = v.events /\ w.sincePoll = v.sincePoll
      /\ w.bUseHighRes = v.bUseHighRes /\ w.bUseVDIRes = v.bUseVDIRes /\ w.freq = v.freq
  BY <1>3, <1>4 DEF VideoState
<1>6. FreqHz(w) = FreqHz(v)
  BY <1>5 DEF FreqHz
<1> QED BY <1>1, <1>5, <1>6 DEF Cleared

(* An entry that is asked for a few cycles from now, in a new frame. *)
LEMMA AddNow ==
  ASSUME NEW s \in Machine, NEW v, v = s.vid, v.StartCycle = 0, NEW n \in Nat,
         NEW h \in Handlers, h # INTERRUPT_IKBD_AUTOSEND, NEW t, t = Add(s, n, h)
  PROVE  AddedAt(s, t, h, Conv(v.FrameCycles + n))
<1>1. v \in VideoState /\ v.FrameCycles \in Nat /\ n \in Int
  BY MachineFacts, VideoFacts
<1>2. /\ t \in Machine /\ t.vid = v /\ Fresh(t.cyc) /\ Placed(t, h, Conv(n))
      /\ \A g \in InterruptId \ {h} : Kept(s, t, g)
  BY <1>1, AddDoes
<1>3. PICK x \in Int : x = v.FrameCycles
  BY <1>1
<1>4. PICK y \in Int : x = v.FrameCycles /\ y = x + n
  BY <1>3, <1>1
<1>5. y = x + n
  BY <1>4
<1>6. Conv(y) = Conv(x) + Conv(n) /\ Conv(x) \in Int /\ Conv(n) \in Int
  BY ONLY <1>5, x \in Int, y \in Int, n \in Int, n \in Nat, ConvAdds
<1>7. Time(t, h) = Conv(n) /\ InUse(t, h) = TRUE
  BY <1>2 DEF Placed
<1>8. On(t, h) = Conv(n) + Conv(x) - Conv(0)
  BY <1>2, <1>4, <1>7 DEF On
<1>9. On(t, h) = Conv(v.FrameCycles + n)
  <2>1. On(t, h) = Conv(y)
    BY <1>6, <1>8, ConvZero
  <2> QED BY <1>4, <2>1
<1>10. ASSUME Works(s) PROVE Works(t)
  BY <1>1, <1>10, AddWorks
<1> QED BY <1>2, <1>7, <1>9, <1>10 DEF AddedAt

(* Where the first end of line and the first HBL are. *)
Started(s, t, v) ==
  /\ Works(t)
  /\ t.vid = [v EXCEPT !.HBL_CyclePos = v.nCyclesPerLine]
  /\ InUse(t, INTERRUPT_VIDEO_ENDLINE) = TRUE
  /\ On(t, INTERRUPT_VIDEO_ENDLINE) = IF LINE_END_CYCLE[FreqHz(v)] > v.FrameCycles
                                      THEN Conv(LINE_END_CYCLE[FreqHz(v)])
                                      ELSE Conv(v.FrameCycles + 4)
  /\ InUse(t, INTERRUPT_VIDEO_HBL) = TRUE
  /\ On(t, INTERRUPT_VIDEO_HBL) = IF v.nCyclesPerLine > v.FrameCycles
                                  THEN Conv(v.nCyclesPerLine) ELSE Conv(v.FrameCycles + 8)
  /\ Kept(s, t, INTERRUPT_VIDEO_VBL) /\ Kept(s, t, INTERRUPT_IKBD_AUTOSEND)

LEMMA OnTheFirstLine ==
  ASSUME NEW v \in VideoState, Cleared(v), v.FrameCycles < v.nCyclesPerLine
  PROVE  HblCounterVideo(v) = 0 /\ LineCycles(v) = v.FrameCycles
<1>1. /\ v.FrameCycles \in Nat /\ v.nCyclesPerLine \in Nat /\ v.nHBL = 0 /\ v.StartCycle = 0
      /\ v.nScanlinesPerFrame \in Nat /\ v.nScanlinesPerFrame >= 2
  BY VideoFacts, FreqType, Timings DEF Cleared
<1>2. PICK x \in Nat, y \in Nat, z \in Nat :
        x = v.FrameCycles /\ y = v.nCyclesPerLine /\ z = v.nScanlinesPerFrame /\ z >= 2 /\ x < y
  BY <1>1
<1>3. HblCounterVideo(v) = 0
  BY <1>1, <1>2 DEF HblCounterVideo
<1> QED BY <1>1, <1>2, <1>3 DEF LineCycles

LEMMA StartDoes ==
  ASSUME RealTimings, NEW s, Works(s), NEW v, v = s.vid, Cleared(v), ~v.bUseVDIRes,
         NEW over, NEW t, t = Video_StartInterrupts(s, over)
  PROVE  Started(s, t, v)
<1>1. /\ s \in Machine /\ v \in VideoState /\ FreqHz(v) \in Freq
      /\ v.FrameCycles \in Nat /\ v.nCyclesPerLine \in Nat
      /\ v.nHBL = 0 /\ v.StartCycle = 0 /\ v.nCyclesPerLine = CYCLES_PER_LINE[FreqHz(v)]
      /\ v.nScanlinesPerFrame \in Nat /\ v.nScanlinesPerFrame >= 2
  BY MachineFacts, VideoFacts, FreqType, Timings DEF Works, Cleared
<1>2. PICK p \in Int, x \in Int, e \in Int, z \in Int :
        /\ p = v.nCyclesPerLine /\ p = CYCLES_PER_LINE[FreqHz(v)] /\ x = v.FrameCycles
        /\ e = LINE_END_CYCLE[FreqHz(v)] /\ e < p /\ z = 0
  BY <1>1, Timings DEF RealTimings
<1>3. PICK b : b = IF e > x
                   THEN Video_AddInterruptTimerB(s, HblCounterVideo(v), LineCycles(v), e)
                   ELSE Add(s, 4, INTERRUPT_VIDEO_ENDLINE)
  OBVIOUS
<1>4. /\ Works(b) /\ b \in Machine /\ b.vid = v
      /\ InUse(b, INTERRUPT_VIDEO_ENDLINE) = TRUE
      /\ On(b, INTERRUPT_VIDEO_ENDLINE) = IF e > x THEN Conv(e) ELSE Conv(v.FrameCycles + 4)
      /\ \A g \in InterruptId \ {INTERRUPT_VIDEO_ENDLINE} : Kept(s, b, g)
  <2>1. CASE e > x
    <3>1. HblCounterVideo(v) = 0 /\ LineCycles(v) = v.FrameCycles
      BY <1>1, <1>2, <2>1, OnTheFirstLine
    <3>2. b = Video_AddInterruptTimerB(s, z, x, e)
      BY <1>2, <1>3, <2>1, <3>1
    <3>3. z <= s.vid.nHBL /\ s.vid.nHBL < s.vid.nScanlinesPerFrame /\ x < e
      BY <1>1, <1>2, <2>1
    <3>4. AddedAt(s, b, INTERRUPT_VIDEO_ENDLINE, Conv(e))
      BY <1>1, <3>2, <3>3, AddTimerBDoes
    <3> QED BY <2>1, <3>4 DEF AddedAt
  <2>2. CASE ~(e > x)
    <3>1. b = Add(s, 4, INTERRUPT_VIDEO_ENDLINE)
      BY <1>3, <2>2
    <3>2. PICK h \in Handlers : h = INTERRUPT_VIDEO_ENDLINE /\ h # INTERRUPT_IKBD_AUTOSEND
      BY Entries
    <3>3. AddedAt(s, b, h, Conv(v.FrameCycles + 4))
      BY <1>1, <3>1, <3>2, AddNow
    <3> QED BY <2>2, <3>2, <3>3 DEF AddedAt
  <2> QED BY <2>1, <2>2
<1>5. PICK w : w = [v EXCEPT !.HBL_CyclePos = p]
  OBVIOUS
<1>6. /\ w \in VideoState /\ w.nHBL = v.nHBL /\ w.nScanlinesPerFrame = v.nScanlinesPerFrame
      /\ w.StartCycle = v.StartCycle /\ w.FrameCycles = v.FrameCycles
      /\ w.bUseVDIRes = v.bUseVDIRes
  <2>1. p \in Nat
    BY <1>1, <1>2
  <2> QED BY <1>1, <1>5, <2>1 DEF VideoState
<1>7. PICK c : c = WithVideo(b, w)
  OBVIOUS
<1>8. /\ Works(c) /\ c \in Machine /\ c.vid = w /\ \A g \in InterruptId : Kept(b, c, g)
  <2>1. w \in VideoState
    BY <1>6
  <2>2. c \in Machine /\ c.vid = w /\ \A g \in InterruptId : Kept(b, c, g)
    BY ONLY <1>4, <1>7, <2>1, VideoOnly
  <2>3. Works(c)
    BY ONLY <1>4, <1>7, <2>1, VideoOnlyWorks
  <2> QED BY <2>2, <2>3
<1>9. t = IF p > x THEN Video_AddInterruptHBL(c, HblCounterVideo(v), p)
          ELSE Add(c, 8, INTERRUPT_VIDEO_HBL)
  <2>1. c = [b EXCEPT !.vid.HBL_CyclePos = p]
    BY <1>4, <1>5, <1>7 DEF WithVideo
  <2> QED BY <1>2, <1>3, <2>1, Zenon DEF Video_StartInterrupts
<1>10. /\ Works(t) /\ t.vid = w
       /\ InUse(t, INTERRUPT_VIDEO_HBL) = TRUE
       /\ On(t, INTERRUPT_VIDEO_HBL) = IF p > x THEN Conv(p) ELSE Conv(v.FrameCycles + 8)
       /\ \A g \in InterruptId \ {INTERRUPT_VIDEO_HBL} : Kept(c, t, g)
  <2>1. CASE p > x
    <3>1. HblCounterVideo(v) = 0
      BY <1>1, <1>2, <2>1, OnTheFirstLine
    <3>2. t = Video_AddInterruptHBL(c, z, p)
      BY <1>2, <1>9, <2>1, <3>1
    <3>3. ~c.vid.bUseVDIRes /\ z <= c.vid.nHBL /\ c.vid.nHBL < c.vid.nScanlinesPerFrame
      BY <1>1, <1>2, <1>6, <1>8
    <3>4. AddedAt(c, t, INTERRUPT_VIDEO_HBL, Conv(p))
      BY <1>8, <3>2, <3>3, AddHBLDoes
    <3> QED BY <1>8, <2>1, <3>4 DEF AddedAt
  <2>2. CASE ~(p > x)
    <3>1. t = Add(c, 8, INTERRUPT_VIDEO_HBL)
      BY <1>9, <2>2
    <3>2. PICK h \in Handlers : h = INTERRUPT_VIDEO_HBL /\ h # INTERRUPT_IKBD_AUTOSEND
      BY Entries
    <3>3. AddedAt(c, t, h, Conv(w.FrameCycles + 8))
      BY <1>1, <1>6, <1>8, <3>1, <3>2, AddNow
    <3> QED BY <1>6, <1>8, <2>2, <3>2, <3>3 DEF AddedAt
  <2> QED BY <2>1, <2>2
<1>11. /\ InUse(t, INTERRUPT_VIDEO_ENDLINE) = TRUE
       /\ On(t, INTERRUPT_VIDEO_ENDLINE) = On(b, INTERRUPT_VIDEO_ENDLINE)
       /\ Kept(s, t, INTERRUPT_VIDEO_VBL) /\ Kept(s, t, INTERRUPT_IKBD_AUTOSEND)
  BY <1>4, <1>6, <1>8, <1>10, Entries DEF Kept, On
<1> QED BY <1>2, <1>4, <1>5, <1>10, <1>11 DEF Started

(* In VDI mode a frame is its VBL alone. *)
LEMMA StartVDIInv ==
  ASSUME RealTimings, NEW s, Works(s), Polled(s), Cleared(s.vid), s.vid.bUseVDIRes,
         ~InUse(s, INTERRUPT_VIDEO_HBL), NEW over \in Int, NEW t, t = Video_StartInterrupts(s, over)
  PROVE  FrameInv(t) /\ t.vid = s.vid
<1>1. PICK v : v = s.vid
  OBVIOUS
<1>2. /\ s \in Machine /\ v \in VideoState /\ FreqHz(v) \in Freq
      /\ v.nHBL = 0 /\ v.RestartVideoCounter = FALSE
      /\ v.nScanlinesPerFrame \in Nat /\ v.nCyclesPerLine \in Nat
      /\ v.nScanlinesPerFrame = SCANLINES_PER_FRAME[FreqHz(v)]
      /\ v.nScanlinesPerFrame >= 2
      /\ ~v.bUseHighRes => FreqHz(v) \in {50, 60}
  BY <1>1, MachineFacts, VideoFacts, FreqType, Timings DEF Works, Cleared
<1>3. PICK m \in Nat : m = v.nScanlinesPerFrame * v.nCyclesPerLine
  BY <1>2
<1>4. PICK n \in Int, h \in Handlers :
        n = m - over /\ h = INTERRUPT_VIDEO_VBL /\ h # INTERRUPT_IKBD_AUTOSEND
  BY Entries
<1>5. t = Add(s, n, h)
  BY <1>1, <1>3, <1>4 DEF Video_StartInterrupts
<1>6. Works(t)
  BY <1>4, <1>5, AddWorks
<1>7. /\ t.vid = v /\ Placed(t, h, Conv(n))
      /\ \A g \in InterruptId \ {h} : Kept(s, t, g)
  BY <1>1, <1>2, <1>5, AddDoes
<1>8. /\ InUse(t, INTERRUPT_VIDEO_VBL)
      /\ Kept(s, t, INTERRUPT_VIDEO_HBL) /\ Kept(s, t, INTERRUPT_IKBD_AUTOSEND)
  BY <1>4, <1>7, Entries DEF Placed
<1>9. Frame(t)
  BY <1>2, <1>7 DEF Frame
<1>10. Chain(t)
  BY <1>1, <1>2, <1>7, <1>8 DEF Chain, Kept
<1>11. ~Whole(t) /\ Order(t)
  BY <1>1, <1>7 DEF Whole, Order
<1>12. Grid(t) /\ Lines(t)
  BY <1>11 DEF Grid, Lines
<1>13. Polled(t)
  BY <1>1, <1>7, <1>8 DEF Polled, Kept
<1> QED BY <1>1, <1>6, <1>7, <1>9, <1>10, <1>11, <1>12, <1>13 DEF FrameInv, Video

(* A machine in which a frame can be started. *)
MayStart(s) ==
  /\ Works(s) /\ Polled(s) /\ Cleared(s.vid) /\ ~s.vid.bUseVDIRes
  /\ ~InUse(s, INTERRUPT_VIDEO_VBL)
  /\ s.vid.events = -1 \/ (s.vid.events = 0 /\ InTime(s.vid))

LEMMA StartInv ==
  ASSUME RealTimings, NEW s, MayStart(s), NEW over, NEW t, t = Video_StartInterrupts(s, over)
  PROVE  /\ FrameInv(t) /\ t.vid.nHBL = 0 /\ t.vid.events = s.vid.events
         /\ t.vid.bUseVDIRes = FALSE
<1>0. /\ Works(s) /\ Polled(s) /\ Cleared(s.vid) /\ ~s.vid.bUseVDIRes
      /\ ~InUse(s, INTERRUPT_VIDEO_VBL)
      /\ s.vid.events = -1 \/ (s.vid.events = 0 /\ InTime(s.vid))
  BY DEF MayStart
<1> USE <1>0
<1>1. PICK v : v = s.vid
  OBVIOUS
<1>2. /\ s \in Machine /\ v \in VideoState /\ FreqHz(v) \in Freq /\ FreqHz(v) \in LineFreqs(v)
      /\ LineFreqs(v) \subseteq Freq
      /\ v.nHBL = 0 /\ v.StartCycle = 0 /\ v.RestartVideoCounter = FALSE
      /\ v.nScanlinesPerFrame \in Nat /\ v.nCyclesPerLine \in Nat /\ v.FrameCycles \in Nat
      /\ v.nScanlinesPerFrame = SCANLINES_PER_FRAME[FreqHz(v)]
      /\ v.nCyclesPerLine = CYCLES_PER_LINE[FreqHz(v)]
      /\ v.nScanlinesPerFrame >= 2
      /\ ~v.bUseHighRes => FreqHz(v) \in {50, 60}
  BY <1>1, MachineFacts, VideoFacts, FreqType, Timings DEF Works, Cleared
<1>3. PICK p \in Int, x \in Int, e \in Int :
        /\ p = v.nCyclesPerLine /\ x = v.FrameCycles /\ x >= 0 /\ e = LINE_END_CYCLE[FreqHz(v)]
        /\ Line_Set_Pal < e /\ e < p /\ e > 0
  BY <1>2, Timings DEF RealTimings
<1>4. Started(s, t, v)
  BY <1>1, StartDoes
<1>5. /\ Works(t)
      /\ InUse(t, INTERRUPT_VIDEO_ENDLINE)
      /\ On(t, INTERRUPT_VIDEO_ENDLINE) = IF e > x THEN Conv(e) ELSE Conv(x + 4)
      /\ InUse(t, INTERRUPT_VIDEO_HBL)
      /\ On(t, INTERRUPT_VIDEO_HBL) = IF p > x THEN Conv(p) ELSE Conv(x + 8)
      /\ Kept(s, t, INTERRUPT_VIDEO_VBL) /\ Kept(s, t, INTERRUPT_IKBD_AUTOSEND)
  BY <1>3, <1>4 DEF Started
<1>6. /\ t.vid.nHBL = 0 /\ t.vid.StartCycle = 0 /\ t.vid.RestartVideoCounter = FALSE
      /\ t.vid.nScanlinesPerFrame = v.nScanlinesPerFrame
      /\ t.vid.nCyclesPerLine = p /\ t.vid.HBL_CyclePos = p
      /\ t.vid.FrameCycles = x /\ t.vid.events = v.events /\ t.vid.sincePoll = v.sincePoll
      /\ t.vid.bUseHighRes = v.bUseHighRes /\ t.vid.bUseVDIRes = v.bUseVDIRes
  <2>1. t.vid = [v EXCEPT !.HBL_CyclePos = v.nCyclesPerLine]
    BY <1>4 DEF Started
  <2> QED BY <1>2, <1>3, <2>1 DEF VideoState
<1>7. Frame(t)
  BY <1>2, <1>6 DEF Frame
<1>8. Chain(t)
  <2>1. ~InUse(t, INTERRUPT_VIDEO_VBL)
    BY <1>5 DEF Kept
  <2>2. t.vid.nHBL < t.vid.nScanlinesPerFrame /\ ~(t.vid.nHBL >= t.vid.nScanlinesPerFrame - 1)
    BY <1>2, <1>6
  <2> QED BY <1>1, <1>5, <1>6, <2>1, <2>2 DEF Chain
<1>9. Order(t) /\ Grid(t)
  <2>1. t.vid.nHBL # t.vid.nScanlinesPerFrame - 1 /\ ~(t.vid.nHBL >= t.vid.nScanlinesPerFrame - 1)
        /\ ~(t.vid.nHBL > 0)
    BY <1>2, <1>6
  <2> QED BY <2>1 DEF Order, Grid
<1>10. Lines(t)
  <2>1. SUFFICES ASSUME Whole(t)
                 PROVE  /\ \A f \in LineFreqs(v) :
                             On(t, INTERRUPT_VIDEO_HBL) <= Conv(p + LINE_END_CYCLE[f])
                        /\ v.events = 0 /\ EndToCome(t)
    <3>1. t.vid.nHBL < t.vid.nScanlinesPerFrame
      BY <1>2, <1>6
    <3> QED BY <1>6, <2>1, <3>1 DEF Lines, LineFreqs
  <2>2. v.events = 0 /\ InTime(v)
    BY <1>1, <1>6, <2>1 DEF Whole
  <2>3. /\ e <= x /\ x < p => x + 4 < p
        /\ p <= x => \A f \in LineFreqs(v) : x + 8 <= p + LINE_END_CYCLE[f]
    BY <1>2, <1>3, <2>2 DEF InTime
  <2>4. ASSUME NEW f \in LineFreqs(v)
        PROVE  On(t, INTERRUPT_VIDEO_HBL) <= Conv(p + LINE_END_CYCLE[f])
    <3>1. PICK k \in Int, n \in Int : k = p + LINE_END_CYCLE[f] /\ p <= k /\ n = x + 8
      BY <1>2, Timings
    <3>2. CASE p > x
      <4>1. Conv(p) <= Conv(k)
        BY <3>1, ConvLess
      <4> QED BY <1>5, <3>1, <3>2, <4>1
    <3>3. CASE ~(p > x)
      <4>1. n <= k
        BY <2>3, <3>1, <3>3
      <4>2. Conv(n) <= Conv(k)
        BY <3>1, <4>1, ConvLess
      <4> QED BY <1>5, <3>1, <3>3, <4>2
    <3> QED BY <3>2, <3>3
  <2>5. \E b, d \in Int : /\ On(t, INTERRUPT_VIDEO_ENDLINE) = Conv(b)
                          /\ On(t, INTERRUPT_VIDEO_HBL) = Conv(d)
                          /\ Line_Set_Pal < b /\ b < d
    <3>1. PICK k \in Int, n \in Int, l \in Int :
            k = x + 4 /\ n = x + 8 /\ l = Line_Set_Pal /\ l < e
      BY <1>3, Timings
    <3>2. CASE e > x
      BY <1>3, <1>5, <3>2
    <3>3. CASE ~(e > x) /\ p > x
      <4>1. l < k /\ k < p
        BY <2>3, <3>1, <3>3
      <4> QED BY <1>5, <3>1, <3>3, <4>1
    <3>4. CASE ~(e > x) /\ ~(p > x)
      <4>1. l < k /\ k < n
        BY <3>1, <3>4
      <4> QED BY <1>5, <3>1, <3>4, <4>1
    <3> QED BY <3>2, <3>3, <3>4
  <2>6. PICK b, d \in Int : /\ On(t, INTERRUPT_VIDEO_ENDLINE) = Conv(b)
                            /\ On(t, INTERRUPT_VIDEO_HBL) = Conv(d)
                            /\ Line_Set_Pal < b /\ b < d
    BY <2>5
  <2>7. /\ Conv(Line_Set_Pal) < Conv(b) /\ Conv(b) < Conv(d)
        /\ Conv(Line_Set_Pal) \in Int /\ Conv(b) \in Int
    <3>1. Line_Set_Pal \in Int
      BY Timings
    <3> QED BY <2>6, <3>1, ConvLess, ConvType
  <2>8. EndToCome(t)
    BY <1>5, <1>6, <2>6, <2>7 DEF EndToCome, LineHbl
  <2> QED BY <2>2, <2>4, <2>8
<1>11. Polled(t)
  BY <1>1, <1>5, <1>6 DEF Polled, Kept
<1>12. t.vid.bUseVDIRes = FALSE
  BY <1>1, <1>2, <1>6, VideoFacts
<1> QED BY <1>1, <1>5, <1>6, <1>7, <1>8, <1>9, <1>10, <1>11, <1>12 DEF FrameInv, Video

-----------------------------------------------------------------------------
(* The reset. *)

(* AUTOSEND is asked for, whatever the table was. *)
LEMMA AskAutoSend ==
  ASSUME NEW s \in Machine,
         NEW c, c = CycInt_AddRelativeInterrupt(s.cyc, AutoSendCycles, "CPU8", INTERRUPT_IKBD_AUTOSEND),
         NEW t \in Machine, t.cyc = c
  PROVE  /\ Works(t)
         /\ Time(t, INTERRUPT_IKBD_AUTOSEND) = Limit
         /\ \A g \in InterruptId \ {INTERRUPT_IKBD_AUTOSEND} : Kept(s, t, g)
<1>1. /\ s.cyc \in SchedulerState /\ AutoSendCycles \in Int /\ "CPU8" \in CycleType
      /\ INTERRUPT_IKBD_AUTOSEND \in Handlers
  BY MachineFacts, Timings, Entries DEF CycleType
<1>2. PICK m : m = INT_CONVERT_TO_INTERNAL(AutoSendCycles, "CPU8")
  OBVIOUS
<1>3. /\ Fresh(c) /\ c.bUsed[INTERRUPT_IKBD_AUTOSEND] /\ c.Cycles[INTERRUPT_IKBD_AUTOSEND] = m
      /\ \A g \in InterruptId \ {INTERRUPT_IKBD_AUTOSEND} :
           c.bUsed[g] = s.cyc.bUsed[g] /\ c.Cycles[g] = TimeOf(s.cyc, g)
  BY <1>1, <1>2, AddRelativeEffect
<1>4. \A g \in InterruptId : TimeOf(c, g) = c.Cycles[g]
  BY <1>3, FreshIsChosen
<1>5. /\ Time(t, INTERRUPT_IKBD_AUTOSEND) = Limit /\ InUse(t, INTERRUPT_IKBD_AUTOSEND)
      /\ \A g \in InterruptId \ {INTERRUPT_IKBD_AUTOSEND} : Kept(s, t, g)
  BY <1>2, <1>3, <1>4, Entries DEF Time, InUse, Kept, Limit
<1>6. Time(t, INTERRUPT_IKBD_AUTOSEND) <= Limit
  BY <1>5, LimitType
<1>7. Works(t)
  BY <1>3, <1>5, <1>6, FreshWorks
<1> QED BY <1>5, <1>7

(* Whatever state the machine was in, a reset starts a frame. *)
ResetDone(t, vdi) ==
  /\ FrameInv(t)
  /\ t.vid.bUseVDIRes = vdi /\ t.vid.nHBL = 0 /\ t.vid.events = 0

LEMMA ResetInv ==
  ASSUME RealTimings, NEW s \in Machine, NEW vdi \in BOOLEAN, NEW mono \in BOOLEAN,
         NEW t, t = Reset_ST(s, vdi, mono)
  PROVE  ResetDone(t, vdi)
<1>1. PICK v : v = [s.vid EXCEPT !.freq = 60, !.FrameCycles = 0, !.events = 0, !.sincePoll = 0,
                                 !.bUseVDIRes = vdi, !.bUseHighRes = mono]
  OBVIOUS
<1>2. /\ v \in VideoState /\ v.FrameCycles = 0 /\ v.events = 0 /\ v.sincePoll = 0
      /\ v.bUseVDIRes = vdi
  <2>0. PICK f, z, e : f = 60 /\ z = 0 /\ e = 0 /\ f \in {50, 60} /\ z \in Nat /\ e \in Int
    OBVIOUS
  <2>1. PICK u : u = [s.vid EXCEPT !.freq = f, !.FrameCycles = z, !.events = e]
    OBVIOUS
  <2>2. u \in VideoState /\ u.FrameCycles = 0 /\ u.events = 0
    <3>1. s.vid \in VideoState
      BY MachineFacts
    <3> QED BY <2>0, <2>1, <3>1 DEF VideoState
  <2>3. v = [u EXCEPT !.sincePoll = 0, !.bUseVDIRes = vdi, !.bUseHighRes = mono]
    BY ONLY <1>1, <2>0, <2>1, Zenon
  <2> QED BY <2>2, <2>3 DEF VideoState
<1>3. PICK w : w = Video_ClearOnVBL(v)
  OBVIOUS
<1>4. /\ w \in VideoState /\ Cleared(w) /\ w.FrameCycles = 0 /\ w.events = 0 /\ w.sincePoll = 0
      /\ w.bUseVDIRes = vdi
  BY <1>2, <1>3, ClearDoes
<1>5. PICK c : c = CycInt_Reset(s.cyc)
  OBVIOUS
<1>6. c \in SchedulerState /\ \A h \in InterruptId : ~c.bUsed[h]
  BY <1>5, ResetEffect, MachineFacts
<1>7. PICK r : r = [s EXCEPT !.cyc = c, !.vid = w]
  OBVIOUS
<1>8. r \in Machine /\ r.cyc = c /\ r.vid = w /\ \A h \in InterruptId : ~InUse(r, h)
  BY <1>4, <1>6, <1>7 DEF Machine, InUse
<1>9. PICK d : d = CycInt_AddRelativeInterrupt(r.cyc, AutoSendCycles, "CPU8", INTERRUPT_IKBD_AUTOSEND)
  OBVIOUS
<1>10. d \in SchedulerState
  <2>1. "CPU8" \in CycleType /\ AutoSendCycles \in Int
    BY Timings DEF CycleType
  <2>2. PICK m : m = INT_CONVERT_TO_INTERNAL(AutoSendCycles, "CPU8")
    OBVIOUS
  <2>3. Fresh(d)
    BY <1>6, <1>8, <1>9, <2>1, <2>2, Entries, AddRelativeEffect
  <2> QED BY <2>3 DEF Fresh
<1>11. PICK k : k = [r EXCEPT !.cyc = d]
  OBVIOUS
<1>12. k \in Machine /\ k.cyc = d /\ k.vid = w
  BY <1>8, <1>10, <1>11 DEF Machine
<1>13. /\ Works(k) /\ Time(k, INTERRUPT_IKBD_AUTOSEND) = Limit
       /\ \A g \in InterruptId \ {INTERRUPT_IKBD_AUTOSEND} : Kept(r, k, g)
  BY <1>8, <1>9, <1>12, AskAutoSend
<1>14. /\ ~InUse(k, INTERRUPT_VIDEO_HBL) /\ ~InUse(k, INTERRUPT_VIDEO_VBL)
  BY <1>8, <1>13, Entries DEF Kept
<1>15. Polled(k)
  BY <1>4, <1>12, <1>13, ConvZero, LimitType DEF Polled
<1>16. t = Video_StartInterrupts(k, 0)
  <2>1. IKBD_Reset(r) = k
    BY <1>8, <1>9, <1>11, Entries DEF IKBD_Reset
  <2>2. Reset_ST(s, vdi, mono) = Video_StartInterrupts(IKBD_Reset(r), 0)
    BY ONLY <1>1, <1>3, <1>5, <1>7, Zenon DEF Reset_ST
  <2> QED BY <2>1, <2>2
<1>17. CASE vdi
  <2>0. Cleared(k.vid) /\ k.vid.bUseVDIRes /\ 0 \in Int /\ Works(k)
    <3>1. vdi = TRUE
      BY <1>17
    <3>2. w.bUseVDIRes = TRUE
      BY <1>4, <3>1
    <3>3. k.vid = w
      BY <1>12
    <3>4. 0 \in Int
      OBVIOUS
    <3> QED BY ONLY <1>4, <1>13, <3>2, <3>3, <3>4, Zenon
  <2>1. FrameInv(t) /\ t.vid = w
    <3>1. FrameInv(t) /\ t.vid = k.vid
      BY ONLY RealTimings, <2>0, <1>14, <1>15, <1>16, StartVDIInv
    <3> QED BY <1>12, <3>1
  <2> QED BY <1>4, <2>1 DEF ResetDone, Cleared
<1>18. CASE ~vdi
  <2>1. FreqHz(w) \in Freq
    BY <1>4, FreqType
  <2>2. InTime(w)
    BY <1>4, <2>1, Timings DEF InTime
  <2>3. /\ Cleared(k.vid) /\ ~k.vid.bUseVDIRes /\ Works(k)
        /\ k.vid.events = 0 /\ InTime(k.vid)
    BY <1>4, <1>12, <1>13, <1>18, <2>2
  <2>4. /\ FrameInv(t) /\ t.vid.nHBL = 0 /\ t.vid.events = k.vid.events
        /\ t.vid.bUseVDIRes = FALSE
    <3>1. /\ Polled(k) /\ ~InUse(k, INTERRUPT_VIDEO_VBL)
          /\ k.vid.events = -1 \/ (k.vid.events = 0 /\ InTime(k.vid))
      BY ONLY <2>3, <1>14, <1>15
    <3>2. MayStart(k)
      BY ONLY <2>3, <3>1 DEF MayStart
    <3> QED BY ONLY RealTimings, <3>2, <1>16, StartInv
  <2> QED BY <1>18, <2>3, <2>4 DEF ResetDone
<1> QED BY <1>17, <1>18

(* After a reset neither the HBL nor the VBL is the active entry. *)
LEMMA ActiveAfterReset ==
  ASSUME RealTimings, NEW s, ResetDone(s, FALSE)
  PROVE  /\ s.cyc.ActiveInterrupt # INTERRUPT_VIDEO_HBL
         /\ s.cyc.ActiveInterrupt # INTERRUPT_VIDEO_VBL
<1>1. /\ Works(s) /\ Chain(s) /\ Lines(s) /\ Frame(s) /\ s \in Machine /\ AutoSendFits
      /\ ~s.vid.bUseVDIRes /\ s.vid.nHBL = 0 /\ s.vid.events = 0
  BY DEF ResetDone, FrameInv, Video, Works, RealTimings
<1>2. s.vid.nScanlinesPerFrame \in Nat /\ s.vid.nScanlinesPerFrame >= 2
      /\ s.vid.RestartVideoCounter = FALSE
  BY <1>1, MachineFacts, VideoFacts DEF Frame
<1>3. EndToCome(s)
  <2>1. Whole(s) /\ s.vid.nHBL # s.vid.nScanlinesPerFrame /\ s.vid.events # s.vid.nHBL + 1
    BY <1>1, <1>2 DEF Whole
  <2> QED BY <1>1, <2>1 DEF Lines
<1>4. /\ InUse(s, INTERRUPT_VIDEO_ENDLINE)
      /\ On(s, INTERRUPT_VIDEO_ENDLINE) < On(s, INTERRUPT_VIDEO_HBL)
  BY <1>2, <1>3 DEF EndToCome, LineHbl
<1>5. Time(s, INTERRUPT_VIDEO_ENDLINE) < Time(s, INTERRUPT_VIDEO_HBL)
  <2>1. /\ Time(s, INTERRUPT_VIDEO_ENDLINE) \in Int /\ Time(s, INTERRUPT_VIDEO_HBL) \in Int
        /\ Conv(s.vid.FrameCycles) \in Int /\ Conv(s.vid.StartCycle) \in Int
    BY <1>1, MachineFacts, VideoFacts, Entries, ConvType
  <2> QED BY <1>4, <2>1 DEF On
<1>6. s.cyc.ActiveInterrupt # INTERRUPT_VIDEO_HBL
  BY <1>1, <1>4, <1>5, ActiveFacts, MachineFacts, Entries
<1>7. ~InUse(s, INTERRUPT_VIDEO_VBL)
  BY <1>1, <1>2 DEF Chain
<1> QED BY <1>1, <1>6, <1>7, ActiveFacts

LEMMA InitInv == ASSUME RealTimings, Init PROVE FrameInv(st)
<1>1. PICK vdi, mono \in BOOLEAN : st = Reset_ST(Zeroed, vdi, mono)
  BY DEF Init
<1>2. Zeroed \in Machine
  <2>1. PICK b, c : b = [i \in InterruptId |-> FALSE] /\ c = [i \in InterruptId |-> 0]
    OBVIOUS
  <2>2. b \in [InterruptId -> BOOLEAN] /\ c \in [InterruptId -> Int]
    BY <2>1
  <2>3. Zeroed.cyc = [ bUsed |-> b, Cycles |-> c, PendingInterruptCount |-> 0,
                       PendingInterruptFunction |-> INTERRUPT_NULL,
                       ActiveInterrupt |-> INTERRUPT_NULL, nCyclesOver |-> 0 ]
    BY <2>1 DEF Zeroed
  <2>4. Zeroed.cyc \in SchedulerState
    <3>1. INTERRUPT_NULL \in InterruptId
      BY DEF InterruptId
    <3> QED BY <2>2, <2>3, <3>1 DEF SchedulerState
  <2>5. Zeroed.vid \in VideoState
    BY DEF Zeroed, VideoState
  <2>6. Zeroed = [cyc |-> Zeroed.cyc, vid |-> Zeroed.vid]
    BY DEF Zeroed
  <2> QED BY <2>4, <2>5, <2>6 DEF Machine
<1>3. ResetDone(st, vdi)
  BY <1>1, <1>2, ResetInv
<1> QED BY <1>3 DEF ResetDone

-----------------------------------------------------------------------------
(* A machine that is saved and restored. *)

LEMMA RestoredInv ==
  ASSUME RealTimings, FrameInv(st), NEW t, t = Restored
  PROVE  FrameInv(t) /\ t.cyc.ActiveInterrupt = st.cyc.ActiveInterrupt
<1>1. /\ Works(st) /\ st \in Machine /\ Frame(st) /\ Chain(st) /\ Order(st)
      /\ Chosen(st.cyc) /\ st.cyc \in SchedulerState /\ st.vid \in VideoState
  BY MachineFacts DEF FrameInv, Video, Works
<1>2. PICK r : r = Reset_ST(st, st.vid.bUseVDIRes, st.vid.bUseHighRes)
  OBVIOUS
<1>3. r \in Machine /\ r.cyc \in SchedulerState
  <2>1. st.vid.bUseVDIRes \in BOOLEAN /\ st.vid.bUseHighRes \in BOOLEAN
    BY <1>1, VideoFacts
  <2>2. ResetDone(r, st.vid.bUseVDIRes)
    BY ONLY RealTimings, <1>1, <1>2, <2>1, ResetInv
  <2> QED BY <2>2, MachineFacts DEF ResetDone, FrameInv, Works
<1>4. PICK c : c = CycInt_Restore(r.cyc, CycInt_Save(st.cyc))
  OBVIOUS
<1>5. /\ Fresh(c) /\ c.bUsed = st.cyc.bUsed /\ c.Cycles = st.cyc.Cycles
      /\ LowestInterrupt(c) = LowestInterrupt(st.cyc)
  BY ONLY <1>1, <1>3, <1>4, RestoreEffect
<1>6. PICK e, n, b : e = -1 /\ n = 0 /\ b = FALSE /\ e \in Int /\ n \in Nat /\ b \in BOOLEAN
  <2>1. -1 \in Int /\ 0 \in Nat
    OBVIOUS
  <2> QED BY <2>1, Zenon
<1>7. PICK w : w = [st.vid EXCEPT !.RestartVideoCounter = b, !.events = e, !.sincePoll = n]
  OBVIOUS
<1>8. /\ w \in VideoState
      /\ w.nHBL = st.vid.nHBL /\ w.nScanlinesPerFrame = st.vid.nScanlinesPerFrame
      /\ w.nCyclesPerLine = st.vid.nCyclesPerLine /\ w.StartCycle = st.vid.StartCycle
      /\ w.FrameCycles = st.vid.FrameCycles /\ w.RestartVideoCounter = FALSE
      /\ w.bUseHighRes = st.vid.bUseHighRes /\ w.bUseVDIRes = st.vid.bUseVDIRes
      /\ w.events = -1 /\ w.sincePoll = 0
  BY <1>1, <1>6, <1>7 DEF VideoState
<1>9. t = [r EXCEPT !.cyc = c, !.vid = w]
  <2>1. PICK m : m = MemorySnapShot_Capture(st)
    OBVIOUS
  <2>2. m.cyc = CycInt_Save(st.cyc) /\ m.vid = st.vid
    BY <2>1 DEF MemorySnapShot_Capture
  <2>3. t = MemorySnapShot_Restore(st, m)
    BY <2>1 DEF Restored
  <2>4. t = [Reset_ST(st, m.vid.bUseVDIRes, m.vid.bUseHighRes) EXCEPT
               !.cyc = CycInt_Restore(Reset_ST(st, m.vid.bUseVDIRes, m.vid.bUseHighRes).cyc, m.cyc),
               !.vid = [m.vid EXCEPT !.RestartVideoCounter = FALSE, !.events = -1,
                                     !.sincePoll = 0]]
    BY ONLY <2>3, Zenon DEF MemorySnapShot_Restore
  <2> QED BY ONLY <1>2, <1>4, <1>6, <1>7, <2>2, <2>4, Zenon
<1>10. t \in Machine /\ t.cyc = c /\ t.vid = w
  BY <1>3, <1>5, <1>8, <1>9 DEF Machine, Fresh
<1>11. t.cyc.ActiveInterrupt = st.cyc.ActiveInterrupt
  BY <1>1, <1>5, <1>10 DEF Chosen, Fresh
<1>12. PICK d \in Nat : d = Behind(st.cyc)
  BY <1>1 DEF Chosen
<1>13. /\ \A h \in InterruptId : InUse(t, h) = InUse(st, h) /\ Time(t, h) = st.cyc.Cycles[h]
       /\ \A h \in InterruptId : InUse(st, h) => Time(t, h) = Time(st, h) + d
  <2>1. \A h \in InterruptId : TimeOf(c, h) = c.Cycles[h]
    BY <1>5, FreshIsChosen
  <2>2. \A h \in InterruptId : st.cyc.Cycles[h] \in Int
    BY <1>1, MachineFacts
  <2> QED BY <1>5, <1>10, <1>12, <2>1, <2>2 DEF InUse, Time, TimeOf
<1>14. Works(t) /\ Time(t, INTERRUPT_IKBD_AUTOSEND) <= Limit
  <2>1. InUse(t, INTERRUPT_IKBD_AUTOSEND) /\ Time(t, INTERRUPT_IKBD_AUTOSEND) <= Limit
    BY <1>1, <1>13, Entries DEF Works
  <2> QED BY <1>5, <1>10, <2>1, FreshWorks
<1>15. Polled(t)
  <2>1. Conv(t.vid.sincePoll) = 0
    BY <1>8, <1>10, ConvZero
  <2>2. Time(t, INTERRUPT_IKBD_AUTOSEND) \in Int
    BY <1>10, MachineFacts, Entries
  <2> QED BY <1>14, <2>1, <2>2 DEF Polled
<1>16. Frame(t)
  BY <1>1, <1>8, <1>10 DEF Frame
<1>17. Chain(t)
  BY <1>1, <1>8, <1>10, <1>13, Entries DEF Chain
<1>18. Order(t)
  <2>1. SUFFICES ASSUME ~st.vid.bUseVDIRes, st.vid.nHBL = st.vid.nScanlinesPerFrame - 1
                 PROVE  /\ On(t, INTERRUPT_VIDEO_HBL) < On(t, INTERRUPT_VIDEO_VBL)
                        /\ On(t, INTERRUPT_VIDEO_VBL)
                             >= Conv(st.vid.nCyclesPerLine + VblVideoCycleOffset)
    BY <1>8, <1>10 DEF Order
  <2>2. st.vid.nHBL \in Nat /\ st.vid.nScanlinesPerFrame \in Nat /\ st.vid.nCyclesPerLine \in Nat
    BY <1>1, VideoFacts
  <2>3. InUse(st, INTERRUPT_VIDEO_HBL) /\ InUse(st, INTERRUPT_VIDEO_VBL)
    BY <1>1, <2>1, <2>2 DEF Chain
  <2>4. /\ On(t, INTERRUPT_VIDEO_HBL) = On(st, INTERRUPT_VIDEO_HBL) + d
        /\ On(t, INTERRUPT_VIDEO_VBL) = On(st, INTERRUPT_VIDEO_VBL) + d
        /\ On(st, INTERRUPT_VIDEO_HBL) \in Int /\ On(st, INTERRUPT_VIDEO_VBL) \in Int
    <3>1. /\ Time(st, INTERRUPT_VIDEO_HBL) \in Int /\ Time(st, INTERRUPT_VIDEO_VBL) \in Int
          /\ Conv(st.vid.FrameCycles) \in Int /\ Conv(st.vid.StartCycle) \in Int
      BY <1>1, MachineFacts, VideoFacts, Entries, ConvType
    <3> QED BY <1>8, <1>10, <1>13, <2>3, <3>1, Entries DEF On
  <2>5. /\ On(st, INTERRUPT_VIDEO_HBL) < On(st, INTERRUPT_VIDEO_VBL)
        /\ On(st, INTERRUPT_VIDEO_VBL) >= Conv(st.vid.nCyclesPerLine + VblVideoCycleOffset)
    BY <1>1, <2>1 DEF Order
  <2>6. Conv(st.vid.nCyclesPerLine + VblVideoCycleOffset) \in Int
    BY <2>2, Timings, ConvType
  <2> QED BY <2>4, <2>5, <2>6
<1>19. ~Whole(t)
  BY <1>8, <1>10 DEF Whole
<1>20. Grid(t) /\ Lines(t)
  BY <1>19 DEF Grid, Lines
<1> QED BY <1>11, <1>14, <1>15, <1>16, <1>17, <1>18, <1>20 DEF FrameInv, Video

-----------------------------------------------------------------------------
(* The VBL handler, called late by a number of cycles that is not negative, *)
(* whether or not the user replaced the machine.                           *)

LEMMA OverType == \A n \in Int : n <= 0 => -INT_CONVERT_FROM_INTERNAL(n, "CPU") \in Nat
<1>1. INT_CPU_TO_INTERNAL \in Nat /\ INT_CPU_TO_INTERNAL > 0
  BY FactorAssumption
<1>2. ASSUME NEW n \in Int, n <= 0
      PROVE  -CDiv(n, INT_CPU_TO_INTERNAL) \in Nat
  <2>1. PICK m \in Nat : m = -n
    BY <1>2
  <2>2. PICK q \in Nat : q = m \div INT_CPU_TO_INTERNAL
    BY <1>1
  <2>3. CASE n = 0
    <3>1. 0 \div INT_CPU_TO_INTERNAL = 0
      BY <1>1
    <3> QED BY <2>3, <3>1 DEF CDiv
  <2>4. CASE n < 0
    <3>1. CDiv(n, INT_CPU_TO_INTERNAL) = -q
      BY <2>1, <2>2, <2>4 DEF CDiv
    <3> QED BY <3>1
  <2> QED BY <1>2, <2>3, <2>4
<1> QED BY <1>2 DEF INT_CONVERT_FROM_INTERNAL

(* The count of a machine that was reset or restored is put back.          *)
CountPutBack(t, n) ==
  IF t.cyc.PendingInterruptCount > 0
  THEN [t EXCEPT !.cyc.PendingInterruptCount = n] ELSE t

LateMachine(t, c) ==
  /\ Works(c) /\ c.vid = t.vid /\ c.cyc.PendingInterruptCount <= 0
  /\ c.cyc.ActiveInterrupt = t.cyc.ActiveInterrupt
  /\ \A h \in InterruptId : InUse(c, h) = InUse(t, h)
  /\ Polled(c)

LEMMA CountPutBackDoes ==
  ASSUME AutoSendFits, NEW t, Works(t), Polled(t), NEW n \in Int, n <= 0,
         NEW c, c = CountPutBack(t, n)
  PROVE  LateMachine(t, c)
<1>1. /\ t \in Machine /\ t.vid \in VideoState /\ t.vid.sincePoll \in Nat /\ Chosen(t.cyc)
      /\ t.cyc.PendingInterruptCount \in Int /\ Time(t, INTERRUPT_IKBD_AUTOSEND) \in Int
      /\ InUse(t, INTERRUPT_IKBD_AUTOSEND)
      /\ t.cyc.Cycles[INTERRUPT_IKBD_AUTOSEND] <= Limit
      /\ INTERRUPT_IKBD_AUTOSEND \in InterruptId
      /\ \A h \in InterruptId : InUse(t, h) \in BOOLEAN
  BY MachineFacts, VideoFacts, Entries DEF Works
<1>2. CASE t.cyc.PendingInterruptCount <= 0
  <2>1. c = t
    BY <1>1, <1>2 DEF CountPutBack
  <2> QED BY <1>1, <1>2, <2>1 DEF LateMachine
<1>3. CASE t.cyc.PendingInterruptCount > 0
  <2>1. PICK d \in Nat : d = t.cyc.PendingInterruptCount - n
    BY <1>1, <1>3
  <2>2. PICK u : u = Later(t.cyc, d)
    OBVIOUS
  <2>3. c = [t EXCEPT !.cyc = u]
    <3>1. n = t.cyc.PendingInterruptCount - d
      BY <1>1, <2>1
    <3>2. u = [t.cyc EXCEPT !.PendingInterruptCount = n]
      BY <2>2, <3>1 DEF Later
    <3>3. c = [t EXCEPT !.cyc.PendingInterruptCount = n]
      BY <1>3 DEF CountPutBack
    <3> QED BY ONLY <3>2, <3>3, Zenon
  <2>4. INTERRUPT_IKBD_AUTOSEND \in Candidates(t.cyc)
    BY ActiveFacts
  <2>5. /\ Chosen(u) /\ u.bUsed = t.cyc.bUsed /\ u.Cycles = t.cyc.Cycles
        /\ u.ActiveInterrupt = t.cyc.ActiveInterrupt
        /\ u.PendingInterruptCount = t.cyc.PendingInterruptCount - d
        /\ \A h \in InterruptId : t.cyc.bUsed[h] => TimeOf(u, h) = TimeOf(t.cyc, h) - d
    BY ONLY <1>1, <2>2, <2>4, d \in Nat, LaterEffect
  <2>6. u \in SchedulerState
    BY <2>5 DEF Chosen
  <2>7. c.cyc = u /\ c.vid = t.vid /\ c \in Machine
    BY <1>1, <2>3, <2>6 DEF Machine
  <2>8. c.cyc.PendingInterruptCount <= 0
    BY <1>1, <2>1, <2>5, <2>7
  <2>9. Works(c)
    BY <1>1, <2>5, <2>7 DEF Works, InUse
  <2>10. Polled(c)
    <3>1. Time(c, INTERRUPT_IKBD_AUTOSEND) = Time(t, INTERRUPT_IKBD_AUTOSEND) - d
      BY <1>1, <2>5, <2>7 DEF InUse, Time
    <3>2. Conv(t.vid.sincePoll) + Time(t, INTERRUPT_IKBD_AUTOSEND) <= Limit
      BY DEF Polled
    <3>3. Conv(t.vid.sincePoll) \in Int /\ Limit \in Int
      BY <1>1, ConvType, LimitType
    <3>4. Conv(t.vid.sincePoll) + Time(c, INTERRUPT_IKBD_AUTOSEND) <= Limit
      BY <1>1, <3>1, <3>2, <3>3
    <3> QED BY <2>7, <3>4 DEF Polled
  <2>11. \A h \in InterruptId : InUse(c, h) = InUse(t, h)
    BY <2>5, <2>7 DEF InUse
  <2> QED BY <2>5, <2>7, <2>8, <2>9, <2>10, <2>11 DEF LateMachine
<1> QED BY <1>1, <1>2, <1>3

(* The frame starts as it should, or is marked.                            *)
LEMMA MarkedOrInTime ==
  ASSUME NEW v \in VideoState, NEW w \in VideoState,
         w = [v EXCEPT !.events = IF FirstLineTooLate(v) THEN -1 ELSE 0], Cleared(v)
  PROVE  /\ Cleared(w) /\ w.sincePoll = v.sincePoll /\ w.bUseVDIRes = v.bUseVDIRes
         /\ w.events = -1 \/ (w.events = 0 /\ InTime(w))
<1>1. /\ w.nHBL = v.nHBL /\ w.StartCycle = v.StartCycle
      /\ w.RestartVideoCounter = v.RestartVideoCounter
      /\ w.nScanlinesPerFrame = v.nScanlinesPerFrame /\ w.nCyclesPerLine = v.nCyclesPerLine
      /\ w.FrameCycles = v.FrameCycles /\ w.freq = v.freq /\ w.bUseHighRes = v.bUseHighRes
      /\ w.bUseVDIRes = v.bUseVDIRes /\ w.sincePoll = v.sincePoll
      /\ w.events = IF FirstLineTooLate(v) THEN -1 ELSE 0
  BY DEF VideoState
<1>2. FreqHz(w) = FreqHz(v) /\ LineFreqs(w) = LineFreqs(v)
  BY <1>1 DEF FreqHz, LineFreqs
<1>3. Cleared(w)
  BY <1>1, <1>2 DEF Cleared
<1>4. ASSUME ~FirstLineTooLate(v) PROVE InTime(w)
  <2>1. PICK p, e, x : p = CYCLES_PER_LINE[FreqHz(v)] /\ e = LINE_END_CYCLE[FreqHz(v)]
                       /\ x = v.FrameCycles
    OBVIOUS
  <2>2. p \in Nat /\ e \in Nat /\ x \in Nat
    BY <2>1, FreqType, Timings, VideoFacts
  <2>3. \A f \in LineFreqs(v) : LINE_END_CYCLE[f] \in Nat
    BY FreqType, Timings
  <2>4. /\ ~(e <= x /\ x < p /\ p <= x + 4)
        /\ \A f \in LineFreqs(v) : ~(p + LINE_END_CYCLE[f] < x + 8)
    BY <1>4, <2>1 DEF FirstLineTooLate
  <2>5. /\ e <= x /\ x < p => x + 4 < p
        /\ p <= x => \A f \in LineFreqs(v) : x + 8 <= p + LINE_END_CYCLE[f]
    BY ONLY <2>2, <2>3, <2>4
  <2> QED BY <1>1, <1>2, <2>1, <2>5 DEF InTime
<1> QED BY <1>1, <1>3, <1>4

LEMMA VBLInv ==
  ASSUME RealTimings, NEW s \in Machine, s.cyc.PendingInterruptCount <= 0, NEW t, FrameInv(t),
         \/ t.cyc.ActiveInterrupt = INTERRUPT_VIDEO_VBL
         \/ t.vid.bUseVDIRes
         \/ ~InUse(t, INTERRUPT_VIDEO_VBL),
         NEW u, u = Video_InterruptHandler_VBL(s, t)
  PROVE  FrameInv(u)
<1>1. /\ Works(t) /\ t \in Machine /\ Chain(t) /\ Polled(t) /\ AutoSendFits
      /\ s.cyc.PendingInterruptCount \in Int
  BY MachineFacts DEF FrameInv, Video, Works, RealTimings
<1>2. PICK c : c = CountPutBack(t, s.cyc.PendingInterruptCount)
  OBVIOUS
<1>3. LateMachine(t, c)
  BY <1>1, <1>2, CountPutBackDoes
<1>4. /\ Works(c) /\ c.vid = t.vid /\ c.cyc.PendingInterruptCount <= 0
      /\ c.cyc.ActiveInterrupt = t.cyc.ActiveInterrupt /\ Polled(c)
      /\ InUse(c, INTERRUPT_VIDEO_VBL) = InUse(t, INTERRUPT_VIDEO_VBL)
      /\ InUse(c, INTERRUPT_VIDEO_HBL) = InUse(t, INTERRUPT_VIDEO_HBL)
  BY <1>3, Entries DEF LateMachine
<1>5. PICK over \in Nat : over = PendingCyclesOver(c)
  <2>1. c.cyc.PendingInterruptCount \in Int
    BY <1>4, MachineFacts DEF Works
  <2>2. -INT_CONVERT_FROM_INTERNAL(c.cyc.PendingInterruptCount, "CPU") \in Nat
    BY <1>4, <2>1, OverType
  <2> QED BY <2>2 DEF PendingCyclesOver
<1>6. PICK a : a = IF c.cyc.ActiveInterrupt = INTERRUPT_VIDEO_VBL THEN Acknowledge(c) ELSE c
  OBVIOUS
<1>7. /\ Works(a) /\ a \in Machine /\ a.vid = t.vid /\ Polled(a)
      /\ ~t.vid.bUseVDIRes => ~InUse(a, INTERRUPT_VIDEO_VBL)
      /\ InUse(a, INTERRUPT_VIDEO_HBL) = InUse(t, INTERRUPT_VIDEO_HBL)
  <2>1. CASE c.cyc.ActiveInterrupt = INTERRUPT_VIDEO_VBL
    <3>1. a = Acknowledge(c)
      BY <1>6, <2>1
    <3>2. /\ a \in Machine /\ a.vid = c.vid /\ InUse(a, INTERRUPT_VIDEO_VBL) = FALSE
          /\ \A g \in InterruptId \ {INTERRUPT_VIDEO_VBL} : Kept(c, a, g)
          /\ Works(a)
      BY <1>1, <1>4, <2>1, <3>1, AcknowledgeDoes, Entries
    <3>3. Kept(c, a, INTERRUPT_IKBD_AUTOSEND) /\ Kept(c, a, INTERRUPT_VIDEO_HBL)
      BY <3>2, Entries
    <3>4. Polled(a)
      BY <1>4, <3>2, <3>3 DEF Polled, Kept
    <3>5. InUse(a, INTERRUPT_VIDEO_HBL) = InUse(t, INTERRUPT_VIDEO_HBL)
      BY <1>4, <3>3 DEF Kept
    <3> QED BY <1>4, <3>2, <3>4, <3>5
  <2>2. CASE c.cyc.ActiveInterrupt # INTERRUPT_VIDEO_VBL
    <3>1. a = c
      BY <1>6, <2>2
    <3>2. t.vid.bUseVDIRes \/ ~InUse(t, INTERRUPT_VIDEO_VBL)
      BY <1>4, <2>2
    <3>3. ~t.vid.bUseVDIRes => ~InUse(a, INTERRUPT_VIDEO_VBL)
      BY <1>4, <3>1, <3>2
    <3> QED BY <1>4, <3>1, <3>3 DEF Works
  <2> QED BY <2>1, <2>2
<1>8. PICK n \in Nat : n = over + VblVideoCycleOffset
  BY Timings
<1>9. PICK x \in VideoState : /\ x = [a.vid EXCEPT !.FrameCycles = n]
                              /\ x.sincePoll = t.vid.sincePoll
                              /\ x.bUseVDIRes = t.vid.bUseVDIRes
  <2>1. a.vid \in VideoState
    BY <1>7, MachineFacts
  <2>2. PICK x : x = [a.vid EXCEPT !.FrameCycles = n]
    OBVIOUS
  <2>3. x \in VideoState /\ x.sincePoll = a.vid.sincePoll /\ x.bUseVDIRes = a.vid.bUseVDIRes
    BY <2>1, <2>2 DEF VideoState
  <2> QED BY <1>7, <2>2, <2>3
<1>10. PICK v : v = Video_ClearOnVBL(x)
  OBVIOUS
<1>11. /\ v \in VideoState /\ Cleared(v) /\ v.sincePoll = t.vid.sincePoll
       /\ v.bUseVDIRes = t.vid.bUseVDIRes
  BY <1>9, <1>10, ClearDoes
<1>12. PICK e : e = IF FirstLineTooLate(v) THEN -1 ELSE 0
  OBVIOUS
<1>13. PICK w \in VideoState : w = [v EXCEPT !.events = e]
  <2>1. e \in Int
    BY <1>12
  <2> QED BY <1>11, <2>1 DEF VideoState
<1>14. /\ Cleared(w) /\ w.sincePoll = t.vid.sincePoll /\ w.bUseVDIRes = t.vid.bUseVDIRes
       /\ w.events = -1 \/ (w.events = 0 /\ InTime(w))
  <2>1. w = [v EXCEPT !.events = IF FirstLineTooLate(v) THEN -1 ELSE 0]
    BY ONLY <1>12, <1>13
  <2>2. /\ Cleared(w) /\ w.sincePoll = v.sincePoll /\ w.bUseVDIRes = v.bUseVDIRes
        /\ w.events = -1 \/ (w.events = 0 /\ InTime(w))
    BY ONLY <1>11, <1>13, <2>1, MarkedOrInTime
  <2> QED BY ONLY <1>11, <2>2
<1>15. PICK b : b = WithVideo(a, w)
  OBVIOUS
<1>16. u = Video_StartInterrupts(b, over)
  <2>1. c = IF t.cyc.PendingInterruptCount > 0
            THEN [t EXCEPT !.cyc.PendingInterruptCount = s.cyc.PendingInterruptCount] ELSE t
    BY <1>2 DEF CountPutBack
  <2>2. b = [a EXCEPT !.vid = [v EXCEPT !.events = e]]
    BY <1>13, <1>15 DEF WithVideo
  <2>3. v = Video_ClearOnVBL([a.vid EXCEPT !.FrameCycles = PendingCyclesOver(c) + VblVideoCycleOffset])
    BY ONLY <1>5, <1>8, <1>9, <1>10, Zenon
  <2>4. over = PendingCyclesOver(c)
    BY <1>5
  <2> QED BY ONLY u = Video_InterruptHandler_VBL(s, t), <1>6, <1>12, <2>1, <2>2, <2>3, <2>4, Zenon
          DEF Video_InterruptHandler_VBL
<1>17. Works(b) /\ b.vid = w /\ \A h \in InterruptId : Kept(a, b, h)
  <2>1. w \in VideoState
    OBVIOUS
  <2>2. Works(b)
    BY ONLY <1>7, <1>15, <2>1, VideoOnlyWorks
  <2>3. b.vid = w /\ \A h \in InterruptId : Kept(a, b, h)
    BY ONLY <1>7, <1>15, <2>1, VideoOnly
  <2> QED BY <2>2, <2>3
<1>18. /\ Kept(a, b, INTERRUPT_VIDEO_VBL) /\ Kept(a, b, INTERRUPT_VIDEO_HBL)
       /\ Kept(a, b, INTERRUPT_IKBD_AUTOSEND)
  BY <1>17, Entries
<1>19. Polled(b)
  BY <1>7, <1>14, <1>17, <1>18 DEF Polled, Kept
<1>20. CASE t.vid.bUseVDIRes
  <2>1. ~InUse(b, INTERRUPT_VIDEO_HBL)
    <3>1. ~InUse(t, INTERRUPT_VIDEO_HBL)
      BY <1>1, <1>20 DEF Chain
    <3> QED BY <1>7, <1>18, <3>1 DEF Kept
  <2>2. Cleared(b.vid) /\ b.vid.bUseVDIRes
    BY <1>14, <1>17, <1>20
  <2>3. over \in Int
    OBVIOUS
  <2> QED BY ONLY RealTimings, <1>16, <1>17, <1>19, <2>1, <2>2, <2>3, StartVDIInv
<1>21. CASE ~t.vid.bUseVDIRes
  <2>1. ~InUse(b, INTERRUPT_VIDEO_VBL)
    BY <1>7, <1>18, <1>21 DEF Kept
  <2>2. /\ Cleared(b.vid) /\ ~b.vid.bUseVDIRes
        /\ b.vid.events = -1 \/ (b.vid.events = 0 /\ InTime(b.vid))
    BY <1>14, <1>17, <1>21
  <2>3. MayStart(b)
    BY ONLY <1>17, <1>19, <2>1, <2>2 DEF MayStart
  <2> QED BY ONLY RealTimings, <1>16, <2>3, StartInv
<1> QED BY <1>20, <1>21

-----------------------------------------------------------------------------
(* The AUTOSEND handler. *)

(* What the handler does to the machine t it finds.                        *)
AutoSent(t, u, e) ==
  /\ Works(u) /\ Polled(u)
  /\ u.vid.nHBL = t.vid.nHBL /\ u.vid.nScanlinesPerFrame = t.vid.nScanlinesPerFrame
  /\ u.vid.nCyclesPerLine = t.vid.nCyclesPerLine /\ u.vid.StartCycle = t.vid.StartCycle
  /\ u.vid.HBL_CyclePos = t.vid.HBL_CyclePos
  /\ u.vid.RestartVideoCounter = t.vid.RestartVideoCounter
  /\ u.vid.FrameCycles = t.vid.FrameCycles
  /\ u.vid.bUseHighRes = t.vid.bUseHighRes /\ u.vid.bUseVDIRes = t.vid.bUseVDIRes
  /\ u.vid.events = e
  /\ \A g \in InterruptId \ {INTERRUPT_IKBD_AUTOSEND, t.cyc.ActiveInterrupt} : Kept(t, u, g)

LEMMA AutoSendDoes ==
  ASSUME AutoSendFits, NEW t, Works(t), NEW e \in Int,
         NEW u, u = IKBD_InterruptHandler_AutoSend(t, e)
  PROVE  AutoSent(t, u, e)
<1>1. PICK a, h : a = Acknowledge(t) /\ h = t.cyc.ActiveInterrupt
  OBVIOUS
<1>2. /\ a \in Machine /\ a.vid = t.vid /\ a.cyc \in SchedulerState /\ a.vid \in VideoState
      /\ \A g \in InterruptId \ {h} : Kept(t, a, g)
  <2>1. a \in Machine /\ a.vid = t.vid /\ \A g \in InterruptId \ {h} : Kept(t, a, g)
    BY ONLY AutoSendFits, Works(t), <1>1, AcknowledgeDoes
  <2> QED BY <2>1, MachineFacts
<1>3. PICK c : c = CycInt_AddRelativeInterrupt(a.cyc, AutoSendCycles, "CPU8", INTERRUPT_IKBD_AUTOSEND)
  OBVIOUS
<1>4. c \in SchedulerState
  <2>1. "CPU8" \in CycleType /\ AutoSendCycles \in Int
    BY Timings DEF CycleType
  <2>2. PICK m : m = INT_CONVERT_TO_INTERNAL(AutoSendCycles, "CPU8")
    OBVIOUS
  <2>3. Fresh(c)
    BY <1>2, <1>3, <2>1, <2>2, Entries, AddRelativeEffect
  <2> QED BY <2>3 DEF Fresh
<1>5. PICK k : k = [a EXCEPT !.cyc = c]
  OBVIOUS
<1>6. k \in Machine /\ k.cyc = c /\ k.vid = t.vid
  BY <1>2, <1>4, <1>5 DEF Machine
<1>7. /\ Works(k) /\ Time(k, INTERRUPT_IKBD_AUTOSEND) = Limit
      /\ \A g \in InterruptId \ {INTERRUPT_IKBD_AUTOSEND} : Kept(a, k, g)
  BY <1>2, <1>3, <1>6, AskAutoSend
<1>8. PICK w : w = [t.vid EXCEPT !.events = e, !.sincePoll = 0]
  OBVIOUS
<1>9. /\ w \in VideoState
      /\ w.nHBL = t.vid.nHBL /\ w.nScanlinesPerFrame = t.vid.nScanlinesPerFrame
      /\ w.nCyclesPerLine = t.vid.nCyclesPerLine /\ w.StartCycle = t.vid.StartCycle
      /\ w.HBL_CyclePos = t.vid.HBL_CyclePos
      /\ w.RestartVideoCounter = t.vid.RestartVideoCounter
      /\ w.FrameCycles = t.vid.FrameCycles
      /\ w.bUseHighRes = t.vid.bUseHighRes /\ w.bUseVDIRes = t.vid.bUseVDIRes
      /\ w.events = e /\ w.sincePoll = 0
  BY <1>2, <1>8 DEF VideoState
<1>10. u = WithVideo(k, w)
  <2>1. u = [a EXCEPT !.cyc = c, !.vid.events = e, !.vid.sincePoll = 0]
    BY ONLY u = IKBD_InterruptHandler_AutoSend(t, e), <1>1, <1>3, Zenon
       DEF IKBD_InterruptHandler_AutoSend
  <2>2. u = [k EXCEPT !.vid = [a.vid EXCEPT !.events = e, !.sincePoll = 0]]
    BY <1>2, <1>5, <2>1 DEF Machine
  <2> QED BY <1>2, <1>8, <2>2 DEF WithVideo
<1>11. Works(u)
  BY ONLY <1>7, <1>9, <1>10, VideoOnlyWorks
<1>12. u.vid = w /\ \A g \in InterruptId : Kept(k, u, g)
  BY ONLY <1>6, <1>9, <1>10, VideoOnly
<1>13. Polled(u)
  <2>1. Time(u, INTERRUPT_IKBD_AUTOSEND) = Limit
    BY <1>7, <1>12, Entries DEF Kept
  <2>2. Conv(u.vid.sincePoll) = 0
    BY <1>9, <1>12, ConvZero
  <2> QED BY <2>1, <2>2, LimitType DEF Polled
<1>14. \A g \in InterruptId \ {INTERRUPT_IKBD_AUTOSEND, h} : Kept(t, u, g)
  BY <1>2, <1>7, <1>12 DEF Kept
<1> QED BY <1>1, <1>9, <1>11, <1>12, <1>13, <1>14 DEF AutoSent

(* Undisturbed, it moves nothing on the line. *)
LEMMA AutoSendInv ==
  ASSUME RealTimings, NEW t, FrameInv(t), t.cyc.ActiveInterrupt = INTERRUPT_IKBD_AUTOSEND,
         NEW u, u = IKBD_InterruptHandler_AutoSend(t, t.vid.events)
  PROVE  FrameInv(u)
<1>1. Works(t) /\ t \in Machine /\ Video(t) /\ AutoSendFits /\ t.vid.events \in Int
  BY MachineFacts, VideoFacts DEF FrameInv, Works, RealTimings
<1>2. AutoSent(t, u, t.vid.events)
  BY <1>1, AutoSendDoes
<1>3. u \in Machine /\ Works(u) /\ Polled(u) /\ u.vid.FrameCycles \in Nat
  BY <1>2, MachineFacts, VideoFacts DEF AutoSent, Works
<1>4. \A h \in VideoEntries : Kept(t, u, h) /\ On(u, h) = On(t, h)
  <2>1. \A h \in VideoEntries : Kept(t, u, h)
    BY <1>2, Entries DEF AutoSent, VideoEntries
  <2>2. u.vid.FrameCycles = t.vid.FrameCycles /\ u.vid.StartCycle = t.vid.StartCycle
    BY <1>2 DEF AutoSent
  <2> QED BY <2>1, <2>2 DEF Kept, On
<1>5. SameLine(t.vid, u.vid) /\ u.vid.FrameCycles >= t.vid.FrameCycles
  <2>1. SameLine(t.vid, u.vid) /\ u.vid.FrameCycles = t.vid.FrameCycles
    BY <1>2 DEF AutoSent, SameLine
  <2> QED BY <1>3, <2>1
<1>6. Unmoved(t, u)
  BY <1>4, <1>5 DEF Unmoved, Kept
<1>7. Video(u)
  BY <1>1, <1>3, <1>6, UnmovedVideo
<1> QED BY <1>3, <1>7 DEF FrameInv

(* After a reset or a restore it may acknowledge another entry, which is   *)
(* none of the chain; the frame is marked.                                 *)
LEMMA AutoSendMarkedInv ==
  ASSUME RealTimings, NEW t, FrameInv(t),
         t.cyc.ActiveInterrupt # INTERRUPT_VIDEO_HBL,
         t.cyc.ActiveInterrupt # INTERRUPT_VIDEO_VBL,
         NEW u, u = IKBD_InterruptHandler_AutoSend(t, -1)
  PROVE  FrameInv(u)
<1>1. Works(t) /\ Frame(t) /\ Chain(t) /\ Order(t) /\ AutoSendFits /\ -1 \in Int
  BY DEF FrameInv, Video, RealTimings
<1>2. AutoSent(t, u, -1)
  BY <1>1, AutoSendDoes
<1>3. /\ Works(u) /\ Polled(u)
      /\ u.vid.nHBL = t.vid.nHBL /\ u.vid.nScanlinesPerFrame = t.vid.nScanlinesPerFrame
      /\ u.vid.nCyclesPerLine = t.vid.nCyclesPerLine /\ u.vid.StartCycle = t.vid.StartCycle
      /\ u.vid.RestartVideoCounter = t.vid.RestartVideoCounter
      /\ u.vid.FrameCycles = t.vid.FrameCycles
      /\ u.vid.bUseHighRes = t.vid.bUseHighRes /\ u.vid.bUseVDIRes = t.vid.bUseVDIRes
      /\ u.vid.events = -1
      /\ Kept(t, u, INTERRUPT_VIDEO_HBL) /\ Kept(t, u, INTERRUPT_VIDEO_VBL)
  BY <1>2, Entries DEF AutoSent
<1>4. /\ On(u, INTERRUPT_VIDEO_HBL) = On(t, INTERRUPT_VIDEO_HBL)
      /\ On(u, INTERRUPT_VIDEO_VBL) = On(t, INTERRUPT_VIDEO_VBL)
  BY <1>3 DEF Kept, On
<1>5. Frame(u)
  BY <1>1, <1>3 DEF Frame
<1>6. Chain(u)
  BY <1>1, <1>3 DEF Chain, Kept
<1>7. Order(u)
  BY <1>1, <1>3, <1>4 DEF Order
<1>8. ~Whole(u)
  BY <1>3 DEF Whole
<1>9. Grid(u) /\ Lines(u)
  BY <1>8 DEF Grid, Lines
<1> QED BY <1>3, <1>5, <1>6, <1>7, <1>9 DEF FrameInv, Video

-----------------------------------------------------------------------------
(* The invariant holds at every step. *)

LEMMA HandlersInv ==
  ASSUME RealTimings, FrameInv(st), Handler
  PROVE  FrameInv(st')
<1>1. Works(st) /\ st \in Machine /\ AutoSendFits
  BY DEF FrameInv, Works, RealTimings
<1>2. CASE HBLHandler
  BY <1>2, HBLInv
<1>3. CASE EndLineHandler
  BY <1>3, EndLineInv
<1>4. CASE VBLHandler
  <2>1. Due(INTERRUPT_VIDEO_VBL) /\ st' = Video_InterruptHandler_VBL(st, st)
    BY <1>4 DEF VBLHandler
  <2>2. st.cyc.ActiveInterrupt = INTERRUPT_VIDEO_VBL
    BY <1>1, <2>1, DueFacts
  <2>3. st.cyc.PendingInterruptCount <= 0
    BY <2>1 DEF Due, HandlerIsDue
  <2> QED BY <1>1, <2>1, <2>2, <2>3, VBLInv
<1>5. CASE AutoSendHandler
  <2>1. /\ Due(INTERRUPT_IKBD_AUTOSEND)
        /\ st' = IKBD_InterruptHandler_AutoSend(st, st.vid.events)
    BY <1>5 DEF AutoSendHandler
  <2>2. st.cyc.ActiveInterrupt = INTERRUPT_IKBD_AUTOSEND
    BY <1>1, <2>1, DueFacts
  <2> QED BY <2>1, <2>2, AutoSendInv
<1> QED BY <1>2, <1>3, <1>4, <1>5 DEF Handler

(* The user, in the VBL handler and in the AUTOSEND handler. *)
LEMMA ResetsInv ==
  ASSUME RealTimings, FrameInv(st), NEW vdi \in BOOLEAN, NEW mono \in BOOLEAN,
         VBLReset(vdi, mono) \/ AutoSendReset(vdi, mono)
  PROVE  FrameInv(st')
<1>1. Works(st) /\ st \in Machine
  BY DEF FrameInv, Works
<1>2. PICK t : t = Reset_ST(st, vdi, mono)
  OBVIOUS
<1>3. ResetDone(t, vdi)
  BY ONLY RealTimings, <1>1, <1>2, vdi \in BOOLEAN, mono \in BOOLEAN, ResetInv
<1>4. FrameInv(t) /\ t.vid.bUseVDIRes = vdi /\ t.vid.nHBL = 0
  BY <1>3 DEF ResetDone
<1>5. CASE VBLReset(vdi, mono)
  <2>1. Due(INTERRUPT_VIDEO_VBL) /\ st' = Video_InterruptHandler_VBL(st, t)
    BY <1>2, <1>5 DEF VBLReset
  <2>2. st.cyc.PendingInterruptCount <= 0
    BY <2>1 DEF Due, HandlerIsDue
  <2>3. t.vid.bUseVDIRes \/ ~InUse(t, INTERRUPT_VIDEO_VBL)
    <3>1. SUFFICES ASSUME ~t.vid.bUseVDIRes PROVE ~InUse(t, INTERRUPT_VIDEO_VBL)
      OBVIOUS
    <3>2. Frame(t) /\ Chain(t) /\ t.vid.nScanlinesPerFrame \in Nat
      BY <1>4, MachineFacts, VideoFacts DEF FrameInv, Video, Works
    <3>3. ~(t.vid.nHBL >= t.vid.nScanlinesPerFrame - 1)
      BY <1>4, <3>2 DEF Frame
    <3> QED BY <3>1, <3>2, <3>3 DEF Chain
  <2> QED BY <1>1, <1>4, <2>1, <2>2, <2>3, VBLInv
<1>6. CASE AutoSendReset(vdi, mono)
  <2>1. vdi \in AutoSendResets /\ st' = IKBD_InterruptHandler_AutoSend(t, -1)
    BY <1>2, <1>6 DEF AutoSendReset
  <2>2. ResetDone(t, FALSE)
    <3>1. vdi = FALSE
      BY <2>1 DEF RealTimings
    <3> QED BY ONLY <1>3, <3>1, Zenon
  <2>3. /\ t.cyc.ActiveInterrupt # INTERRUPT_VIDEO_HBL
        /\ t.cyc.ActiveInterrupt # INTERRUPT_VIDEO_VBL
    BY <2>2, ActiveAfterReset
  <2> QED BY <1>4, <2>1, <2>3, AutoSendMarkedInv
<1> QED BY <1>5, <1>6

LEMMA RestoresInv ==
  ASSUME RealTimings, FrameInv(st), VBLRestore \/ AutoSendRestore \/ RestoreAtStart
  PROVE  FrameInv(st')
<1>1. Works(st) /\ st \in Machine /\ AutoSendFits
  BY DEF FrameInv, Works, RealTimings
<1>2. PICK t : t = Restored
  OBVIOUS
<1>3. FrameInv(t) /\ t.cyc.ActiveInterrupt = st.cyc.ActiveInterrupt
  BY <1>2, RestoredInv
<1>4. CASE VBLRestore
  <2>1. Due(INTERRUPT_VIDEO_VBL) /\ st' = Video_InterruptHandler_VBL(st, t)
    BY <1>2, <1>4 DEF VBLRestore
  <2>2. t.cyc.ActiveInterrupt = INTERRUPT_VIDEO_VBL
    BY <1>1, <1>3, <2>1, DueFacts
  <2>3. st.cyc.PendingInterruptCount <= 0
    BY <2>1 DEF Due, HandlerIsDue
  <2> QED BY <1>1, <1>3, <2>1, <2>2, <2>3, VBLInv
<1>5. CASE AutoSendRestore
  <2>1. Due(INTERRUPT_IKBD_AUTOSEND) /\ st' = IKBD_InterruptHandler_AutoSend(t, -1)
    BY <1>2, <1>5 DEF AutoSendRestore
  <2>2. t.cyc.ActiveInterrupt = INTERRUPT_IKBD_AUTOSEND
    BY <1>1, <1>3, <2>1, DueFacts
  <2> QED BY <1>3, <2>1, <2>2, AutoSendMarkedInv, Entries
<1>6. CASE RestoreAtStart
  BY <1>2, <1>3, <1>6 DEF RestoreAtStart
<1> QED BY <1>4, <1>5, <1>6

(* The inductive invariant of the frame. *)
THEOREM FrameInvariant == ASSUME RealTimings PROVE Spec => []FrameInv(st)
<1>1. Init => FrameInv(st)
  BY InitInv
<1>2. FrameInv(st) /\ [Next]_st => FrameInv(st)'
  <2>1. SUFFICES ASSUME FrameInv(st), [Next]_st PROVE FrameInv(st)'
    OBVIOUS
  <2>2. CASE Program
    BY <2>1, <2>2, ProgramInv
  <2>3. CASE Handler
    BY <2>1, <2>3, HandlersInv
  <2>4. CASE UserAct
    <3>1. CASE \E vdi, mono \in BOOLEAN : VBLReset(vdi, mono) \/ AutoSendReset(vdi, mono)
      BY <2>1, <3>1, ResetsInv
    <3>2. CASE VBLRestore \/ AutoSendRestore \/ RestoreAtStart
      BY <2>1, <3>2, RestoresInv
    <3> QED BY <2>4, <3>1, <3>2 DEF UserAct
  <2>5. CASE UNCHANGED st
    BY <2>1, <2>5
  <2> QED BY <2>1, <2>2, <2>3, <2>4, <2>5 DEF Next
<1> QED BY <1>1, <1>2, PTL DEF Spec

-----------------------------------------------------------------------------
(* What the invariant says. *)

(* The machine stays in the states that its variables can represent.       *)
THEOREM FrameTypeCorrect == ASSUME RealTimings PROVE Spec => []TypeOK
<1>1. FrameInv(st) => TypeOK
  BY MachineFacts DEF FrameInv, Works, TypeOK
<1> QED BY <1>1, FrameInvariant, PTL

(* The chain of the frame is never broken, nor the polling of the user:    *)
(* whatever happened inside the handlers, an HBL or a VBL is pending       *)
(* between two of them (cycInt.c:229), and so is AUTOSEND.                 *)
THEOREM ChainNeverBroken == ASSUME RealTimings PROVE Spec => []ChainUnbroken
<1>1. FrameInv(st) => ChainUnbroken
  <2>1. SUFFICES ASSUME FrameInv(st) PROVE ChainUnbroken
    OBVIOUS
  <2>2. Works(st) /\ Chain(st) /\ Frame(st) /\ st \in Machine
    BY <2>1 DEF FrameInv, Video, Works
  <2>3. st.vid.nHBL \in Nat /\ st.vid.nScanlinesPerFrame \in Nat
    BY <2>2, MachineFacts, VideoFacts
  <2>4. InUse(st, INTERRUPT_VIDEO_HBL) \/ InUse(st, INTERRUPT_VIDEO_VBL)
    BY <2>2, <2>3 DEF Chain
  <2> QED BY <2>2, <2>4 DEF ChainUnbroken, Works
<1> QED BY <1>1, FrameInvariant, PTL

(* With the handlers of the video and of the keyboard calling the          *)
(* scheduler, no event is missed: as soon as one is due the test of the    *)
(* CPU loop succeeds, and the handler that it calls is in use and due no   *)
(* later than any other one (cycInt.c:229).                                *)
NoEventMissed ==
  \A h \in Handlers :
    InUse(st, h) /\ CyclesLeft(st.cyc, h) <= 0 =>
      /\ HandlerIsDue(st.cyc)
      /\ InUse(st, st.cyc.PendingInterruptFunction)
      /\ \A g \in Handlers : InUse(st, g) =>
           CyclesLeft(st.cyc, st.cyc.PendingInterruptFunction) <= CyclesLeft(st.cyc, g)

(* No HBL, end of line, VBL or AUTOSEND is ever overlooked, and the last   *)
(* entry never leaves the table: the scheduler's users keep the            *)
(* assumption that it makes of them (cycInt.c:229).                        *)
THEOREM NoVideoEventMissed == ASSUME RealTimings PROVE Spec => []NoEventMissed
<1>1. FrameInv(st) => NoEventMissed
  <2> SUFFICES ASSUME FrameInv(st),
                      NEW h \in Handlers, InUse(st, h), CyclesLeft(st.cyc, h) <= 0
               PROVE  /\ HandlerIsDue(st.cyc)
                      /\ InUse(st, st.cyc.PendingInterruptFunction)
                      /\ \A g \in Handlers : InUse(st, g) =>
                           CyclesLeft(st.cyc, st.cyc.PendingInterruptFunction)
                             <= CyclesLeft(st.cyc, g)
    BY DEF NoEventMissed
  <2>1. Works(st) /\ st \in Machine /\ AutoSendFits
    BY DEF FrameInv, Works, RealTimings
  <2>2. PICK a : a = st.cyc.PendingInterruptFunction
    OBVIOUS
  <2>3. /\ a \in Handlers /\ a \in InterruptId /\ a > 0 /\ InUse(st, a)
        /\ st.cyc.PendingInterruptCount = Time(st, a)
        /\ \A g \in Handlers : InUse(st, g) => Time(st, a) <= Time(st, g)
        /\ \A g \in InterruptId : InUse(st, g) => CyclesLeft(st.cyc, g) = Time(st, g)
    BY <2>1, <2>2, ActiveFacts
  <2>4. \A g \in Handlers : g \in InterruptId
    BY DEF InterruptId
  <2>5. \A g \in Handlers : InUse(st, g) => CyclesLeft(st.cyc, a) <= CyclesLeft(st.cyc, g)
    BY <2>3, <2>4
  <2>6. Time(st, a) \in Int /\ Time(st, h) \in Int
    BY <2>1, <2>3, <2>4, MachineFacts
  <2>7. Time(st, h) <= 0 /\ Time(st, a) <= Time(st, h)
    BY <2>3, <2>4
  <2>8. HandlerIsDue(st.cyc)
    <3>1. st.cyc.PendingInterruptCount <= 0
      BY <2>3, <2>6, <2>7
    <3>2. st.cyc.PendingInterruptFunction # INTERRUPT_NULL
      BY <2>2, <2>3 DEF INTERRUPT_NULL
    <3> QED BY <3>1, <3>2 DEF HandlerIsDue
  <2> QED BY <2>2, <2>3, <2>5, <2>8
<1> QED BY <1>1, FrameInvariant, PTL

(* When the VBL handler is called, the HBL of every line of the frame has  *)
(* been handled, however late the handlers were (video.c:2841).            *)
THEOREM FramesAreComplete == ASSUME RealTimings PROVE Spec => []FrameComplete
<1>1. FrameInv(st) => FrameComplete
  <2>1. SUFFICES ASSUME FrameInv(st), Due(INTERRUPT_VIDEO_VBL), ~st.vid.bUseVDIRes
                 PROVE  st.vid.nHBL = st.vid.nScanlinesPerFrame
    BY DEF FrameComplete
  <2>2. PICK a : a = Acknowledge(st)
    OBVIOUS
  <2>3. /\ st \in Machine /\ Frame(st) /\ Chain(st) /\ Order(st)
        /\ InUse(st, INTERRUPT_VIDEO_VBL)
        /\ \A g \in Handlers : InUse(st, g) => On(st, INTERRUPT_VIDEO_VBL) <= On(st, g)
    BY <2>1, <2>2, CalledFacts, Entries
  <2>4. /\ st.vid.nHBL \in Nat /\ st.vid.nScanlinesPerFrame \in Nat
        /\ On(st, INTERRUPT_VIDEO_VBL) \in Int /\ On(st, INTERRUPT_VIDEO_HBL) \in Int
    BY <2>3, MachineFacts, VideoFacts, OnFacts, Entries
  <2>5. /\ st.vid.nHBL >= st.vid.nScanlinesPerFrame - 1
        /\ st.vid.nHBL <= st.vid.nScanlinesPerFrame
    BY <2>1, <2>3 DEF Frame, Chain
  <2>6. st.vid.nHBL # st.vid.nScanlinesPerFrame - 1
    <3>1. SUFFICES ASSUME st.vid.nHBL = st.vid.nScanlinesPerFrame - 1 PROVE FALSE
      OBVIOUS
    <3>2. InUse(st, INTERRUPT_VIDEO_HBL)
      BY <2>1, <2>3, <2>4, <3>1 DEF Chain
    <3>3. On(st, INTERRUPT_VIDEO_VBL) <= On(st, INTERRUPT_VIDEO_HBL)
      BY <2>3, <3>2, Entries
    <3>4. On(st, INTERRUPT_VIDEO_HBL) < On(st, INTERRUPT_VIDEO_VBL)
      BY <2>1, <2>3, <3>1 DEF Order
    <3> QED BY <2>4, <3>3, <3>4
  <2> QED BY <2>4, <2>5, <2>6
<1> QED BY <1>1, FrameInvariant, PTL

(* An entry that is at a position of the line is due there. *)
LEMMA DueThere ==
  ASSUME AutoSendFits, Works(st), NEW h \in InterruptId, InUse(st, h), NEW pos \in Int,
         On(st, h) = Conv(pos), NEW position, position = st.vid.StartCycle + pos
  PROVE  IsDueAt(h, position)
<1>1. st \in Machine /\ st.vid.StartCycle \in Nat /\ st.vid.FrameCycles \in Nat
  BY MachineFacts, VideoFacts DEF Works
<1>2. PICK a \in Int, b \in Int : a = st.vid.StartCycle /\ b = st.vid.FrameCycles
  BY <1>1
<1>3. PICK k \in Int, n \in Int : k = a + pos /\ n = k - b
  OBVIOUS
<1>4. Conv(k) = Conv(a) + Conv(pos) /\ Conv(a) \in Int /\ Conv(pos) \in Int
  BY ONLY <1>3, a \in Int, pos \in Int, ConvAdds
<1>5. Conv(k) = Conv(n) + Conv(b) /\ Conv(n) \in Int /\ Conv(b) \in Int
  <2>1. k = n + b
    BY <1>3
  <2> QED BY ONLY <2>1, n \in Int, b \in Int, ConvAdds
<1>6. CyclesLeft(st.cyc, h) = Time(st, h) /\ Time(st, h) \in Int
  BY <1>1, ActiveFacts, MachineFacts
<1>7. On(st, h) = Time(st, h) + Conv(b) - Conv(a)
  BY <1>2 DEF On
<1>8. CyclesLeft(st.cyc, h) = Conv(n)
  BY <1>4, <1>5, <1>6, <1>7
<1>9. n = position - st.vid.FrameCycles
  BY <1>2, <1>3
<1> QED BY <1>8, <1>9 DEF IsDueAt, Conv

(* No handler drifts: in a frame that started as it should, an HBL is due  *)
(* exactly at its position on its line and the VBL exactly                 *)
(* VblVideoCycleOffset cycles after the last line.                         *)
THEOREM HandlersDoNotDrift == ASSUME RealTimings PROVE Spec => []OnGrid
<1>1. FrameInv(st) => OnGrid
  <2>1. SUFFICES ASSUME FrameInv(st) PROVE OnGrid
    OBVIOUS
  <2>2. PICK v : v = st.vid
    OBVIOUS
  <2>3. /\ Works(st) /\ st \in Machine /\ Chain(st) /\ Grid(st) /\ AutoSendFits
        /\ v \in VideoState
        /\ v.nHBL \in Nat /\ v.nScanlinesPerFrame \in Nat /\ v.StartCycle \in Nat
        /\ v.nCyclesPerLine \in Nat /\ v.HBL_CyclePos \in Nat
    BY <2>1, <2>2, MachineFacts, VideoFacts DEF FrameInv, Video, Works, RealTimings
  <2>4. ASSUME v.events # -1, InUse(st, INTERRUPT_VIDEO_HBL), v.nHBL > 0
        PROVE  IsDueAt(INTERRUPT_VIDEO_HBL, v.StartCycle + NextHblPos(v))
    <3>1. Whole(st) /\ v.nHBL < v.nScanlinesPerFrame
      BY <2>2, <2>3, <2>4 DEF Chain, Whole
    <3>2. On(st, INTERRUPT_VIDEO_HBL) = Conv(NextHblPos(v))
      BY <2>2, <2>3, <2>4, <3>1 DEF Grid
    <3>3. NextHblPos(v) \in Int
      BY <2>3, Timings DEF NextHblPos
    <3>4. PICK position : position = st.vid.StartCycle + NextHblPos(v)
      OBVIOUS
    <3>5. IsDueAt(INTERRUPT_VIDEO_HBL, position)
      BY <2>3, <2>4, <3>2, <3>3, <3>4, DueThere, Entries
    <3> QED BY <2>2, <3>4, <3>5
  <2>5. ASSUME v.events # -1, InUse(st, INTERRUPT_VIDEO_VBL), ~v.bUseVDIRes
        PROVE  IsDueAt(INTERRUPT_VIDEO_VBL, v.StartCycle + v.nCyclesPerLine + VblVideoCycleOffset)
    <3>1. Whole(st) /\ v.nHBL >= v.nScanlinesPerFrame - 1
      BY <2>2, <2>3, <2>5 DEF Chain, Whole
    <3>2. PICK pos \in Int : pos = v.nCyclesPerLine + VblVideoCycleOffset
      BY <2>3, Timings
    <3>3. On(st, INTERRUPT_VIDEO_VBL) = Conv(pos)
      BY <2>2, <2>3, <3>1, <3>2 DEF Grid
    <3>4. PICK position : position = st.vid.StartCycle + pos
      OBVIOUS
    <3>5. IsDueAt(INTERRUPT_VIDEO_VBL, position)
      BY ONLY <2>3, <2>5, <3>3, <3>4, pos \in Int, DueThere, Entries
    <3>6. position = v.StartCycle + v.nCyclesPerLine + VblVideoCycleOffset
      BY <2>2, <2>3, <3>2, <3>4, Timings
    <3> QED BY <3>5, <3>6
  <2> QED BY <2>2, <2>4, <2>5 DEF OnGrid, NextHblPos
<1> QED BY <1>1, FrameInvariant, PTL

(* Every line gives timer B one end-of-line event, before its HBL.         *)
THEOREM EveryLineEnds == ASSUME RealTimings PROVE Spec => []EndOfEveryLine
<1>1. FrameInv(st) => EndOfEveryLine
  <2>1. SUFFICES ASSUME FrameInv(st), st.vid.events # -1, ~st.vid.bUseVDIRes
        PROVE  st.vid.events - st.vid.nHBL \in
                 IF st.vid.nHBL = st.vid.nScanlinesPerFrame THEN {0} ELSE {0, 1}
    BY DEF EndOfEveryLine
  <2>2. PICK n \in Nat, m \in Nat, e \in Int :
          n = st.vid.nHBL /\ m = st.vid.nScanlinesPerFrame /\ e = st.vid.events
    BY <2>1, MachineFacts, VideoFacts DEF FrameInv, Works
  <2>3. Lines(st) /\ Whole(st)
    BY <2>1 DEF FrameInv, Video, Whole
  <2>4. (n < m /\ e = n) \/ (n < m /\ e = n + 1) \/ (n = m /\ e = n)
    BY <2>2, <2>3 DEF Lines
  <2>5. e - n \in IF n = m THEN {0} ELSE {0, 1}
    BY <2>4
  <2> QED BY <2>2, <2>5
<1> QED BY <1>1, FrameInvariant, PTL

(* The user is polled in time, also while the program executes RESET in a  *)
(* loop (ikbd.c:597): AUTOSEND is due no later than AutoSendCycles after   *)
(* it was handled last.                                                    *)
THEOREM UserAlwaysPolled == ASSUME RealTimings PROVE Spec => []UserPolled
<1>1. FrameInv(st) => UserPolled
  <2>1. SUFFICES ASSUME FrameInv(st) PROVE UserPolled
    OBVIOUS
  <2>2. Works(st) /\ Polled(st) /\ AutoSendFits /\ InUse(st, INTERRUPT_IKBD_AUTOSEND)
    BY <2>1 DEF FrameInv, Works, RealTimings
  <2>3. CyclesLeft(st.cyc, INTERRUPT_IKBD_AUTOSEND) = Time(st, INTERRUPT_IKBD_AUTOSEND)
    BY <2>2, ActiveFacts, Entries
  <2>4. Conv(st.vid.sincePoll) + Time(st, INTERRUPT_IKBD_AUTOSEND) <= Limit
    BY <2>2 DEF Polled
  <2> QED BY <2>3, <2>4 DEF UserPolled, Conv, Limit
<1> QED BY <1>1, FrameInvariant, PTL
=============================================================================
