-------------------------- MODULE MFPTimersProofs --------------------------
(***************************************************************************)
(* Proofs about the MFP timers on the scheduler, for every table, set of   *)
(* prescalers, width of a data register, program and conversion factor.    *)
(***************************************************************************)
EXTENDS MFPTimersSpec, CycIntLemmas

(* "there is always a VBL or HBL counter pending which fits fine into the  *)
(* 32 bit variable" (cycInt.c:228): the second half of that sentence.      *)
VideoFits == INT_CONVERT_TO_INTERNAL(VideoPeriod, "CPU") < INT_MAX

-----------------------------------------------------------------------------
(* Arithmetic: prescalers, periods and counters. *)

LEMMA PrescalerType ==
  ASSUME NEW ctrl \in 0 .. 15
  PROVE  /\ Prescaler(ctrl) \in Nat
         /\ Prescaler(ctrl) # 0 => ctrl % 8 \in 1 .. 7 /\ Prescaler(ctrl) = MFPDiv[ctrl % 8]
<1>1. ctrl % 8 \in 0 .. 7
  OBVIOUS
<1>2. CASE ctrl % 8 = 0
  BY <1>2 DEF Prescaler
<1>3. CASE ctrl % 8 # 0
  <2> DEFINE c == ctrl % 8
  <2>1. c \in 1 .. 7
    BY <1>1, <1>3
  <2>2. Prescaler(ctrl) = MFPDiv[c]
    BY <1>3 DEF Prescaler
  <2> HIDE DEF c
  <2>3. MFPDiv[c] \in Nat
    BY <2>1, TimersAssumption
  <2> QED BY <2>1, <2>2, <2>3 DEF c
<1> QED BY <1>2, <1>3

LEMMA MonotoneProduct ==
  ASSUME NEW a \in Nat, NEW b \in Nat, NEW c \in Nat, a <= b
  PROVE  a * c <= b * c
OBVIOUS

LEMMA PositiveProduct ==
  ASSUME NEW a \in Nat \ {0}, NEW b \in Nat \ {0}
  PROVE  a * b \in Nat \ {0}
OBVIOUS

LEMMA MFPFactor ==
  /\ FreqFactor \in Nat \ {0}
  /\ INT_MFP_TO_INTERNAL * FreqFactor \in Nat \ {0}
  /\ \A n \in Nat : INT_CONVERT_TO_INTERNAL(n, "MFP") = n * (INT_MFP_TO_INTERNAL * FreqFactor)
<1>1. FreqFactor \in Nat \ {0}
  BY DEF FreqFactor
<1>2. INT_MFP_TO_INTERNAL \in Nat \ {0}
  BY FactorAssumption
<1>3. INT_MFP_TO_INTERNAL * FreqFactor \in Nat \ {0}
  BY <1>1, <1>2, PositiveProduct
<1>4. ASSUME NEW n \in Nat
      PROVE  INT_CONVERT_TO_INTERNAL(n, "MFP") = n * (INT_MFP_TO_INTERNAL * FreqFactor)
  <2>1. INT_CONVERT_TO_INTERNAL(n, "MFP") = n * INT_MFP_TO_INTERNAL * FreqFactor
    BY DEF INT_CONVERT_TO_INTERNAL
  <2>2. n * INT_MFP_TO_INTERNAL * FreqFactor = n * (INT_MFP_TO_INTERNAL * FreqFactor)
    BY <1>1, <1>2
  <2> QED BY <2>1, <2>2
<1> QED BY <1>1, <1>3, <1>4

(* The ticks a start counts: a data register of 0 counts as FullCount. *)
Ticks(value) == IF value = 0 THEN FullCount ELSE value

LEMMA TicksType ==
  ASSUME NEW value \in Counts
  PROVE  Ticks(value) \in 1 .. FullCount
BY TimersAssumption DEF Ticks, Counts

(* The period of a timer is positive where it runs, and no longer than     *)
(* that of a full data register.                                           *)
LEMMA PeriodFacts ==
  ASSUME NEW value \in Counts, NEW ctrl \in 0 .. 15
  PROVE  /\ MFP_REG_TO_CYCLES(Ticks(value), ctrl) \in Nat
         /\ (MFP_REG_TO_CYCLES(Ticks(value), ctrl) = 0) = (Prescaler(ctrl) = 0)
         /\ Period(value, ctrl) = INT_CONVERT_TO_INTERNAL(MFP_REG_TO_CYCLES(Ticks(value), ctrl), "MFP")
         /\ Period(value, ctrl) \in Nat
         /\ Prescaler(ctrl) # 0 => /\ Period(value, ctrl) > 0
                                   /\ \E c \in 1 .. 7 : Period(value, ctrl) <= Period(0, c)
<1> DEFINE n == Ticks(value)
<1> DEFINE p == Prescaler(ctrl)
<1> DEFINE f == INT_MFP_TO_INTERNAL * FreqFactor
<1>1. n \in 1 .. FullCount /\ FullCount \in Nat \ {0, 1}
  BY TicksType, TimersAssumption
<1>2. p \in Nat
  BY PrescalerType
<1>3. f \in Nat \ {0}
  BY MFPFactor
<1>4. MFP_REG_TO_CYCLES(n, ctrl) = n * p
  BY DEF MFP_REG_TO_CYCLES
<1>5. Period(value, ctrl) = INT_CONVERT_TO_INTERNAL(MFP_REG_TO_CYCLES(n, ctrl), "MFP")
  BY DEF Period, Ticks
<1> HIDE DEF n, p, f
<1>6. n * p \in Nat /\ (n * p = 0 <=> p = 0)
  <2>1. CASE p = 0
    BY <1>1, <2>1
  <2>2. CASE p # 0
    BY <1>1, <1>2, <2>2, PositiveProduct
  <2> QED BY <2>1, <2>2
<1>7. Period(value, ctrl) = (n * p) * f
  BY <1>4, <1>5, <1>6, MFPFactor DEF f
<1>8. (n * p) * f \in Nat
  <2>1. \A a, b \in Nat : a * b \in Nat
    OBVIOUS
  <2> QED BY <1>3, <1>6, <2>1
<1>9. ASSUME p # 0
      PROVE  (n * p) * f > 0 /\ \E c \in 1 .. 7 : (n * p) * f <= Period(0, c)
  <2>1. n * p \in Nat \ {0}
    BY <1>6, <1>9
  <2>2. (n * p) * f \in Nat \ {0}
    BY <1>3, <2>1, PositiveProduct
  <2> DEFINE c == ctrl % 8
  <2>3. c \in 1 .. 7 /\ p = MFPDiv[c]
    BY <1>9, PrescalerType DEF p
  <2> HIDE DEF c
  <2>4. Prescaler(c) = p
    BY <2>3 DEF Prescaler
  <2>5. Period(0, c) = INT_CONVERT_TO_INTERNAL(FullCount * p, "MFP")
    BY <2>4 DEF Period, MFP_REG_TO_CYCLES
  <2>6. FullCount * p \in Nat /\ n * p <= FullCount * p
    BY <1>1, <1>2, MonotoneProduct
  <2>7. Period(0, c) = (FullCount * p) * f
    BY <2>5, <2>6, MFPFactor DEF f
  <2>8. (n * p) * f <= (FullCount * p) * f
    BY <1>3, <1>6, <2>6, MonotoneProduct
  <2>9. (n * p) * f <= Period(0, c)
    BY <2>7, <2>8
  <2> QED BY <2>2, <2>3, <2>9
<1> QED BY <1>4, <1>5, <1>6, <1>7, <1>8, <1>9 DEF n, p

LEMMA DivType ==
  ASSUME NEW a \in Int, NEW b \in Nat \ {0}
  PROVE  /\ a \div b \in Int
         /\ a \in Nat => a \div b \in Nat
         /\ a >= b => a \div b >= 1
OBVIOUS

LEMMA CDivType ==
  ASSUME NEW a \in Int, NEW b \in Nat \ {0}
  PROVE  CDiv(a, b) \in Int /\ (a >= b => CDiv(a, b) >= 1)
<1>1. CASE a >= 0
  BY <1>1, DivType DEF CDiv
<1>2. CASE ~(a >= 0)
  <2>1. -a \in Int
    OBVIOUS
  <2>2. (-a) \div b \in Int
    BY <2>1, DivType
  <2>3. CDiv(a, b) = -((-a) \div b)
    BY <1>2 DEF CDiv
  <2> QED BY <1>2, <2>2, <2>3
<1> QED BY <1>1, <1>2

(* Time converted to cycles of the MFP is rounded up, so that it is not 0  *)
(* as long as there is some.                                               *)
LEMMA FromInternal ==
  ASSUME NEW c \in Int
  PROVE  /\ INT_CONVERT_FROM_INTERNAL(c, "MFP") \in Int
         /\ nCpuFreqShift = 0 /\ c >= 1 => INT_CONVERT_FROM_INTERNAL(c, "MFP") >= 1
<1> DEFINE m == INT_MFP_TO_INTERNAL
<1> DEFINE q == CDiv(c + m - 1, m)
<1>1. m \in Nat \ {0}
  BY FactorAssumption
<1>2. INT_CONVERT_FROM_INTERNAL(c, "MFP") = q \div FreqFactor
  BY DEF INT_CONVERT_FROM_INTERNAL
<1>3. c + m - 1 \in Int /\ (c >= 1 => c + m - 1 >= m)
  BY <1>1
<1>4. q \in Int /\ (c >= 1 => q >= 1)
  BY <1>1, <1>3, CDivType
<1> HIDE DEF q
<1>5. FreqFactor \in Nat \ {0} /\ (nCpuFreqShift = 0 => FreqFactor = 1)
  BY MFPFactor DEF FreqFactor
<1>6. q \div FreqFactor \in Int
  BY <1>4, <1>5, DivType
<1>7. nCpuFreqShift = 0 => q \div FreqFactor = q
  BY <1>4, <1>5
<1> QED BY <1>2, <1>4, <1>6, <1>7

(* So is the counter. *)
LEMMA CounterRoundsUp ==
  ASSUME NEW c \in Int, NEW ctrl \in 0 .. 15, Prescaler(ctrl) # 0
  PROVE  /\ MFP_CYCLE_TO_REG(c, ctrl) \in Int
         /\ c >= 1 => MFP_CYCLE_TO_REG(c, ctrl) >= 1
<1> DEFINE p == Prescaler(ctrl)
<1>1. p \in Nat \ {0}
  BY PrescalerType
<1>2. MFP_CYCLE_TO_REG(c, ctrl) = (c + p - 1) \div p
  BY DEF MFP_CYCLE_TO_REG
<1> HIDE DEF p
<1>3. c + p - 1 \in Int /\ (c >= 1 => c + p - 1 >= p)
  BY <1>1
<1>4. (c + p - 1) \div p \in Int /\ (c + p - 1 >= p => (c + p - 1) \div p >= 1)
  BY <1>1, <1>3, DivType
<1> QED BY <1>2, <1>3, <1>4

-----------------------------------------------------------------------------
(* The scheduler with its video entry, which the search always finds. *)

Scheduled(c) ==
  /\ Chosen(c)
  /\ c.bUsed[Video]
  /\ c.Cycles[Video] < INT_MAX

LEMMA VideoType == Video \in Handlers /\ Video \in InterruptId /\ \A h \in Timers : h # Video
BY SpecAssumption DEF InterruptId

LEMMA TimersType == \A h \in Timers : h \in Handlers /\ h \in InterruptId
BY TimersAssumption DEF Timers, TimersCD, InterruptId

LEMMA ScheduledFacts ==
  ASSUME NEW c, Scheduled(c)
  PROVE  /\ c \in SchedulerState
         /\ Video \in Candidates(c)
         /\ c.ActiveInterrupt \in Handlers
         /\ c.ActiveInterrupt > 0
         /\ c.PendingInterruptFunction = c.ActiveInterrupt
         /\ c.PendingInterruptFunction # INTERRUPT_NULL
         /\ c.bUsed[c.ActiveInterrupt]
         /\ Behind(c) = Elapsed(c)
         /\ Elapsed(c) \in Nat
         /\ TimeOf(c, c.ActiveInterrupt) = c.PendingInterruptCount
         /\ \A h \in Handlers : c.bUsed[h] => c.PendingInterruptCount <= TimeOf(c, h)
         /\ \A h \in InterruptId : TimeOf(c, h) \in Int
         /\ TimeOf(c, Video) < INT_MAX
<1>1. Video \in Candidates(c)
  BY VideoType DEF Scheduled, Candidates
<1>2. c \in SchedulerState /\ Chosen(c)
  BY DEF Scheduled, Chosen
<1>3. /\ c.ActiveInterrupt \in Handlers
      /\ c.ActiveInterrupt > 0
      /\ c.PendingInterruptFunction = c.ActiveInterrupt
      /\ c.PendingInterruptFunction # INTERRUPT_NULL
      /\ c.bUsed[c.ActiveInterrupt]
      /\ Behind(c) = Elapsed(c) /\ Elapsed(c) \in Nat
      /\ TimeOf(c, c.ActiveInterrupt) = c.PendingInterruptCount
      /\ \A h \in Handlers : c.bUsed[h] => c.PendingInterruptCount <= TimeOf(c, h)
  BY <1>1, <1>2, ChosenFacts
<1>4. \A h \in InterruptId : c.Cycles[h] \in Int
  BY <1>2 DEF SchedulerState
<1>5. \A h \in InterruptId : TimeOf(c, h) \in Int
  BY <1>3, <1>4 DEF TimeOf
<1>6. TimeOf(c, Video) < INT_MAX
  BY <1>3, <1>4, VideoType, IntMaxAssumption DEF TimeOf, Scheduled
<1> QED BY <1>1, <1>2, <1>3, <1>5, <1>6

(* A search that leaves the video entry its time leaves it the scheduler.  *)
LEMMA StillScheduled ==
  ASSUME NEW c, Scheduled(c), NEW d, Fresh(d), d.bUsed[Video],
         d.Cycles[Video] = TimeOf(c, Video)
  PROVE  Scheduled(d)
BY FreshIsChosen, ScheduledFacts DEF Scheduled

(* The calls about an entry h, seen as times left. *)
LEMMA Removed ==
  ASSUME NEW c, Scheduled(c), NEW h \in Timers, NEW d, d = CycInt_RemovePendingInterrupt(c, h)
  PROVE  /\ Scheduled(d) /\ Fresh(d)
         /\ ~d.bUsed[h]
         /\ \A g \in Handlers : TimeOf(d, g) = TimeOf(c, g)
         /\ \A g \in Handlers \ {h} : d.bUsed[g] = c.bUsed[g]
<1>1. c \in SchedulerState /\ c.ActiveInterrupt > 0 /\ c.bUsed[Video]
  BY ScheduledFacts DEF Scheduled
<1>2. h \in Handlers /\ h \in InterruptId /\ h # Video /\ Video \in Handlers
  BY VideoType, TimersType
<1>3. /\ Fresh(d) /\ ~d.bUsed[h]
      /\ \A g \in InterruptId \ {h} : d.bUsed[g] = c.bUsed[g]
      /\ \A g \in InterruptId : d.Cycles[g] = TimeOf(c, g)
  BY <1>1, <1>2, RemoveEffect
<1>4. \A g \in Handlers : g \in InterruptId
  BY DEF InterruptId
<1>5. Scheduled(d)
  BY <1>1, <1>2, <1>3, <1>4, StillScheduled
<1>6. \A g \in Handlers : TimeOf(d, g) = TimeOf(c, g)
  BY <1>3, <1>4, FreshIsChosen
<1> QED BY <1>3, <1>4, <1>5, <1>6

LEMMA Resumed ==
  ASSUME NEW c, Scheduled(c), Fresh(c), NEW h \in Timers,
         NEW d, d = CycInt_ResumeStoppedInterrupt(c, h)
  PROVE  /\ Scheduled(d) /\ Fresh(d)
         /\ d.bUsed[h]
         /\ \A g \in Handlers : TimeOf(d, g) = TimeOf(c, g)
         /\ \A g \in Handlers \ {h} : d.bUsed[g] = c.bUsed[g]
<1>1. c \in SchedulerState /\ Elapsed(c) = 0 /\ c.bUsed[Video]
  BY DEF Fresh, Scheduled
<1>2. h \in Handlers /\ h # Video /\ Video \in Handlers
  BY VideoType, TimersType
<1>3. /\ Fresh(d) /\ d.bUsed[h] /\ d.Cycles = c.Cycles
      /\ \A g \in InterruptId \ {h} : d.bUsed[g] = c.bUsed[g]
  BY <1>1, <1>2, ResumeEffect
<1>4. \A g \in Handlers : g \in InterruptId
  BY DEF InterruptId
<1>5. \A g \in Handlers : TimeOf(d, g) = TimeOf(c, g) /\ d.Cycles[g] = TimeOf(c, g)
  BY <1>3, <1>4, FreshIsChosen
<1>6. Scheduled(d)
  BY <1>1, <1>2, <1>3, <1>4, <1>5, StillScheduled
<1> QED BY <1>3, <1>4, <1>5, <1>6

LEMMA Added ==
  ASSUME NEW c, Scheduled(c), NEW h \in Timers, NEW n \in Nat, NEW o \in Int,
         NEW m, m = INT_CONVERT_TO_INTERNAL(n, "MFP") + o,
         NEW d, d = CycInt_AddRelativeInterruptWithOffset(c, n, "MFP", h, o)
  PROVE  /\ Scheduled(d) /\ Fresh(d)
         /\ d.bUsed[h]
         /\ TimeOf(d, h) = m
         /\ \A g \in Handlers \ {h} : TimeOf(d, g) = TimeOf(c, g) /\ d.bUsed[g] = c.bUsed[g]
<1>1. c \in SchedulerState /\ c.bUsed[Video]
  BY ScheduledFacts DEF Scheduled
<1>2. h \in Handlers /\ h # Video /\ Video \in Handlers
  BY VideoType, TimersType
<1>3. PICK type \in CycleType : type = "MFP"
  BY DEF CycleType
<1>4. /\ n \in Int /\ m = INT_CONVERT_TO_INTERNAL(n, type) + o
      /\ d = CycInt_AddRelativeInterruptWithOffset(c, n, type, h, o)
  BY <1>3
<1>5. /\ Fresh(d) /\ d.bUsed[h] /\ d.Cycles[h] = m
      /\ \A g \in InterruptId \ {h} : d.bUsed[g] = c.bUsed[g] /\ d.Cycles[g] = TimeOf(c, g)
  BY <1>1, <1>2, <1>4, AddEffect
<1>6. \A g \in Handlers : g \in InterruptId
  BY DEF InterruptId
<1>7. Scheduled(d)
  BY <1>1, <1>2, <1>5, <1>6, StillScheduled
<1>8. \A g \in Handlers : TimeOf(d, g) = d.Cycles[g]
  BY <1>5, <1>6, FreshIsChosen
<1> QED BY <1>2, <1>5, <1>6, <1>7, <1>8

(* The handler of a timer acknowledges its own entry. *)
LEMMA Acknowledged ==
  ASSUME NEW c, Scheduled(c), c.PendingInterruptFunction # Video,
         NEW d, d = CycInt_AcknowledgeInterrupt(c)
  PROVE  /\ Scheduled(d) /\ Fresh(d)
         /\ ~d.bUsed[c.PendingInterruptFunction]
         /\ \A g \in Handlers : TimeOf(d, g) = TimeOf(c, g)
         /\ \A g \in Handlers \ {c.PendingInterruptFunction} : d.bUsed[g] = c.bUsed[g]
<1>1. /\ c \in SchedulerState /\ c.ActiveInterrupt > 0 /\ c.bUsed[Video]
      /\ c.PendingInterruptFunction = c.ActiveInterrupt
  BY ScheduledFacts DEF Scheduled
<1>2. /\ Fresh(d) /\ ~d.bUsed[c.ActiveInterrupt]
      /\ \A g \in InterruptId \ {c.ActiveInterrupt} : d.bUsed[g] = c.bUsed[g]
      /\ \A g \in InterruptId : d.Cycles[g] = TimeOf(c, g)
  BY <1>1, AcknowledgeEffect
<1>3. \A g \in Handlers : g \in InterruptId
  BY DEF InterruptId
<1>4. Scheduled(d)
  BY <1>1, <1>2, <1>3, StillScheduled, VideoType
<1>5. \A g \in Handlers : TimeOf(d, g) = TimeOf(c, g)
  BY <1>2, <1>3, FreshIsChosen
<1> QED BY <1>1, <1>2, <1>3, <1>4, <1>5

(* The handler of the video entry, and the start of a machine. *)
LEMMA VideoStarted ==
  ASSUME VideoFits, NEW c \in SchedulerState, NEW d, d = StartVideo(c)
  PROVE  /\ Scheduled(d) /\ Fresh(d)
         /\ \A g \in Handlers \ {Video} : TimeOf(d, g) = TimeOf(c, g) /\ d.bUsed[g] = c.bUsed[g]
<1>1. VideoPeriod \in Int /\ "CPU" \in CycleType /\ Video \in Handlers
  BY SpecAssumption DEF CycleType
<1>2. d = CycInt_AddRelativeInterrupt(c, VideoPeriod, "CPU", Video)
  BY DEF StartVideo
<1>3. /\ Fresh(d) /\ d.bUsed[Video]
      /\ d.Cycles[Video] = INT_CONVERT_TO_INTERNAL(VideoPeriod, "CPU")
      /\ \A g \in InterruptId \ {Video} : d.bUsed[g] = c.bUsed[g] /\ d.Cycles[g] = TimeOf(c, g)
  BY <1>1, <1>2, AddRelativeEffect
<1>4. Scheduled(d)
  BY <1>3, FreshIsChosen DEF Scheduled, VideoFits
<1>5. \A g \in Handlers : g \in InterruptId
  BY DEF InterruptId
<1> QED BY <1>3, <1>4, <1>5, FreshIsChosen

LEMMA VideoHandled ==
  ASSUME VideoFits, NEW c, Scheduled(c), c.PendingInterruptFunction = Video,
         NEW d, d = StartVideo(CycInt_AcknowledgeInterrupt(c))
  PROVE  /\ Scheduled(d)
         /\ \A g \in Timers : TimeOf(d, g) = TimeOf(c, g) /\ d.bUsed[g] = c.bUsed[g]
<1> DEFINE a == CycInt_AcknowledgeInterrupt(c)
<1>1. c \in SchedulerState /\ c.ActiveInterrupt > 0 /\ c.ActiveInterrupt = Video
  BY ScheduledFacts
<1>2. /\ Fresh(a)
      /\ \A g \in InterruptId \ {Video} : a.bUsed[g] = c.bUsed[g]
      /\ \A g \in InterruptId : a.Cycles[g] = TimeOf(c, g)
  BY <1>1, AcknowledgeEffect
<1>3. d = StartVideo(a)
  OBVIOUS
<1> HIDE DEF a
<1>4. a \in SchedulerState
  BY <1>2 DEF Fresh
<1>5. /\ Scheduled(d)
      /\ \A g \in Handlers \ {Video} : TimeOf(d, g) = TimeOf(a, g) /\ d.bUsed[g] = a.bUsed[g]
  BY <1>3, <1>4, VideoStarted
<1>6. \A g \in InterruptId : TimeOf(a, g) = a.Cycles[g]
  BY <1>2, FreshIsChosen
<1> QED BY <1>2, <1>5, <1>6, VideoType, TimersType

LEMMA VideoReset ==
  ASSUME VideoFits, NEW c \in SchedulerState, NEW d, d = StartVideo(CycInt_Reset(c))
  PROVE  Scheduled(d) /\ \A g \in Timers : ~d.bUsed[g]
<1> DEFINE r == CycInt_Reset(c)
<1>1. r \in SchedulerState /\ \A g \in InterruptId : ~r.bUsed[g]
  BY ResetEffect
<1>2. d = StartVideo(r)
  OBVIOUS
<1> HIDE DEF r
<1> QED BY <1>1, <1>2, VideoStarted, VideoType, TimersType

(* An instruction is charged. *)
LEMMA Charged ==
  ASSUME NEW c, Scheduled(c), NEW d, d = M68000_AddCycles(c, InstrCycles)
  PROVE  /\ Scheduled(d)
         /\ d.bUsed = c.bUsed
         /\ \A g \in Handlers : c.bUsed[g] => TimeOf(d, g) = TimeOf(c, g) - Charge
         /\ \A g \in Handlers : ~c.bUsed[g] => TimeOf(d, g) = TimeOf(c, g)
<1>1. InstrCycles \in Nat /\ Charge = INT_CONVERT_TO_INTERNAL(RoundUpTo4(InstrCycles), "CPU")
  BY SpecAssumption DEF Charge
<1>2. Chosen(c) /\ Video \in Candidates(c)
  BY ScheduledFacts DEF Scheduled
<1>3. /\ Chosen(d) /\ d.bUsed = c.bUsed /\ d.Cycles = c.Cycles
      /\ \A g \in InterruptId : c.bUsed[g] => TimeOf(d, g) = TimeOf(c, g) - Charge
      /\ \A g \in InterruptId : ~c.bUsed[g] => TimeOf(d, g) = TimeOf(c, g)
  BY <1>1, <1>2, ChargeEffect
<1> QED BY <1>3 DEF Scheduled, InterruptId

-----------------------------------------------------------------------------
(* The machine: scheduler, timers and PendingCyclesOver. *)

Machine ==
  [cyc : SchedulerState, tmr : [Timers -> TimerRegisters], PendingCyclesOver : Nat]

Works(s) == s \in Machine /\ Scheduled(s.cyc)

Used(s, h) == CycInt_InterruptActive(s.cyc, h)
Time(s, h) == TimeOf(s.cyc, h)

(* The step from s to t does not concern timer h. *)
Same(s, t, h) == t.tmr[h] = s.tmr[h] /\ Used(t, h) = Used(s, h) /\ Time(t, h) = Time(s, h)

LEMMA WorksFacts ==
  ASSUME NEW s, Works(s)
  PROVE  /\ s.cyc \in SchedulerState /\ s.tmr \in [Timers -> TimerRegisters]
         /\ s.PendingCyclesOver \in Nat
         /\ \A h \in Timers : /\ s.tmr[h] \in TimerRegisters
                              /\ s.tmr[h].ctrl \in 0 .. 15
                              /\ s.tmr[h].data \in Counts
                              /\ s.tmr[h].MainCounter \in Counts
                              /\ s.tmr[h].CanResume \in BOOLEAN
                              /\ Used(s, h) \in BOOLEAN
                              /\ Time(s, h) \in Int
<1>1. /\ s.cyc \in SchedulerState /\ s.tmr \in [Timers -> TimerRegisters]
      /\ s.PendingCyclesOver \in Nat /\ Scheduled(s.cyc)
  BY DEF Works, Machine
<1>2. ASSUME NEW h \in Timers
      PROVE  /\ s.tmr[h] \in TimerRegisters
             /\ Used(s, h) \in BOOLEAN
             /\ Time(s, h) \in Int
  <2>1. h \in InterruptId
    BY TimersType
  <2>2. Used(s, h) \in BOOLEAN
    BY <1>1, <2>1 DEF Used, CycInt_InterruptActive, SchedulerState
  <2>3. Time(s, h) \in Int
    BY <1>1, <2>1, ScheduledFacts DEF Time
  <2> QED BY <1>1, <2>2, <2>3
<1> QED BY <1>1, <1>2 DEF TimerRegisters

(* The scheduler is replaced. *)
LEMMA NewScheduler ==
  ASSUME NEW s, Works(s), NEW c, Scheduled(c), NEW t, t = [s EXCEPT !.cyc = c]
  PROVE  Works(t) /\ t.cyc = c /\ t.tmr = s.tmr
<1>1. c \in SchedulerState
  BY ScheduledFacts
<1> QED BY <1>1 DEF Works, Machine

LEMMA CorrectedType ==
  ASSUME NEW over \in Nat, NEW period \in Nat \ {0}
  PROVE  /\ CorrectedOver(over, period) \in 0 .. period
         /\ (over - CorrectedOver(over, period)) % period = 0
<1>1. CASE over > period
  <2> DEFINE k == over \div period
  <2> DEFINE r == over % period
  <2>1. k \in Nat /\ r \in 0 .. period - 1 /\ over - r = period * k
    OBVIOUS
  <2>2. (over - r) % period = 0
    <3>1. \A a \in Nat \ {0}, b \in Nat : (a * b) % a = 0
      OBVIOUS
    <3> HIDE DEF k, r
    <3> QED BY <2>1, <3>1
  <2> QED BY <1>1, <2>1, <2>2 DEF CorrectedOver
<1>2. CASE ~(over > period)
  BY <1>2 DEF CorrectedOver
<1> QED BY <1>1, <1>2

(* MFP_StartTimer.  A timer that runs by itself either resumes its time or *)
(* gets that of a period, with the offset of the write access or less the  *)
(* delay of its handler.                                                   *)
Restarted(s, t, h, value, first, o) ==
  LET ctrl == s.tmr[h].ctrl
      period == Period(value, ctrl)
      resumes == Prescaler(ctrl) = 0 \/ (s.tmr[h].CanResume /\ first)
      offset == IF first THEN o ELSE -CorrectedOver(s.PendingCyclesOver, period)
  IN  /\ t.tmr[h].ctrl = ctrl /\ t.tmr[h].data = s.tmr[h].data
      /\ Used(t, h) = (Prescaler(ctrl) # 0)
      /\ resumes => t.tmr[h] = s.tmr[h] /\ Time(t, h) = Time(s, h)
      /\ ~resumes => t.tmr[h].CanResume /\ Time(t, h) = period + offset

LEMMA StartEffect ==
  ASSUME NEW s, Works(s), NEW h \in Timers, NEW value \in Counts, NEW first \in BOOLEAN,
         NEW o \in Int,
         NEW t, t = MFP_StartTimer(s, h, value, first, o)
  PROVE  /\ Works(t)
         /\ \A g \in Timers \ {h} : Same(s, t, g)
         /\ Restarted(s, t, h, value, first, o)
<1> DEFINE ctrl == s.tmr[h].ctrl
<1> DEFINE cycles == MFP_REG_TO_CYCLES(Ticks(value), ctrl)
<1> DEFINE removed == CycInt_RemovePendingInterrupt(s.cyc, h)
<1> DEFINE resumed == CycInt_ResumeStoppedInterrupt(removed, h)
<1> DEFINE period == Period(value, ctrl)
<1> DEFINE over == IF first THEN s.PendingCyclesOver
                   ELSE CorrectedOver(s.PendingCyclesOver, period)
<1> DEFINE offset == IF first THEN o ELSE -over
<1> DEFINE added == CycInt_AddRelativeInterruptWithOffset(removed, cycles, "MFP", h, offset)
<1>0. /\ s.PendingCyclesOver \in Nat /\ ctrl \in 0 .. 15 /\ s.tmr[h].CanResume \in BOOLEAN
      /\ h \in Handlers /\ Scheduled(s.cyc) /\ \A g \in Timers : g \in Handlers
      /\ s \in Machine
  BY WorksFacts, TimersType DEF Works
<1>1. /\ cycles \in Nat /\ (cycles = 0) = (Prescaler(ctrl) = 0)
      /\ period = INT_CONVERT_TO_INTERNAL(cycles, "MFP")
      /\ period \in Nat /\ (cycles # 0 => period \in Nat \ {0})
  BY <1>0, PeriodFacts
<1>2. t = IF cycles = 0 THEN [s EXCEPT !.cyc = removed]
          ELSE IF s.tmr[h].CanResume /\ first THEN [s EXCEPT !.cyc = resumed]
          ELSE [s EXCEPT !.PendingCyclesOver = over,
                         !.tmr[h].CanResume = TRUE,
                         !.cyc = added]
  BY <1>1 DEF MFP_StartTimer, Ticks
<1>3. /\ Scheduled(removed) /\ Fresh(removed) /\ ~removed.bUsed[h]
      /\ \A g \in Handlers : TimeOf(removed, g) = TimeOf(s.cyc, g)
      /\ \A g \in Handlers \ {h} : removed.bUsed[g] = s.cyc.bUsed[g]
  BY <1>0, Removed
<1> HIDE DEF removed, cycles
<1>4. /\ Scheduled(resumed) /\ resumed.bUsed[h]
      /\ \A g \in Handlers : TimeOf(resumed, g) = TimeOf(removed, g)
      /\ \A g \in Handlers \ {h} : resumed.bUsed[g] = removed.bUsed[g]
  BY <1>3, Resumed
<1>5. cycles # 0 => over \in Nat /\ offset \in Int
  BY <1>0, <1>1, CorrectedType
<1> HIDE DEF over, offset
<1>6. ASSUME cycles # 0
      PROVE  /\ Scheduled(added) /\ added.bUsed[h]
             /\ TimeOf(added, h) = period + offset
             /\ \A g \in Handlers \ {h} :
                  TimeOf(added, g) = TimeOf(removed, g) /\ added.bUsed[g] = removed.bUsed[g]
  <2>1. offset \in Int
    BY <1>5, <1>6
  <2> DEFINE m == INT_CONVERT_TO_INTERNAL(cycles, "MFP") + offset
  <2>2. m = period + offset
    BY <1>1
  <2>3. /\ m = INT_CONVERT_TO_INTERNAL(cycles, "MFP") + offset
        /\ added = CycInt_AddRelativeInterruptWithOffset(removed, cycles, "MFP", h, offset)
    OBVIOUS
  <2> HIDE DEF m, added
  <2>4. /\ Scheduled(added) /\ added.bUsed[h]
        /\ TimeOf(added, h) = m
        /\ \A g \in Handlers \ {h} :
             TimeOf(added, g) = TimeOf(removed, g) /\ added.bUsed[g] = removed.bUsed[g]
    <3>1. cycles \in Nat /\ offset \in Int /\ Scheduled(removed) /\ h \in Timers
      BY <1>1, <1>3, <2>1
    <3> QED BY ONLY <3>1, <2>3, Added
  <2> QED BY <2>2, <2>4
<1> HIDE DEF resumed, added, period
<1>7. CASE cycles = 0
  <2>1. t = [s EXCEPT !.cyc = removed]
    BY <1>2, <1>7
  <2>2. Works(t) /\ t.cyc = removed /\ t.tmr = s.tmr
    BY <1>3, <2>1, NewScheduler
  <2>3. \A g \in Timers \ {h} : Same(s, t, g)
    BY <1>0, <1>3, <2>2 DEF Same, Used, Time, CycInt_InterruptActive
  <2>4. Used(t, h) = FALSE /\ Time(t, h) = Time(s, h)
    BY <1>0, <1>3, <2>2 DEF Used, Time, CycInt_InterruptActive, Scheduled, Chosen, SchedulerState,
                            InterruptId
  <2> QED BY <1>1, <1>7, <2>2, <2>3, <2>4 DEF Restarted
<1>8. CASE cycles # 0 /\ s.tmr[h].CanResume /\ first
  <2>1. t = [s EXCEPT !.cyc = resumed]
    BY <1>2, <1>8
  <2>2. Works(t) /\ t.cyc = resumed /\ t.tmr = s.tmr
    BY <1>4, <2>1, NewScheduler
  <2>3. \A g \in Timers \ {h} : Same(s, t, g)
    BY <1>0, <1>3, <1>4, <2>2 DEF Same, Used, Time, CycInt_InterruptActive
  <2>4. Used(t, h) /\ Time(t, h) = Time(s, h)
    BY <1>0, <1>3, <1>4, <2>2 DEF Used, Time, CycInt_InterruptActive
  <2>5. Used(t, h) = TRUE
    BY <2>4, <1>4, <2>2 DEF Used, CycInt_InterruptActive
  <2> QED BY <1>1, <1>8, <2>2, <2>3, <2>4, <2>5 DEF Restarted
<1>9. CASE cycles # 0 /\ ~(s.tmr[h].CanResume /\ first)
  <2> DEFINE r == [s.tmr[h] EXCEPT !.CanResume = TRUE]
  <2> DEFINE f == [s.tmr EXCEPT ![h] = r]
  <2>1. t = [s EXCEPT !.PendingCyclesOver = over, !.tmr = f, !.cyc = added]
    BY <1>2, <1>9, <1>0 DEF Machine
  <2>2. r \in TimerRegisters /\ r.CanResume /\ r.ctrl = ctrl /\ r.data = s.tmr[h].data
    BY WorksFacts DEF TimerRegisters
  <2> HIDE DEF r
  <2>3. f \in [Timers -> TimerRegisters] /\ f[h] = r /\ \A g \in Timers \ {h} : f[g] = s.tmr[g]
    BY <2>2, WorksFacts
  <2> HIDE DEF f
  <2>4. added \in SchedulerState /\ Scheduled(added) /\ over \in Nat
    BY <1>5, <1>6, <1>9, ScheduledFacts
  <2>5. Works(t) /\ t.cyc = added /\ t.tmr = f
    BY <1>0, <2>1, <2>3, <2>4 DEF Works, Machine
  <2>6. \A g \in Timers \ {h} : Same(s, t, g)
    BY <1>0, <1>3, <1>6, <1>9, <2>3, <2>5 DEF Same, Used, Time, CycInt_InterruptActive
  <2>7. Used(t, h) = TRUE /\ Time(t, h) = period + offset
    BY <1>0, <1>6, <1>9, <2>5 DEF Used, Time, CycInt_InterruptActive
  <2>8. offset = IF first THEN o ELSE -CorrectedOver(s.PendingCyclesOver, period)
    BY DEF offset, over
  <2>9. t.tmr[h] = r /\ t.tmr[h].CanResume
    BY <2>2, <2>3, <2>5
  <2> QED BY <1>1, <1>9, <2>2, <2>5, <2>6, <2>7, <2>8, <2>9 DEF period, Restarted
<1> QED BY <1>7, <1>8, <1>9

(* A counter that is read is one of a data register, and there is one. *)
LEMMA ReadTimerType ==
  ASSUME NEW s, Works(s), NEW h \in Timers, NEW stopping \in BOOLEAN
  PROVE  MFP_ReadTimer(s, h, stopping) \subseteq Counts /\ MFP_ReadTimer(s, h, stopping) # {}
<1> DEFINE ctrl == s.tmr[h].ctrl
<1> DEFINE passed == CycInt_FindCyclesPassed(s.cyc, h, "MFP")
<1>1. FullCount \in Nat \ {0, 1} /\ 0 \in Counts
  BY TimersAssumption DEF Counts
<1>2. s.tmr[h].MainCounter \in Counts /\ ctrl \in 0 .. 15
  BY WorksFacts
<1>3. passed \in Int
  <2>1. h \in InterruptId /\ s.cyc \in SchedulerState
    BY TimersType, WorksFacts
  <2>2. CyclesLeft(s.cyc, h) \in Int
    BY <2>1 DEF CyclesLeft, Elapsed, SchedulerState
  <2> QED BY <2>2, FromInternal DEF CycInt_FindCyclesPassed
<1> DEFINE c == MFP_CYCLE_TO_REG(passed, ctrl)
<1>4. Prescaler(ctrl) # 0 => c % FullCount \in Counts
  <2>1. SUFFICES ASSUME Prescaler(ctrl) # 0 PROVE c % FullCount \in Counts
    OBVIOUS
  <2> HIDE DEF passed, ctrl
  <2>2. c \in Int
    BY <1>2, <1>3, <2>1, CounterRoundsUp
  <2> HIDE DEF c
  <2> QED BY <1>1, <2>2 DEF Counts
<1>5. MFP_ReadTimer(s, h, stopping) \in
        {{0}, {s.tmr[h].MainCounter}, Counts} \cup
        (IF Prescaler(ctrl) # 0 THEN {{c % FullCount}} ELSE {})
  BY DEF MFP_ReadTimer
<1> HIDE DEF c
<1> QED BY <1>1, <1>2, <1>4, <1>5

-----------------------------------------------------------------------------
(* Register accesses: what one does to its timer. *)

(* Timer h gets registers r. *)
SetTimer(s, h, r) == [s EXCEPT !.tmr = [s.tmr EXCEPT ![h] = r]]

LEMMA OneTimer ==
  ASSUME NEW s, Works(s), NEW h \in Timers, NEW r \in TimerRegisters, NEW t, t = SetTimer(s, h, r)
  PROVE  /\ Works(t) /\ t.cyc = s.cyc /\ t.tmr[h] = r
         /\ Used(t, h) = Used(s, h) /\ Time(t, h) = Time(s, h)
         /\ \A g \in Timers \ {h} : Same(s, t, g)
<1> DEFINE f == [s.tmr EXCEPT ![h] = r]
<1>1. f \in [Timers -> TimerRegisters] /\ f[h] = r /\ \A g \in Timers \ {h} : f[g] = s.tmr[g]
  BY WorksFacts
<1>2. t = [s EXCEPT !.tmr = f]
  BY DEF SetTimer
<1> HIDE DEF f
<1>3. Works(t) /\ t.cyc = s.cyc /\ t.tmr = f
  BY <1>1, <1>2 DEF Works, Machine
<1> QED BY <1>1, <1>3 DEF Same, Used, Time

(* A control write that changes the value stops the timer or starts it. *)
Controlled(s, t, h, new, o) ==
  /\ t.tmr[h].ctrl = new /\ t.tmr[h].data = s.tmr[h].data
  /\ Used(t, h) = (Prescaler(new) # 0)
  /\ Prescaler(new) = 0 \/ s.tmr[h].CanResume =>
       t.tmr[h].CanResume = s.tmr[h].CanResume /\ Time(t, h) = Time(s, h)
  /\ Prescaler(new) # 0 /\ ~s.tmr[h].CanResume =>
       Time(t, h) = Period(s.tmr[h].MainCounter, new) + o

LEMMA CtrlEffect ==
  ASSUME NEW s, Works(s), NEW h \in Timers, NEW new \in 0 .. 15, NEW o \in Int,
         NEW t, t = TimerCtrl_Write(s, h, new, o)
  PROVE  /\ Works(t)
         /\ \A g \in Timers \ {h} : Same(s, t, g)
         /\ IF s.tmr[h].ctrl = new THEN t = s ELSE Controlled(s, t, h, new, o)
<1>1. CASE s.tmr[h].ctrl = new
  <2>1. t = s
    BY <1>1 DEF TimerCtrl_Write
  <2> QED BY <1>1, <2>1 DEF Same
<1>2. CASE s.tmr[h].ctrl # new
  <2> DEFINE r == s.tmr[h]
  <2> DEFINE stopping == new = 0 /\ (h \in TimersAB => r.ctrl \in 1 .. 7)
  <2> DEFINE counter == IF stopping THEN CHOOSE c \in MFP_ReadTimer(s, h, TRUE) : TRUE
                        ELSE r.MainCounter
  <2> DEFINE q == [r EXCEPT !.ctrl = new, !.MainCounter = counter]
  <2> DEFINE u == SetTimer(s, h, q)
  <2> DEFINE w == [s EXCEPT !.tmr[h].ctrl = new, !.tmr[h].MainCounter = counter]
  <2>1. t = MFP_StartTimer(u, h, counter, TRUE, o)
    <3>1. t = MFP_StartTimer(w, h, counter, TRUE, o)
      BY <1>2 DEF TimerCtrl_Write
    <3> HIDE DEF counter
    <3>2. u = w
      BY WorksFacts DEF Works, Machine, SetTimer, TimerRegisters
    <3> QED BY <3>1, <3>2
  <2>2. counter \in Counts
    BY ReadTimerType, WorksFacts
  <2>3. Prescaler(new) # 0 => counter = r.MainCounter
    BY DEF Prescaler
  <2> HIDE DEF counter
  <2>4. /\ q \in TimerRegisters /\ q.ctrl = new /\ q.data = r.data /\ q.CanResume = r.CanResume
        /\ r.CanResume \in BOOLEAN
    BY <2>2, WorksFacts DEF TimerRegisters
  <2> HIDE DEF q
  <2>5. /\ Works(u) /\ u.tmr[h] = q
        /\ Used(u, h) = Used(s, h) /\ Time(u, h) = Time(s, h)
        /\ \A g \in Timers \ {h} : Same(s, u, g)
    BY <2>4, OneTimer
  <2> HIDE DEF u
  <2>6. /\ Works(t)
        /\ \A g \in Timers \ {h} : Same(u, t, g)
        /\ t.tmr[h].ctrl = q.ctrl /\ t.tmr[h].data = q.data
        /\ Used(t, h) = (Prescaler(new) # 0)
        /\ Prescaler(new) = 0 \/ q.CanResume => t.tmr[h] = q /\ Time(t, h) = Time(u, h)
        /\ Prescaler(new) # 0 /\ ~q.CanResume => Time(t, h) = Period(counter, new) + o
    <3>1. TRUE \in BOOLEAN
      OBVIOUS
    <3>2. /\ Works(t)
          /\ \A g \in Timers \ {h} : Same(u, t, g)
          /\ Restarted(u, t, h, counter, TRUE, o)
      BY <2>1, <2>2, <2>5, <3>1, StartEffect
    <3> QED BY <2>4, <2>5, <3>2 DEF Restarted
  <2>7. t.tmr[h].ctrl = new /\ t.tmr[h].data = r.data
    BY <2>4, <2>6
  <2>8. \A g \in Timers \ {h} : Same(s, t, g)
    BY <2>5, <2>6 DEF Same
  <2> QED BY <1>2, <2>3, <2>4, <2>5, <2>6, <2>7, <2>8 DEF Controlled
<1> QED BY <1>1, <1>2

(* A write to a data register. *)
LEMMA DataEffect ==
  ASSUME NEW s, Works(s), NEW h \in Timers, NEW value \in Counts,
         NEW t, t = MFP_TimerData_WriteByte(s, h, value)
  PROVE  /\ Works(t)
         /\ \A g \in Timers \ {h} : Same(s, t, g)
         /\ Used(t, h) = Used(s, h) /\ Time(t, h) = Time(s, h)
         /\ t.tmr[h].ctrl = s.tmr[h].ctrl
         /\ t.tmr[h].CanResume => s.tmr[h].CanResume
         /\ s.tmr[h].ctrl = 0 =>
              ~t.tmr[h].CanResume /\ t.tmr[h].MainCounter = t.tmr[h].data
<1> DEFINE q == [s.tmr[h] EXCEPT !.data = value, !.MainCounter = value, !.CanResume = FALSE]
<1> DEFINE r == [s.tmr[h] EXCEPT !.data = value]
<1>1. /\ q \in TimerRegisters /\ q.ctrl = s.tmr[h].ctrl /\ ~q.CanResume
      /\ q.MainCounter = q.data
      /\ r \in TimerRegisters /\ r.ctrl = s.tmr[h].ctrl /\ r.CanResume = s.tmr[h].CanResume
  BY WorksFacts DEF TimerRegisters
<1>2. t = IF s.tmr[h].ctrl = 0 THEN SetTimer(s, h, q) ELSE SetTimer(s, h, r)
  BY WorksFacts DEF MFP_TimerData_WriteByte, Works, Machine, TimerRegisters, SetTimer
<1> HIDE DEF q, r
<1>3. CASE s.tmr[h].ctrl = 0
  BY <1>1, <1>2, <1>3, OneTimer
<1>4. CASE s.tmr[h].ctrl # 0
  BY <1>1, <1>2, <1>4, OneTimer
<1> QED BY <1>3, <1>4

(* A read may change the counter.  It changes that of no timer that is     *)
(* stopped and out of the scheduler.                                       *)
LEMMA ReadEffect ==
  ASSUME NEW s, Works(s), NEW h \in Timers, NEW t \in MFP_TimerData_ReadByte(s, h)
  PROVE  /\ Works(t)
         /\ \A g \in Timers \ {h} : Same(s, t, g)
         /\ Used(t, h) = Used(s, h) /\ Time(t, h) = Time(s, h)
         /\ t.tmr[h].ctrl = s.tmr[h].ctrl
         /\ t.tmr[h].CanResume = s.tmr[h].CanResume
         /\ t.tmr[h].data = s.tmr[h].data
         /\ s.tmr[h].ctrl = 0 /\ ~Used(s, h) => t.tmr[h].MainCounter = s.tmr[h].MainCounter
<1> DEFINE counters == IF s.tmr[h].ctrl = EventCount THEN {1} ELSE MFP_ReadTimer(s, h, FALSE)
<1>1. counters \subseteq Counts
  <2>1. 1 \in Counts
    BY TimersAssumption DEF Counts
  <2> QED BY <2>1, ReadTimerType
<1>2. s.tmr[h].ctrl = 0 /\ ~Used(s, h) => counters = {s.tmr[h].MainCounter}
  BY DEF MFP_ReadTimer, IsComputed, Used, EventCount
<1>3. t = s \/ \E c \in counters : t = [s EXCEPT !.tmr[h].MainCounter = c]
  BY DEF MFP_TimerData_ReadByte
<1> HIDE DEF counters
<1>4. CASE t = s
  BY <1>4 DEF Same
<1>5. ASSUME NEW c \in counters, t = [s EXCEPT !.tmr[h].MainCounter = c]
      PROVE  /\ Works(t)
             /\ \A g \in Timers \ {h} : Same(s, t, g)
             /\ Used(t, h) = Used(s, h) /\ Time(t, h) = Time(s, h)
             /\ t.tmr[h].ctrl = s.tmr[h].ctrl
             /\ t.tmr[h].CanResume = s.tmr[h].CanResume
             /\ t.tmr[h].data = s.tmr[h].data
             /\ t.tmr[h].MainCounter = c
  <2> DEFINE q == [s.tmr[h] EXCEPT !.MainCounter = c]
  <2>1. /\ q \in TimerRegisters /\ q.ctrl = s.tmr[h].ctrl /\ q.MainCounter = c
        /\ q.CanResume = s.tmr[h].CanResume /\ q.data = s.tmr[h].data
    BY <1>1, WorksFacts DEF TimerRegisters
  <2>2. t = SetTimer(s, h, q)
    BY <1>5, WorksFacts DEF Works, Machine, SetTimer
  <2> HIDE DEF q
  <2> QED BY <2>1, <2>2, OneTimer
<1> QED BY <1>2, <1>3, <1>4, <1>5

-----------------------------------------------------------------------------
(* What is invariant of one timer.  It runs by itself iff it has an entry; *)
(* an entry in use, or that may be resumed, has at most a period left; and *)
(* one whose data register was written while it was off counts from there. *)

Armed(s, h) == (Prescaler(s.tmr[h].ctrl) # 0) = Used(s, h)

Bounded(x) == \E c \in 1 .. 7 : x <= Period(0, c)

Resumable(s, h) == Used(s, h) \/ s.tmr[h].CanResume => Bounded(Time(s, h))

Loaded(s, h) ==
  s.tmr[h].ctrl = 0 /\ ~s.tmr[h].CanResume /\ s.tmr[h].MainCounter = s.tmr[h].data

(* What an access keeps of that, before its instruction is charged: the    *)
(* time of the entry may then still exceed the period by the charge.       *)
AccessOK(s, t, h) ==
  /\ Armed(s, h) => Armed(t, h)
  /\ Resumable(s, h) => IF Used(t, h) THEN Bounded(Time(t, h) - Charge) ELSE Resumable(t, h)
  /\ Armed(s, h) /\ Loaded(s, h) =>
       IF t.tmr[h].ctrl = 0 THEN Loaded(t, h)
       ELSE Prescaler(t.tmr[h].ctrl) # 0 =>
              Time(t, h) \in Period(s.tmr[h].data, t.tmr[h].ctrl)
                               .. Period(s.tmr[h].data, t.tmr[h].ctrl) + Charge

LEMMA ChargeNat == Charge \in Nat /\ \A o \in WriteOffsets : Offset(o) \in 0 .. Charge
<1>1. InstrCycles \in Nat /\ WriteOffsets \subseteq 0 .. InstrCycles
  BY SpecAssumption
<1>2. INT_CPU_TO_INTERNAL \in Nat
  BY FactorAssumption
<1>3. Charge = InstrCycles * INT_CPU_TO_INTERNAL
  BY DEF Charge, INT_CONVERT_TO_INTERNAL
<1>4. Charge \in Nat
  BY <1>1, <1>2, <1>3
<1>5. ASSUME NEW o \in WriteOffsets PROVE Offset(o) \in 0 .. Charge
  <2>1. o \in Nat /\ o <= InstrCycles
    BY <1>1
  <2>2. Offset(o) = o * INT_CPU_TO_INTERNAL
    BY DEF Offset, INT_CONVERT_TO_INTERNAL
  <2>3. o * INT_CPU_TO_INTERNAL <= InstrCycles * INT_CPU_TO_INTERNAL
    BY <1>1, <1>2, <2>1, MonotoneProduct
  <2>4. o * INT_CPU_TO_INTERNAL \in Nat
    BY <1>2, <2>1
  <2> HIDE DEF Charge
  <2> QED BY <1>3, <1>4, <2>2, <2>3, <2>4
<1> QED BY <1>4, <1>5

LEMMA BoundedLess ==
  ASSUME NEW x \in Int, NEW y \in Int, y <= x, Bounded(x)
  PROVE  Bounded(y)
<1>1. PICK c \in 1 .. 7 : x <= Period(0, c)
  BY DEF Bounded
<1>2. Period(0, c) \in Nat
  <2>1. 0 \in Counts /\ c \in 0 .. 15
    BY TimersAssumption DEF Counts
  <2> QED BY <2>1, PeriodFacts
<1>3. y <= Period(0, c)
  BY <1>1, <1>2
<1> QED BY <1>3 DEF Bounded

(* An access to another timer, and before or after one to another timer. *)
LEMMA SameIsOK ==
  ASSUME NEW s, Works(s), NEW t, NEW h \in Timers, Same(s, t, h)
  PROVE  AccessOK(s, t, h)
<1>1. Time(s, h) \in Int /\ Charge \in Nat
  BY WorksFacts, ChargeNat
<1>2. Resumable(s, h) /\ Used(s, h) => Bounded(Time(s, h) - Charge)
  <2>1. Time(s, h) - Charge \in Int /\ Time(s, h) - Charge <= Time(s, h)
    BY <1>1
  <2> QED BY <1>1, <2>1, BoundedLess DEF Resumable
<1>3. /\ Armed(t, h) <=> Armed(s, h)
      /\ Resumable(t, h) <=> Resumable(s, h)
      /\ Loaded(t, h) <=> Loaded(s, h)
  BY DEF Same, Armed, Resumable, Loaded
<1>4. Loaded(s, h) => s.tmr[h].ctrl = 0
  BY DEF Loaded
<1> QED BY <1>2, <1>3, <1>4 DEF AccessOK, Same

LEMMA OKThenSame ==
  ASSUME NEW s, NEW t, NEW u, NEW h \in Timers, AccessOK(s, t, h), Same(t, u, h)
  PROVE  AccessOK(s, u, h)
BY Zenon DEF AccessOK, Same, Armed, Resumable, Loaded

LEMMA SameThenOK ==
  ASSUME NEW s, NEW t, NEW u, NEW h \in Timers, Same(s, t, h), AccessOK(t, u, h)
  PROVE  AccessOK(s, u, h)
BY Zenon DEF AccessOK, Same, Armed, Resumable, Loaded

HasCtrl(t, h, new) == t.tmr[h].ctrl = new

LEMMA CtrlAccess ==
  ASSUME NEW s, Works(s), NEW h \in Timers, NEW new \in 0 .. 15, NEW o \in 0 .. Charge,
         NEW t, t = TimerCtrl_Write(s, h, new, o)
  PROVE  /\ Works(t)
         /\ \A g \in Timers \ {h} : Same(s, t, g)
         /\ HasCtrl(t, h, new)
         /\ AccessOK(s, t, h)
<1>0. o \in Int /\ Charge \in Nat
  BY ChargeNat
<1>1. /\ Works(t)
      /\ \A g \in Timers \ {h} : Same(s, t, g)
      /\ IF s.tmr[h].ctrl = new THEN t = s ELSE Controlled(s, t, h, new, o)
  BY <1>0, CtrlEffect
<1>2. CASE s.tmr[h].ctrl = new
  <2>1. Same(s, t, h)
    BY <1>1, <1>2 DEF Same
  <2> QED BY <1>1, <1>2, <2>1, SameIsOK DEF HasCtrl
<1>3. CASE s.tmr[h].ctrl # new
  <2>0. /\ t.tmr[h].ctrl = new /\ t.tmr[h].data = s.tmr[h].data
        /\ Used(t, h) = (Prescaler(new) # 0)
        /\ Prescaler(new) = 0 \/ s.tmr[h].CanResume =>
             t.tmr[h].CanResume = s.tmr[h].CanResume /\ Time(t, h) = Time(s, h)
        /\ Prescaler(new) # 0 /\ ~s.tmr[h].CanResume =>
             Time(t, h) = Period(s.tmr[h].MainCounter, new) + o
    BY <1>1, <1>3 DEF Controlled
  <2>1. /\ s.tmr[h].MainCounter \in Counts /\ Time(s, h) \in Int
        /\ s.tmr[h].data \in Counts
    BY WorksFacts
  <2>2. /\ Period(s.tmr[h].MainCounter, new) \in Nat
        /\ Prescaler(new) # 0 => Bounded(Period(s.tmr[h].MainCounter, new))
    BY <2>1, PeriodFacts DEF Bounded
  <2> DEFINE p == Period(s.tmr[h].MainCounter, new)
  <2>3. Armed(t, h)
    BY <2>0 DEF Armed
  <2>4. ASSUME Resumable(s, h)
        PROVE  IF Used(t, h) THEN Bounded(Time(t, h) - Charge) ELSE Resumable(t, h)
    <3>1. CASE Prescaler(new) = 0
      BY <2>0, <2>4, <3>1 DEF Resumable
    <3>2. CASE Prescaler(new) # 0 /\ s.tmr[h].CanResume
      <4>1. Bounded(Time(s, h)) /\ Time(t, h) = Time(s, h) /\ Used(t, h)
        BY <2>0, <2>4, <3>2 DEF Resumable
      <4>2. Time(s, h) - Charge \in Int /\ Time(s, h) - Charge <= Time(s, h)
        BY <1>0, <2>1
      <4> QED BY <2>1, <4>1, <4>2, BoundedLess
    <3>3. CASE Prescaler(new) # 0 /\ ~s.tmr[h].CanResume
      <4>1. Bounded(p) /\ Time(t, h) = p + o /\ Used(t, h) /\ p \in Nat
        BY <2>0, <2>2, <3>3
      <4> HIDE DEF p
      <4> DEFINE x == Time(t, h) - Charge
      <4>2. x \in Int /\ x <= p
        BY <1>0, <4>1
      <4> HIDE DEF x
      <4>3. Bounded(x)
        BY <4>1, <4>2, BoundedLess
      <4> QED BY <4>1, <4>3 DEF x
    <3> QED BY <3>1, <3>2, <3>3
  <2>5. ASSUME Loaded(s, h)
        PROVE  IF t.tmr[h].ctrl = 0 THEN Loaded(t, h)
               ELSE Prescaler(t.tmr[h].ctrl) # 0 =>
                      Time(t, h) \in Period(s.tmr[h].data, t.tmr[h].ctrl)
                                       .. Period(s.tmr[h].data, t.tmr[h].ctrl) + Charge
    <3>1. s.tmr[h].ctrl = 0 /\ ~s.tmr[h].CanResume /\ s.tmr[h].MainCounter = s.tmr[h].data
      BY <2>5 DEF Loaded
    <3>2. new # 0 /\ t.tmr[h].ctrl = new
      BY <1>3, <2>0, <3>1
    <3>3. Prescaler(new) # 0 => Time(t, h) = p + o
      BY <2>0, <3>1
    <3>4. p = Period(s.tmr[h].data, t.tmr[h].ctrl) /\ p \in Nat
      BY <2>2, <3>1, <3>2
    <3> HIDE DEF p
    <3>5. p + o \in p .. p + Charge
      BY <1>0, <3>4
    <3> QED BY <3>2, <3>3, <3>4, <3>5
  <2> QED BY <1>1, <2>0, <2>3, <2>4, <2>5 DEF AccessOK, HasCtrl
<1> QED BY <1>2, <1>3

LEMMA DataAccess ==
  ASSUME NEW s, Works(s), NEW h \in Timers, NEW value \in Counts,
         NEW t, t = MFP_TimerData_WriteByte(s, h, value)
  PROVE  /\ Works(t)
         /\ \A g \in Timers : t.tmr[g].ctrl = s.tmr[g].ctrl
         /\ \A g \in Timers : AccessOK(s, t, g)
         /\ s.tmr[h].ctrl = 0 => Loaded(t, h)
<1>1. /\ Works(t)
      /\ \A g \in Timers \ {h} : Same(s, t, g)
      /\ Used(t, h) = Used(s, h) /\ Time(t, h) = Time(s, h)
      /\ t.tmr[h].ctrl = s.tmr[h].ctrl
      /\ t.tmr[h].CanResume => s.tmr[h].CanResume
      /\ s.tmr[h].ctrl = 0 => ~t.tmr[h].CanResume /\ t.tmr[h].MainCounter = t.tmr[h].data
  BY DataEffect
<1>2. Time(s, h) \in Int /\ Charge \in Nat
  BY WorksFacts, ChargeNat
<1>3. s.tmr[h].ctrl = 0 => Loaded(t, h)
  BY <1>1 DEF Loaded
<1>4. AccessOK(s, t, h)
  <2>1. Armed(s, h) => Armed(t, h)
    BY <1>1 DEF Armed
  <2>2. Resumable(s, h) => Resumable(t, h)
    BY <1>1 DEF Resumable
  <2>3. Resumable(s, h) /\ Used(s, h) => Bounded(Time(s, h) - Charge)
    <3>1. Time(s, h) - Charge \in Int /\ Time(s, h) - Charge <= Time(s, h)
      BY <1>2
    <3> QED BY <1>2, <3>1, BoundedLess DEF Resumable
  <2>4. Loaded(s, h) => t.tmr[h].ctrl = 0 /\ Loaded(t, h)
    BY <1>1, <1>3 DEF Loaded
  <2> QED BY <1>1, <2>1, <2>2, <2>3, <2>4 DEF AccessOK
<1> QED BY <1>1, <1>3, <1>4, SameIsOK DEF Same

LEMMA ReadAccess ==
  ASSUME NEW s, Works(s), NEW h \in Timers, NEW t \in MFP_TimerData_ReadByte(s, h)
  PROVE  /\ Works(t)
         /\ \A g \in Timers : t.tmr[g].ctrl = s.tmr[g].ctrl
         /\ \A g \in Timers : AccessOK(s, t, g)
<1>1. /\ Works(t)
      /\ \A g \in Timers \ {h} : Same(s, t, g)
      /\ Used(t, h) = Used(s, h) /\ Time(t, h) = Time(s, h)
      /\ t.tmr[h].ctrl = s.tmr[h].ctrl
      /\ t.tmr[h].CanResume = s.tmr[h].CanResume
      /\ t.tmr[h].data = s.tmr[h].data
      /\ s.tmr[h].ctrl = 0 /\ ~Used(s, h) => t.tmr[h].MainCounter = s.tmr[h].MainCounter
  BY ReadEffect
<1>2. Time(s, h) \in Int /\ Charge \in Nat
  BY WorksFacts, ChargeNat
<1>3. AccessOK(s, t, h)
  <2>1. Armed(s, h) => Armed(t, h)
    BY <1>1 DEF Armed
  <2>2. Resumable(s, h) => Resumable(t, h)
    BY <1>1 DEF Resumable
  <2>3. Resumable(s, h) /\ Used(s, h) => Bounded(Time(s, h) - Charge)
    <3>1. Time(s, h) - Charge \in Int /\ Time(s, h) - Charge <= Time(s, h)
      BY <1>2
    <3> QED BY <1>2, <3>1, BoundedLess DEF Resumable
  <2>4. Armed(s, h) /\ Loaded(s, h) => t.tmr[h].ctrl = 0 /\ Loaded(t, h)
    <3>1. Loaded(s, h) => Prescaler(s.tmr[h].ctrl) = 0
      BY DEF Loaded, Prescaler
    <3>2. Armed(s, h) /\ Loaded(s, h) => ~Used(s, h)
      BY <3>1 DEF Armed
    <3> QED BY <1>1, <3>2 DEF Loaded
  <2> QED BY <1>1, <2>1, <2>2, <2>3, <2>4 DEF AccessOK
<1> QED BY <1>1, <1>3, SameIsOK DEF Same, HasCtrl

-----------------------------------------------------------------------------
(* The actions. *)

Base ==
  /\ Works(st)
  /\ raised \subseteq Timers /\ written \subseteq Timers

(* An instruction whose access has led to s is charged. *)
LEMMA ExecuteEffect ==
  ASSUME NEW s, Works(s), Execute(s)
  PROVE  /\ Works(st') /\ raised' = {}
         /\ st'.tmr = s.tmr
         /\ \A h \in Timers : /\ Used(st', h) = Used(s, h)
                              /\ Used(s, h) => Time(st', h) = Time(s, h) - Charge
                              /\ ~Used(s, h) => Time(st', h) = Time(s, h)
<1> DEFINE c == M68000_AddCycles(s.cyc, InstrCycles)
<1>1. Scheduled(s.cyc)
  BY DEF Works
<1>2. /\ Scheduled(c)
      /\ c.bUsed = s.cyc.bUsed
      /\ \A g \in Handlers : s.cyc.bUsed[g] => TimeOf(c, g) = TimeOf(s.cyc, g) - Charge
      /\ \A g \in Handlers : ~s.cyc.bUsed[g] => TimeOf(c, g) = TimeOf(s.cyc, g)
  BY <1>1, Charged
<1>3. st' = [s EXCEPT !.cyc = c] /\ raised' = {}
  BY DEF Execute
<1> HIDE DEF c
<1>4. Works(st') /\ st'.cyc = c /\ st'.tmr = s.tmr
  BY <1>2, <1>3, NewScheduler
<1> QED BY <1>2, <1>3, <1>4, TimersType DEF Used, Time, CycInt_InterruptActive

(* What an instruction of the program makes of a timer. *)
ProgramOK(h) ==
  /\ Armed(st, h) => Armed(st', h)
  /\ Resumable(st, h) => Resumable(st', h)
  /\ Armed(st, h) /\ Loaded(st, h) =>
       IF st'.tmr[h].ctrl = 0 THEN Loaded(st', h)
       ELSE Prescaler(st'.tmr[h].ctrl) # 0 =>
              Time(st', h) \in Period(st.tmr[h].data, st'.tmr[h].ctrl) - Charge
                                 .. Period(st.tmr[h].data, st'.tmr[h].ctrl)

LEMMA ExecuteOK ==
  ASSUME Works(st), NEW s, Works(s), Execute(s), NEW h \in Timers, AccessOK(st, s, h)
  PROVE  ProgramOK(h)
<1>1. /\ st'.tmr = s.tmr /\ Used(st', h) = Used(s, h)
      /\ Used(s, h) => Time(st', h) = Time(s, h) - Charge
      /\ ~Used(s, h) => Time(st', h) = Time(s, h)
  BY ExecuteEffect
<1>2. Time(s, h) \in Int /\ Charge \in Nat /\ s.tmr[h].ctrl \in 0 .. 15
      /\ st.tmr[h].data \in Counts
  BY WorksFacts, ChargeNat
<1>3. Armed(st', h) <=> Armed(s, h)
  BY <1>1 DEF Armed
<1>4. Loaded(st', h) <=> Loaded(s, h)
  BY <1>1 DEF Loaded
<1>5. Resumable(st, h) => Resumable(st', h)
  BY <1>1 DEF AccessOK, Resumable
<1>6. ASSUME Armed(st, h), Loaded(st, h)
      PROVE  IF st'.tmr[h].ctrl = 0 THEN Loaded(st', h)
             ELSE Prescaler(st'.tmr[h].ctrl) # 0 =>
                    Time(st', h) \in Period(st.tmr[h].data, st'.tmr[h].ctrl) - Charge
                                       .. Period(st.tmr[h].data, st'.tmr[h].ctrl)
  <2> DEFINE p == Period(st.tmr[h].data, st'.tmr[h].ctrl)
  <2>1. p \in Nat
    BY <1>1, <1>2, PeriodFacts
  <2>2. IF s.tmr[h].ctrl = 0 THEN Loaded(s, h)
        ELSE Prescaler(s.tmr[h].ctrl) # 0 => Time(s, h) \in p .. p + Charge
    BY <1>1, <1>6 DEF AccessOK
  <2>3. Prescaler(s.tmr[h].ctrl) # 0 => Used(s, h)
    BY <1>6 DEF AccessOK, Armed
  <2> HIDE DEF p
  <2>4. s.tmr[h].ctrl # 0 /\ Prescaler(s.tmr[h].ctrl) # 0 => Time(st', h) \in p - Charge .. p
    BY <1>1, <1>2, <2>1, <2>2, <2>3
  <2> QED BY <1>1, <1>4, <2>2, <2>4 DEF p
<1> QED BY <1>3, <1>5, <1>6 DEF ProgramOK, AccessOK

ProgramStep ==
  \/ OtherInstruction
  \/ \E h \in TimersAB, new \in CtrlAB, o \in WriteOffsets : WriteCtrlAB(h, new, o)
  \/ \E new \in [TimersCD -> CtrlCD], o \in WriteOffsets : WriteCtrlCD(new, o)
  \/ \E h \in Timers, value \in DataValues : WriteData(h, value)
  \/ \E h \in Timers : ReadData(h)

(* Every timer that is written after the step is loaded, or was so before. *)
WrittenOK ==
  /\ written' \subseteq Timers
  /\ \A h \in written' : Loaded(st', h) \/ (h \in written /\ (st.tmr[h].ctrl = 0 => st'.tmr[h].ctrl = 0))

(* A step with access s. *)
LEMMA AccessStep ==
  ASSUME Base, NEW s, Works(s), Execute(s), \A h \in Timers : AccessOK(st, s, h)
  PROVE  /\ Works(st') /\ raised' = {} /\ st'.tmr = s.tmr
         /\ \A h \in Timers : ProgramOK(h)
         /\ \A h \in Timers : Loaded(st', h) <=> Loaded(s, h)
<1>1. Works(st') /\ raised' = {} /\ st'.tmr = s.tmr
  BY ExecuteEffect
<1>2. \A h \in Timers : Loaded(st', h) <=> Loaded(s, h)
  BY <1>1 DEF Loaded
<1>3. \A h \in Timers : ProgramOK(h)
  BY ExecuteOK DEF Base
<1> QED BY <1>1, <1>2, <1>3

LEMMA ProgramEffect ==
  ASSUME Base, ProgramStep
  PROVE  /\ Works(st') /\ raised' = {}
         /\ \A h \in Timers : ProgramOK(h)
         /\ WrittenOK
<1>0. Works(st) /\ written \subseteq Timers
  BY DEF Base
<1>1. CASE OtherInstruction
  <2>1. Execute(st) /\ written' = written
    BY <1>1 DEF OtherInstruction
  <2>2. \A h \in Timers : AccessOK(st, st, h)
    BY <1>0, SameIsOK DEF Same
  <2>3. /\ Works(st') /\ raised' = {} /\ st'.tmr = st.tmr
        /\ \A h \in Timers : ProgramOK(h)
    BY <1>0, <2>1, <2>2, AccessStep
  <2> QED BY <1>0, <2>1, <2>3 DEF WrittenOK
<1>2. ASSUME NEW h \in TimersAB, NEW new \in CtrlAB, NEW o \in WriteOffsets, WriteCtrlAB(h, new, o)
      PROVE  /\ Works(st') /\ raised' = {}
             /\ \A g \in Timers : ProgramOK(g)
             /\ WrittenOK
  <2> DEFINE s == MFP_TimerABCtrl_WriteByte(st, h, new, Offset(o))
  <2>1. Execute(s) /\ written' = written \ Started(s)
    BY <1>2 DEF WriteCtrlAB
  <2>2. s = TimerCtrl_Write(st, h, new, Offset(o))
    BY DEF MFP_TimerABCtrl_WriteByte
  <2>3. h \in Timers /\ new \in 0 .. 15 /\ Offset(o) \in 0 .. Charge
    BY ChargeNat, SpecAssumption DEF Timers
  <2> HIDE DEF s
  <2>4. /\ Works(s) /\ AccessOK(st, s, h)
        /\ \A g \in Timers \ {h} : Same(st, s, g)
    BY <1>0, <2>2, <2>3, CtrlAccess
  <2>5. \A g \in Timers : AccessOK(st, s, g)
    BY <1>0, <2>4, SameIsOK
  <2>6. /\ Works(st') /\ raised' = {} /\ st'.tmr = s.tmr
        /\ \A g \in Timers : ProgramOK(g)
    BY <2>1, <2>4, <2>5, AccessStep
  <2> QED BY <1>0, <2>1, <2>6 DEF WrittenOK, Started
<1>3. ASSUME NEW new \in [TimersCD -> CtrlCD], NEW o \in WriteOffsets, WriteCtrlCD(new, o)
      PROVE  /\ Works(st') /\ raised' = {}
             /\ \A g \in Timers : ProgramOK(g)
             /\ WrittenOK
  <2> DEFINE s == MFP_TimerCDCtrl_WriteByte(st, new, Offset(o))
  <2> DEFINE u == TimerCtrl_Write(st, TimerC, new[TimerC], Offset(o))
  <2>1. Execute(s) /\ written' = written \ Started(s)
    BY <1>3 DEF WriteCtrlCD
  <2> DEFINE c == new[TimerC]
  <2> DEFINE d == new[TimerD]
  <2> DEFINE w == Offset(o)
  <2>2. u = TimerCtrl_Write(st, TimerC, c, w)
    OBVIOUS
  <2>12. s = TimerCtrl_Write(u, TimerD, d, w)
    BY DEF MFP_TimerCDCtrl_WriteByte
  <2>3. TimerC \in Timers /\ TimerD \in Timers
    BY DEF Timers, TimersCD
  <2>4. c \in CtrlCD /\ d \in CtrlCD
    BY DEF TimersCD
  <2>5. c \in 0 .. 15 /\ d \in 0 .. 15
    <3>1. CtrlCD \subseteq 0 .. 7
      BY SpecAssumption
    <3> HIDE DEF c, d
    <3> QED BY <2>4, <3>1
  <2>6. w \in 0 .. Charge
    BY ChargeNat
  <2>7. TimerC = TimerD => c = d
    OBVIOUS
  <2> HIDE DEF s, u, c, d, w
  <2>8. /\ Works(u) /\ AccessOK(st, u, TimerC) /\ HasCtrl(u, TimerC, c)
        /\ \A g \in Timers \ {TimerC} : Same(st, u, g)
    BY ONLY <1>0, <2>2, <2>3, <2>5, <2>6, CtrlAccess
  <2>9. /\ Works(s) /\ AccessOK(u, s, TimerD)
        /\ \A g \in Timers \ {TimerD} : Same(u, s, g)
    BY ONLY <2>12, <2>3, <2>5, <2>6, <2>8, CtrlAccess
  <2>10. ASSUME NEW g \in Timers PROVE AccessOK(st, s, g)
    <3>1. CASE TimerC = TimerD
      <4>1. s = u
        BY <2>12, <2>7, <2>8, <3>1 DEF TimerCtrl_Write, HasCtrl
      <4>2. g = TimerC \/ Same(st, u, g)
        BY <2>8
      <4> QED BY <1>0, <2>8, <4>1, <4>2, SameIsOK
    <3>2. CASE TimerC # TimerD /\ g = TimerC
      BY <2>8, <2>9, <3>2, OKThenSame
    <3>3. CASE TimerC # TimerD /\ g = TimerD
      BY <2>8, <2>9, <3>3, SameThenOK
    <3>4. CASE g # TimerC /\ g # TimerD
      <4>1. AccessOK(st, u, g) /\ Same(u, s, g)
        BY <1>0, <2>8, <2>9, <3>4, SameIsOK
      <4> QED BY <4>1, OKThenSame
    <3> QED BY <3>1, <3>2, <3>3, <3>4
  <2>11. /\ Works(st') /\ raised' = {} /\ st'.tmr = s.tmr
         /\ \A g \in Timers : ProgramOK(g)
    BY <2>1, <2>9, <2>10, AccessStep
  <2> QED BY <1>0, <2>1, <2>11 DEF WrittenOK, Started
<1>4. ASSUME NEW h \in Timers, NEW value \in DataValues, WriteData(h, value)
      PROVE  /\ Works(st') /\ raised' = {}
             /\ \A g \in Timers : ProgramOK(g)
             /\ WrittenOK
  <2> DEFINE s == MFP_TimerData_WriteByte(st, h, value)
  <2>1. Execute(s) /\ written' = IF st.tmr[h].ctrl = 0 THEN written \cup {h} ELSE written
    BY <1>4 DEF WriteData
  <2>2. value \in Counts
    BY SpecAssumption
  <2>3. /\ Works(s)
        /\ \A g \in Timers : s.tmr[g].ctrl = st.tmr[g].ctrl
        /\ \A g \in Timers : AccessOK(st, s, g)
        /\ st.tmr[h].ctrl = 0 => Loaded(s, h)
    BY <1>0, <2>2, DataAccess
  <2> HIDE DEF s
  <2>4. /\ Works(st') /\ raised' = {} /\ st'.tmr = s.tmr
        /\ \A g \in Timers : ProgramOK(g)
        /\ \A g \in Timers : Loaded(st', g) <=> Loaded(s, g)
    BY <2>1, <2>3, AccessStep
  <2> QED BY <1>0, <2>1, <2>3, <2>4 DEF WrittenOK
<1>5. ASSUME NEW h \in Timers, ReadData(h)
      PROVE  /\ Works(st') /\ raised' = {}
             /\ \A g \in Timers : ProgramOK(g)
             /\ WrittenOK
  <2>1. PICK s \in MFP_TimerData_ReadByte(st, h) : Execute(s) /\ written' = written
    BY <1>5 DEF ReadData
  <2>2. /\ Works(s)
        /\ \A g \in Timers : s.tmr[g].ctrl = st.tmr[g].ctrl
        /\ \A g \in Timers : AccessOK(st, s, g)
    BY <1>0, ReadAccess
  <2>3. /\ Works(st') /\ raised' = {} /\ st'.tmr = s.tmr
        /\ \A g \in Timers : ProgramOK(g)
    BY <2>1, <2>2, AccessStep
  <2> QED BY <1>0, <2>1, <2>2, <2>3 DEF WrittenOK
<1> QED BY <1>1, <1>2, <1>3, <1>4, <1>5 DEF ProgramStep

-----------------------------------------------------------------------------
(* The handlers.  That of a timer is called when its entry is due, so the  *)
(* time of the entry is the delay of the call, negated.                    *)

Late(h) == -Time(st, h)

Expired(h) ==
  LET ctrl == st.tmr[h].ctrl
      period == Period(st.tmr[h].data, ctrl)
  IN  /\ st'.tmr[h].ctrl = ctrl /\ st'.tmr[h].data = st.tmr[h].data
      /\ Used(st', h) = (Prescaler(ctrl) # 0)
      /\ Prescaler(ctrl) = 0 => st'.tmr[h] = st.tmr[h] /\ Time(st', h) = Time(st, h)
      /\ Prescaler(ctrl) # 0 => Time(st', h) = period - CorrectedOver(Late(h), period)

LEMMA TimerHandlerEffect ==
  ASSUME Base, NEW h \in Timers, TimerHandler(h)
  PROVE  /\ Works(st') /\ raised' \subseteq Timers /\ written' = written
         /\ Used(st, h) = TRUE /\ Late(h) \in Nat
         /\ \A g \in Timers \ {h} : Same(st, st', g)
         /\ Expired(h)
<1> DEFINE p == st.cyc.PendingInterruptCount
<1> DEFINE c == CycInt_AcknowledgeInterrupt(st.cyc)
<1> DEFINE s == [st EXCEPT !.PendingCyclesOver = -p, !.cyc = c]
<1> DEFINE value == st.tmr[h].data
<1>1. /\ HandlerIsDue(st.cyc) /\ st.cyc.PendingInterruptFunction = h
      /\ st' = MFP_InterruptHandler_Timer(st, h) /\ written' = written
      /\ raised' \subseteq {h}
  BY DEF TimerHandler
<1>2. st' = MFP_StartTimer(s, h, value, FALSE, 0)
  BY <1>1 DEF MFP_InterruptHandler_Timer
<1>3. Works(st) /\ Scheduled(st.cyc) /\ value \in Counts /\ st.tmr[h].ctrl \in 0 .. 15
  BY WorksFacts DEF Base, Works
<1>4. h # Video /\ h \in Handlers /\ \A g \in Timers : g \in Handlers
  BY VideoType, TimersType
<1>5. /\ Scheduled(c) /\ Fresh(c)
      /\ \A g \in Handlers : TimeOf(c, g) = TimeOf(st.cyc, g)
      /\ \A g \in Handlers \ {h} : c.bUsed[g] = st.cyc.bUsed[g]
  BY <1>1, <1>3, <1>4, Acknowledged
<1>6. p \in Int /\ p <= 0 /\ TimeOf(st.cyc, h) = p /\ st.cyc.bUsed[h]
  <2>1. /\ st.cyc \in SchedulerState /\ st.cyc.ActiveInterrupt = h
        /\ TimeOf(st.cyc, h) = p /\ st.cyc.bUsed[h]
    BY <1>1, <1>3, ScheduledFacts
  <2>2. p \in Int
    BY <2>1 DEF SchedulerState
  <2> QED BY <1>1, <2>1, <2>2 DEF HandlerIsDue
<1>7. st \in Machine /\ c \in SchedulerState /\ -p \in Nat
  BY <1>3, <1>5, <1>6 DEF Works, Fresh
<1> HIDE DEF c, p
<1>8. s \in Machine /\ s.cyc = c /\ s.tmr = st.tmr /\ s.PendingCyclesOver = -p
  BY <1>7 DEF Machine
<1> HIDE DEF s, value
<1>9. Works(s)
  BY <1>5, <1>8 DEF Works
<1>10. \A g \in Timers \ {h} : Same(st, s, g)
  BY <1>4, <1>5, <1>8 DEF Same, Used, Time, CycInt_InterruptActive
<1>11. FALSE \in BOOLEAN /\ 0 \in Int
  OBVIOUS
<1>12. /\ Works(st')
       /\ \A g \in Timers \ {h} : Same(s, st', g)
       /\ Restarted(s, st', h, value, FALSE, 0)
  BY <1>2, <1>3, <1>9, <1>11, StartEffect
<1>13. Time(s, h) = p /\ Time(st, h) = p /\ Used(st, h) = TRUE
  <2>1. Time(s, h) = p /\ Time(st, h) = p
    BY <1>4, <1>5, <1>6, <1>8 DEF Time
  <2>2. Used(st, h) \in BOOLEAN
    BY <1>3, WorksFacts
  <2>3. Used(st, h)
    BY <1>6 DEF Used, CycInt_InterruptActive
  <2> QED BY <2>1, <2>2, <2>3
<1>14. \A g \in Timers \ {h} : Same(st, st', g)
  BY <1>10, <1>12 DEF Same
<1>15. Expired(h)
  <2> DEFINE period == Period(value, st.tmr[h].ctrl)
  <2> DEFINE over == CorrectedOver(-p, period)
  <2>1. /\ st'.tmr[h].ctrl = st.tmr[h].ctrl /\ st'.tmr[h].data = st.tmr[h].data
        /\ Used(st', h) = (Prescaler(st.tmr[h].ctrl) # 0)
        /\ Prescaler(st.tmr[h].ctrl) = 0 => st'.tmr[h] = st.tmr[h] /\ Time(st', h) = Time(s, h)
        /\ Prescaler(st.tmr[h].ctrl) # 0 => Time(st', h) = period + (-over)
    BY <1>8, <1>12 DEF Restarted
  <2>2. Late(h) = -p
    BY <1>13 DEF Late
  <2>3. Prescaler(st.tmr[h].ctrl) # 0 => period \in Nat \ {0}
    BY <1>3, PeriodFacts
  <2>4. Prescaler(st.tmr[h].ctrl) # 0 => over \in Int
    BY <1>7, <2>3, CorrectedType
  <2> DEFINE k == Prescaler(st.tmr[h].ctrl)
  <2>5. k # 0 => Time(st', h) = period - over
    <3> HIDE DEF over, period
    <3> QED BY <2>1, <2>3, <2>4
  <2> QED BY <1>13, <2>1, <2>2, <2>5 DEF Expired, value
<1>16. Late(h) \in Nat
  BY <1>7, <1>13 DEF Late
<1> QED BY <1>1, <1>12, <1>13, <1>14, <1>15, <1>16

(* The next expiry of a timer is on the grid of its periods, ahead of now. *)
LEMMA ExpiredOnGrid ==
  ASSUME Base, NEW h \in Timers, Late(h) \in Nat, Expired(h), Prescaler(st.tmr[h].ctrl) # 0,
         NEW period, period = Period(st.tmr[h].data, st.tmr[h].ctrl)
  PROVE  /\ period \in Nat \ {0}
         /\ Time(st', h) \in 0 .. period
         /\ (Time(st', h) - Time(st, h)) % period = 0
<1> DEFINE o == Late(h)
<1> DEFINE r == CorrectedOver(o, period)
<1>1. /\ st.tmr[h].data \in Counts /\ st.tmr[h].ctrl \in 0 .. 15
      /\ Time(st, h) \in Int
  BY WorksFacts DEF Base
<1>2. period \in Nat \ {0}
  BY <1>1, PeriodFacts
<1>3. o \in Nat /\ Time(st, h) = -o
  BY <1>1 DEF Late
<1>4. Time(st', h) = period - r
  BY DEF Expired
<1> HIDE DEF o
<1>5. r \in 0 .. period /\ (o - r) % period = 0
  BY <1>2, <1>3, CorrectedType
<1> HIDE DEF r
<1>6. Time(st', h) \in 0 .. period
  BY <1>2, <1>4, <1>5
<1>7. Time(st', h) - Time(st, h) = (o - r) + period
  BY <1>2, <1>3, <1>4, <1>5
<1>8. ((o - r) + period) % period = 0
  <2> DEFINE x == o - r
  <2>1. x \in Int /\ x % period = 0
    BY <1>3, <1>5
  <2> HIDE DEF x
  <2>2. (x + period) % period = 0
    <3> DEFINE k == x \div period
    <3>1. k \in Int /\ x = period * k
      BY <1>2, <2>1
    <3> HIDE DEF k
    <3>2. k + 1 \in Int /\ x + period = period * (k + 1)
      BY <1>2, <3>1
    <3>3. \A a \in Nat \ {0}, b \in Int : (a * b) % a = 0
      OBVIOUS
    <3> QED BY <1>2, <3>2, <3>3
  <2> QED BY <2>2 DEF x
<1> QED BY <1>2, <1>6, <1>7, <1>8

(* What the handlers make of a timer. *)
HandlerOK(h) ==
  /\ Armed(st, h) => Armed(st', h)
  /\ Resumable(st, h) => Resumable(st', h)
  /\ Loaded(st, h) => Loaded(st', h)

LEMMA TimerHandlerOK ==
  ASSUME Base, NEW h \in Timers, TimerHandler(h), NEW g \in Timers
  PROVE  HandlerOK(g)
<1>1. /\ Used(st, h) = TRUE /\ Late(h) \in Nat /\ Expired(h)
      /\ \A k \in Timers \ {h} : Same(st, st', k)
  BY TimerHandlerEffect
<1>2. CASE g # h
  <2>1. Same(st, st', g)
    BY <1>1, <1>2
  <2> QED BY <2>1, Zenon DEF HandlerOK, Same, Armed, Resumable, Loaded
<1>3. CASE g = h
  <2> DEFINE k == Prescaler(st.tmr[h].ctrl)
  <2> DEFINE period == Period(st.tmr[h].data, st.tmr[h].ctrl)
  <2>1. /\ st'.tmr[h].ctrl = st.tmr[h].ctrl /\ st'.tmr[h].data = st.tmr[h].data
        /\ Used(st', h) = (k # 0)
        /\ k = 0 => st'.tmr[h] = st.tmr[h] /\ Time(st', h) = Time(st, h)
    BY <1>1 DEF Expired
  <2>2. /\ st.tmr[h].ctrl \in 0 .. 15 /\ st.tmr[h].data \in Counts
    BY WorksFacts DEF Base
  <2>3. Armed(st', h)
    BY <2>1 DEF Armed
  <2>4. CASE k = 0
    <3>1. Resumable(st, h) => Bounded(Time(st', h))
      BY <1>1, <2>1, <2>4 DEF Resumable
    <3>2. Loaded(st, h) => Loaded(st', h)
      BY <2>1, <2>4 DEF Loaded
    <3> QED BY <1>3, <2>3, <3>1, <3>2 DEF HandlerOK, Resumable
  <2>5. CASE k # 0
    <3>1. /\ period \in Nat \ {0} /\ Time(st', h) \in 0 .. period
      BY <1>1, <2>5, ExpiredOnGrid
    <3>2. Bounded(period)
      BY <2>2, <2>5, PeriodFacts DEF Bounded
    <3> HIDE DEF period
    <3>3. Bounded(Time(st', h))
      BY <3>1, <3>2, BoundedLess
    <3>4. ~Loaded(st, h)
      BY <2>5 DEF Loaded, Prescaler
    <3> QED BY <1>3, <2>3, <3>3, <3>4 DEF HandlerOK, Resumable
  <2> QED BY <2>4, <2>5
<1> QED BY <1>2, <1>3

(* The handlers of the other entries change the counter of the timers that *)
(* count their events, nothing else.                                       *)
LEMMA OtherHandlerEffect ==
  ASSUME VideoFits, Base, NEW E \in SUBSET TimersAB, OtherHandler(E)
  PROVE  /\ Works(st') /\ raised' \subseteq Timers /\ written' = written
         /\ \A g \in Timers : HandlerOK(g)
<1> DEFINE c == StartVideo(CycInt_AcknowledgeInterrupt(st.cyc))
<1> DEFINE f == [h \in Timers |->
                   IF h \in E THEN MFP_Timer_EventCount_Interrupt(st.tmr[h]) ELSE st.tmr[h]]
<1>1. /\ st.cyc.PendingInterruptFunction = Video
      /\ \A h \in E : st.tmr[h].ctrl = EventCount
      /\ raised' = {h \in E : EventRaises(st.tmr[h])}
      /\ st' = [st EXCEPT !.cyc = c, !.tmr = f] /\ written' = written
  BY DEF OtherHandler
<1>2. st \in Machine /\ Scheduled(st.cyc)
  BY DEF Base, Works
<1>3. /\ Scheduled(c)
      /\ \A g \in Timers : TimeOf(c, g) = TimeOf(st.cyc, g) /\ c.bUsed[g] = st.cyc.bUsed[g]
  BY <1>1, <1>2, VideoHandled
<1>4. c \in SchedulerState
  BY <1>3, ScheduledFacts
<1> HIDE DEF c
<1>5. ASSUME NEW h \in Timers
      PROVE  /\ f[h] \in TimerRegisters
             /\ f[h].ctrl = st.tmr[h].ctrl /\ f[h].data = st.tmr[h].data
             /\ f[h].CanResume = st.tmr[h].CanResume
             /\ st.tmr[h].ctrl = 0 => f[h] = st.tmr[h]
  <2> DEFINE r == st.tmr[h]
  <2>1. r \in TimerRegisters
    BY WorksFacts DEF Base
  <2>2. CASE h \notin E
    BY <2>1, <2>2
  <2>3. CASE h \in E
    <3>1. f[h] = MFP_Timer_EventCount_Interrupt(r) /\ r.ctrl # 0
      BY <1>1, <2>3 DEF EventCount
    <3>2. r.data \in Counts /\ r.MainCounter \in Counts
      BY <2>1 DEF TimerRegisters
    <3> DEFINE n == IF r.MainCounter = 1 THEN r.data
                    ELSE (r.MainCounter + FullCount - 1) % FullCount
    <3>3. n \in Counts
      <4>1. FullCount \in Nat \ {0, 1}
        BY TimersAssumption
      <4> HIDE DEF r
      <4>2. (r.MainCounter + FullCount - 1) % FullCount \in 0 .. FullCount - 1
        <5> DEFINE x == r.MainCounter + FullCount - 1
        <5>1. x \in Int
          BY <3>2, <4>1 DEF Counts
        <5> HIDE DEF x
        <5>2. x % FullCount \in 0 .. FullCount - 1
          BY <4>1, <5>1
        <5> QED BY <5>2 DEF x
      <4> QED BY <3>2, <4>2 DEF Counts
    <3> HIDE DEF r, n
    <3>4. f[h] = [r EXCEPT !.MainCounter = n]
      BY <3>1 DEF MFP_Timer_EventCount_Interrupt, n
    <3> HIDE DEF f
    <3>5. /\ f[h] \in TimerRegisters /\ f[h].ctrl = r.ctrl /\ f[h].data = r.data
          /\ f[h].CanResume = r.CanResume
      BY <2>1, <3>3, <3>4 DEF TimerRegisters
    <3> QED BY <3>1, <3>5 DEF r
  <2> QED BY <2>2, <2>3
<1>6. f \in [Timers -> TimerRegisters]
  BY <1>5
<1> HIDE DEF f
<1>7. st' \in Machine /\ st'.cyc = c /\ st'.tmr = f
  BY <1>1, <1>2, <1>4, <1>6 DEF Machine
<1>8. Works(st')
  BY <1>3, <1>7 DEF Works
<1>9. ASSUME NEW g \in Timers PROVE HandlerOK(g)
  <2>1. Used(st', g) = Used(st, g) /\ Time(st', g) = Time(st, g)
    BY <1>3, <1>7 DEF Used, Time, CycInt_InterruptActive
  <2>2. /\ st'.tmr[g].ctrl = st.tmr[g].ctrl /\ st'.tmr[g].data = st.tmr[g].data
        /\ st'.tmr[g].CanResume = st.tmr[g].CanResume
        /\ st.tmr[g].ctrl = 0 => st'.tmr[g] = st.tmr[g]
    BY <1>5, <1>7
  <2>3. Armed(st, g) => Armed(st', g)
    BY <2>1, <2>2 DEF Armed
  <2>4. Resumable(st, g) => Resumable(st', g)
    BY <2>1, <2>2 DEF Resumable
  <2>5. Loaded(st, g) => Loaded(st', g)
    BY <2>2 DEF Loaded
  <2> QED BY <2>3, <2>4, <2>5 DEF HandlerOK
<1>10. E \subseteq Timers
  BY DEF Timers
<1> QED BY <1>1, <1>8, <1>9, <1>10

-----------------------------------------------------------------------------
(* The resets: that of a machine starts the scheduler again, the RESET     *)
(* instruction does not.                                                   *)

LEMMA ClearedTimers ==
  ASSUME NEW s \in Machine
  PROVE  /\ MFP_ResetTimers(s.tmr) \in [Timers -> TimerRegisters]
         /\ \A h \in Timers : /\ MFP_ResetTimers(s.tmr)[h].ctrl = 0
                              /\ MFP_ResetTimers(s.tmr)[h].CanResume = s.tmr[h].CanResume
<1>1. 0 \in Counts
  BY TimersAssumption DEF Counts
<1>2. \A h \in Timers : s.tmr[h].CanResume \in BOOLEAN
  BY DEF Machine, TimerRegisters
<1> QED BY <1>1, <1>2 DEF MFP_ResetTimers, TimerRegisters

LEMMA InstructionResetEffect ==
  ASSUME Base, ResetInstruction
  PROVE  /\ Works(st') /\ raised' = {} /\ written' = {}
         /\ \A h \in Timers : Resumable(st, h) => Resumable(st', h)
<1> DEFINE f == MFP_ResetTimers(st.tmr)
<1> DEFINE s == [st EXCEPT !.tmr = f]
<1>1. Execute(s) /\ written' = {}
  BY DEF ResetInstruction
<1>2. st \in Machine /\ Scheduled(st.cyc)
  BY DEF Base, Works
<1>3. f \in [Timers -> TimerRegisters] /\ \A h \in Timers : f[h].CanResume = st.tmr[h].CanResume
  BY <1>2, ClearedTimers
<1> HIDE DEF f
<1>4. s \in Machine /\ s.cyc = st.cyc /\ s.tmr = f
  BY <1>2, <1>3 DEF Machine
<1> HIDE DEF s
<1>5. Works(s)
  BY <1>2, <1>4 DEF Works
<1>6. /\ Works(st') /\ raised' = {} /\ st'.tmr = f
      /\ \A h \in Timers : /\ Used(st', h) = Used(s, h)
                           /\ Used(s, h) => Time(st', h) = Time(s, h) - Charge
                           /\ ~Used(s, h) => Time(st', h) = Time(s, h)
  BY <1>1, <1>4, <1>5, ExecuteEffect
<1>7. ASSUME NEW h \in Timers, Resumable(st, h) PROVE Resumable(st', h)
  <2>1. Used(s, h) = Used(st, h) /\ Time(s, h) = Time(st, h)
    BY <1>4 DEF Used, Time
  <2>2. st'.tmr[h].CanResume = st.tmr[h].CanResume
    BY <1>3, <1>6
  <2>3. Time(st, h) \in Int /\ Charge \in Nat
    BY WorksFacts, ChargeNat DEF Base
  <2> DEFINE x == Time(st, h) - Charge
  <2>4. x \in Int /\ x <= Time(st, h)
    BY <2>3
  <2>5. Used(s, h) => Time(st', h) = x
    BY <1>6, <2>1
  <2> HIDE DEF x
  <2>6. Bounded(Time(st, h)) => Bounded(x)
    BY <2>3, <2>4, BoundedLess
  <2> QED BY <1>6, <1>7, <2>1, <2>2, <2>5, <2>6 DEF Resumable
<1> QED BY <1>1, <1>6, <1>7

LEMMA MachineResetEffect ==
  ASSUME VideoFits, Base, ResetMachine
  PROVE  /\ Works(st') /\ raised' = {} /\ written' = {}
         /\ \A h \in Timers : Armed(st', h)
         /\ \A h \in Timers : Prescaler(st'.tmr[h].ctrl) = 0
<1> DEFINE f == MFP_ResetTimers(st.tmr)
<1> DEFINE c == StartVideo(CycInt_Reset(st.cyc))
<1>1. st' = [st EXCEPT !.cyc = c, !.tmr = f] /\ raised' = {} /\ written' = {}
  BY DEF ResetMachine
<1>2. st \in Machine /\ st.cyc \in SchedulerState
  BY DEF Base, Works, Machine
<1>3. f \in [Timers -> TimerRegisters] /\ \A h \in Timers : f[h].ctrl = 0
  BY <1>2, ClearedTimers
<1>4. Scheduled(c) /\ \A g \in Timers : ~c.bUsed[g]
  BY <1>2, VideoReset
<1>5. c \in SchedulerState
  BY <1>4, ScheduledFacts
<1> HIDE DEF c, f
<1>6. st' \in Machine /\ st'.cyc = c /\ st'.tmr = f
  BY <1>1, <1>2, <1>3, <1>5 DEF Machine
<1>7. Prescaler(0) = 0
  BY DEF Prescaler
<1>8. \A h \in Timers : c.bUsed[h] = FALSE
  BY <1>4, <1>5, TimersType DEF SchedulerState
<1>9. \A h \in Timers : Prescaler(st'.tmr[h].ctrl) = 0
  BY <1>3, <1>6, <1>7
<1>10. \A h \in Timers : Armed(st', h)
  BY <1>6, <1>8, <1>9 DEF Armed, Used, CycInt_InterruptActive
<1> QED BY <1>1, <1>4, <1>6, <1>9, <1>10 DEF Works

LEMMA InitEffect ==
  ASSUME VideoFits, Init
  PROVE  /\ Base /\ written = {}
         /\ \A h \in Timers : Armed(st, h) /\ Resumable(st, h)
<1> DEFINE c == StartVideo(CycInt_Reset(Zeroed))
<1> DEFINE f == [h \in Timers |-> [ctrl |-> 0, data |-> 0, MainCounter |-> 0, CanResume |-> FALSE]]
<1>1. /\ st = [cyc |-> c, tmr |-> f, PendingCyclesOver |-> 0] /\ raised = {} /\ written = {}
  BY DEF Init
<1>2. Zeroed \in SchedulerState
  BY DEF Zeroed, SchedulerState, InterruptId, INTERRUPT_NULL
<1>3. Scheduled(c) /\ \A g \in Timers : ~c.bUsed[g]
  BY <1>2, VideoReset
<1>4. c \in SchedulerState
  BY <1>3, ScheduledFacts
<1>5. 0 \in Counts
  BY TimersAssumption DEF Counts
<1>6. /\ f \in [Timers -> TimerRegisters]
      /\ \A h \in Timers : f[h].ctrl = 0 /\ f[h].CanResume = FALSE
  BY <1>5 DEF TimerRegisters
<1> HIDE DEF c, f
<1>7. st \in Machine /\ st.cyc = c /\ st.tmr = f
  BY <1>1, <1>4, <1>6 DEF Machine
<1>8. Prescaler(0) = 0
  BY DEF Prescaler
<1>9. \A h \in Timers : Used(st, h) = FALSE
  BY <1>3, <1>4, <1>7, TimersType DEF SchedulerState, Used, CycInt_InterruptActive
<1>10. \A h \in Timers : Armed(st, h) /\ Resumable(st, h)
  BY <1>6, <1>7, <1>8, <1>9 DEF Armed, Resumable
<1> QED BY <1>1, <1>3, <1>7, <1>10 DEF Base, Works

-----------------------------------------------------------------------------
(* All steps. *)

LEMMA NextCases ==
  ASSUME Next
  PROVE  \/ ProgramStep
         \/ ResetInstruction
         \/ \E h \in Timers : TimerHandler(h)
         \/ \E E \in SUBSET TimersAB : OtherHandler(E)
         \/ ResetMachine
BY Zenon DEF Next, ProgramStep

LEMMA BaseStep ==
  ASSUME VideoFits, Base, [Next]_vars
  PROVE  Base'
<1>1. CASE UNCHANGED vars
  BY <1>1 DEF vars, Base
<1>2. CASE ProgramStep
  BY <1>2, ProgramEffect DEF Base, WrittenOK
<1>3. CASE ResetInstruction
  BY <1>3, InstructionResetEffect DEF Base
<1>4. ASSUME NEW h \in Timers, TimerHandler(h) PROVE Base'
  BY <1>4, TimerHandlerEffect DEF Base
<1>5. ASSUME NEW E \in SUBSET TimersAB, OtherHandler(E) PROVE Base'
  BY <1>5, OtherHandlerEffect DEF Base
<1>6. CASE ResetMachine
  BY <1>6, MachineResetEffect DEF Base
<1> QED BY <1>1, <1>2, <1>3, <1>4, <1>5, <1>6, NextCases

LEMMA ArmedStep ==
  ASSUME VideoFits, Resets \subseteq {"machine"}, Base, [Next]_vars,
         NEW g \in Timers, Armed(st, g)
  PROVE  Armed(st', g)
<1>1. CASE UNCHANGED vars
  BY <1>1 DEF vars
<1>2. CASE ProgramStep
  BY <1>2, ProgramEffect DEF ProgramOK
<1>3. ~ResetInstruction
  BY DEF ResetInstruction
<1>4. ASSUME NEW h \in Timers, TimerHandler(h) PROVE Armed(st', g)
  BY <1>4, TimerHandlerOK DEF HandlerOK
<1>5. ASSUME NEW E \in SUBSET TimersAB, OtherHandler(E) PROVE Armed(st', g)
  BY <1>5, OtherHandlerEffect DEF HandlerOK
<1>6. CASE ResetMachine
  BY <1>6, MachineResetEffect
<1> QED BY <1>1, <1>2, <1>3, <1>4, <1>5, <1>6, NextCases

LEMMA ResumableStep ==
  ASSUME VideoFits, "machine" \notin Resets, Base, [Next]_vars,
         NEW g \in Timers, Resumable(st, g)
  PROVE  Resumable(st', g)
<1>1. CASE UNCHANGED vars
  BY <1>1 DEF vars
<1>2. CASE ProgramStep
  BY <1>2, ProgramEffect DEF ProgramOK
<1>3. CASE ResetInstruction
  BY <1>3, InstructionResetEffect
<1>4. ASSUME NEW h \in Timers, TimerHandler(h) PROVE Resumable(st', g)
  BY <1>4, TimerHandlerOK DEF HandlerOK
<1>5. ASSUME NEW E \in SUBSET TimersAB, OtherHandler(E) PROVE Resumable(st', g)
  BY <1>5, OtherHandlerEffect DEF HandlerOK
<1>6. ~ResetMachine
  BY DEF ResetMachine
<1> QED BY <1>1, <1>2, <1>3, <1>4, <1>5, <1>6, NextCases

(* What was written stays loaded until the timer is started. *)
LEMMA LoadedStep ==
  ASSUME VideoFits, Resets \subseteq {"machine"}, Base, [Next]_vars,
         \A g \in Timers : Armed(st, g),
         \A g \in written : Loaded(st, g)
  PROVE  \A g \in written' : Loaded(st', g)
<1>1. CASE UNCHANGED vars
  BY <1>1 DEF vars
<1>2. CASE ProgramStep
  <2>1. /\ \A g \in Timers : ProgramOK(g)
        /\ WrittenOK
    BY <1>2, ProgramEffect
  <2>2. ASSUME NEW g \in written', g \in written PROVE st'.tmr[g].ctrl = 0 => Loaded(st', g)
    <3>1. g \in Timers /\ ProgramOK(g) /\ Armed(st, g) /\ Loaded(st, g)
      BY <2>1, <2>2 DEF WrittenOK
    <3> QED BY <3>1 DEF ProgramOK
  <2>3. ASSUME NEW g \in written', g \in written PROVE st.tmr[g].ctrl = 0
    BY <2>3 DEF Loaded
  <2> QED BY <2>1, <2>2, <2>3 DEF WrittenOK
<1>3. ~ResetInstruction
  BY DEF ResetInstruction
<1>4. ASSUME NEW h \in Timers, TimerHandler(h)
      PROVE  \A g \in written' : Loaded(st', g)
  <2>1. written' = written /\ written \subseteq Timers
    BY <1>4, TimerHandlerEffect DEF Base
  <2> QED BY <1>4, <2>1, TimerHandlerOK DEF HandlerOK
<1>5. ASSUME NEW E \in SUBSET TimersAB, OtherHandler(E)
      PROVE  \A g \in written' : Loaded(st', g)
  <2>1. written' = written /\ written \subseteq Timers
    BY <1>5, OtherHandlerEffect DEF Base
  <2> QED BY <1>5, <2>1, OtherHandlerEffect DEF HandlerOK
<1>6. CASE ResetMachine
  BY <1>6, MachineResetEffect
<1> QED BY <1>1, <1>2, <1>3, <1>4, <1>5, <1>6, NextCases

LEMMA LeftIsTime ==
  ASSUME NEW s, Works(s), NEW h \in Timers, Used(s, h)
  PROVE  /\ Left(s, h) = Time(s, h)
         /\ CyclesLeft(s.cyc, h) = Time(s, h)
         /\ s.cyc.PendingInterruptCount <= Time(s, h)
<1>1. h \in Handlers /\ s.cyc.bUsed[h]
  BY TimersType DEF Used, CycInt_InterruptActive
<1>2. Scheduled(s.cyc)
  BY DEF Works
<1>3. /\ Behind(s.cyc) = Elapsed(s.cyc)
      /\ \A g \in Handlers : s.cyc.bUsed[g] => s.cyc.PendingInterruptCount <= TimeOf(s.cyc, g)
  BY <1>2, ScheduledFacts
<1>4. CyclesLeft(s.cyc, h) = Time(s, h)
  BY <1>1, <1>3 DEF CyclesLeft, Time, TimeOf
<1> QED BY <1>1, <1>3, <1>4 DEF Left, Time

-----------------------------------------------------------------------------
(* The theorems. *)

(* The registers keep their widths and the delay of a handler is never     *)
(* negative (PendingCyclesOver): no timer is handled early, whatever is    *)
(* reset.                                                                  *)
THEOREM TimersWork ==
  ASSUME VideoFits
  PROVE  Spec => []TypeOK
<1>1. Init => Base
  BY InitEffect
<1>2. Base /\ [Next]_vars => Base'
  BY BaseStep
<1>3. Base => TypeOK
  BY WorksFacts DEF Base, TypeOK
<1> QED BY <1>1, <1>2, <1>3, PTL DEF Spec

(* With the timers of the MFP starting, stopping and re-arming entries, no *)
(* event is missed: as soon as a timer or the video is due the test of the *)
(* CPU loop succeeds, and the handler that it calls is in use and due no   *)
(* later than any other one (cycInt.c:229).                                *)
NoEventMissed ==
  \A h \in Handlers :
    st.cyc.bUsed[h] /\ CyclesLeft(st.cyc, h) <= 0 =>
      /\ HandlerIsDue(st.cyc)
      /\ st.cyc.bUsed[st.cyc.PendingInterruptFunction]
      /\ \A g \in Handlers : st.cyc.bUsed[g] =>
           CyclesLeft(st.cyc, st.cyc.PendingInterruptFunction) <= CyclesLeft(st.cyc, g)

(* No timer of the MFP expires unnoticed, also after a RESET and after     *)
(* writes to the registers in any order (cycInt.c:229, mfp.c).             *)
THEOREM NoTimerEventMissed ==
  ASSUME VideoFits
  PROVE  Spec => []NoEventMissed
<1>1. Init => Base
  BY InitEffect
<1>2. Base /\ [Next]_vars => Base'
  BY BaseStep
<1>3. Base => NoEventMissed
  <2> SUFFICES ASSUME Base, NEW h \in Handlers, st.cyc.bUsed[h], CyclesLeft(st.cyc, h) <= 0
               PROVE  /\ HandlerIsDue(st.cyc)
                      /\ st.cyc.bUsed[st.cyc.PendingInterruptFunction]
                      /\ \A g \in Handlers : st.cyc.bUsed[g] =>
                           CyclesLeft(st.cyc, st.cyc.PendingInterruptFunction)
                             <= CyclesLeft(st.cyc, g)
    BY DEF NoEventMissed
  <2>1. PICK c : c = st.cyc
    OBVIOUS
  <2>2. Scheduled(c)
    BY <2>1 DEF Base, Works
  <2>3. PICK a : a = c.PendingInterruptFunction
    OBVIOUS
  <2>4. /\ c \in SchedulerState /\ a \in Handlers /\ c.bUsed[a] /\ a # INTERRUPT_NULL
        /\ Behind(c) = Elapsed(c)
        /\ TimeOf(c, a) = c.PendingInterruptCount
        /\ \A g \in Handlers : c.bUsed[g] => c.PendingInterruptCount <= TimeOf(c, g)
        /\ \A g \in InterruptId : TimeOf(c, g) \in Int
    BY <2>2, <2>3, ScheduledFacts
  <2>5. \A g \in Handlers : c.bUsed[g] => CyclesLeft(c, g) = TimeOf(c, g)
    BY <2>4 DEF CyclesLeft, TimeOf
  <2>6. \A g \in Handlers : c.bUsed[g] => CyclesLeft(c, a) <= CyclesLeft(c, g)
    BY <2>4, <2>5
  <2>7. TimeOf(c, h) \in Int /\ c.PendingInterruptCount \in Int
    BY <2>4 DEF InterruptId, SchedulerState
  <2>8. c.PendingInterruptCount <= 0
    BY <2>1, <2>4, <2>5, <2>7
  <2> QED BY <2>1, <2>3, <2>4, <2>6, <2>8 DEF HandlerIsDue
<1> QED BY <1>1, <1>2, <1>3, PTL DEF Spec

(* A timer has an entry in the scheduler iff it runs by itself; without    *)
(* RESET instructions, which leave the entries (reset.c).                  *)
THEOREM RunningTimersArmed ==
  ASSUME VideoFits, Resets \subseteq {"machine"}
  PROVE  Spec => []RunningTimerArmed
<1> DEFINE Inv == Base /\ \A h \in Timers : Armed(st, h)
<1>1. Init => Inv
  BY InitEffect
<1>2. Inv /\ [Next]_vars => Inv'
  <2> SUFFICES ASSUME Inv, [Next]_vars PROVE Inv'
    OBVIOUS
  <2>1. Base'
    BY BaseStep
  <2>2. \A h \in Timers : Armed(st', h)
    BY ArmedStep
  <2> QED BY <2>1, <2>2
<1>3. Inv => RunningTimerArmed
  BY DEF Armed, Used, RunningTimerArmed
<1> QED BY <1>1, <1>2, <1>3, PTL DEF Spec

(* A running timer reads as 1 at least, at 8 MHz: at 16 and 32 MHz the     *)
(* time is rounded up before it is divided by the factor of the frequency, *)
(* rounding down.                                                          *)
THEOREM CounterNeverReadsZero ==
  ASSUME VideoFits, Resets \subseteq {"machine"}, nCpuFreqShift = 0
  PROVE  Spec => []CounterNeverZero
<1>1. Base /\ RunningTimerArmed => CounterNeverZero
  <2> SUFFICES ASSUME Base, RunningTimerArmed, NEW h \in Timers,
                      Prescaler(st.tmr[h].ctrl) # 0, ~HandlerIsDue(st.cyc)
               PROVE  MFP_CYCLE_TO_REG(CycInt_FindCyclesPassed(st.cyc, h, "MFP"),
                                       st.tmr[h].ctrl) >= 1
    BY DEF CounterNeverZero
  <2>1. Works(st) /\ Scheduled(st.cyc)
    BY DEF Base, Works
  <2>2. st.tmr[h].ctrl \in 0 .. 15 /\ Time(st, h) \in Int
    BY <2>1, WorksFacts
  <2>3. Used(st, h)
    BY DEF RunningTimerArmed, Used
  <2>4. /\ CyclesLeft(st.cyc, h) = Time(st, h)
        /\ st.cyc.PendingInterruptCount <= Time(st, h)
    BY <2>1, <2>3, LeftIsTime
  <2>5. st.cyc.PendingInterruptCount > 0
    <3>1. st.cyc.PendingInterruptFunction # INTERRUPT_NULL /\ st.cyc.PendingInterruptCount \in Int
      BY <2>1, ScheduledFacts DEF SchedulerState
    <3> QED BY <3>1 DEF HandlerIsDue
  <2>6. st.cyc.PendingInterruptCount \in Int
    BY <2>1, ScheduledFacts DEF SchedulerState
  <2> DEFINE x == Time(st, h)
  <2> DEFINE y == CycInt_FindCyclesPassed(st.cyc, h, "MFP")
  <2>7. x \in Int /\ x >= 1
    BY <2>2, <2>4, <2>5, <2>6
  <2>8. y = INT_CONVERT_FROM_INTERNAL(x, "MFP")
    BY <2>4 DEF CycInt_FindCyclesPassed
  <2> HIDE DEF x, y
  <2>9. y \in Int /\ y >= 1
    BY <2>7, <2>8, FromInternal
  <2>10. MFP_CYCLE_TO_REG(y, st.tmr[h].ctrl) >= 1
    BY <2>2, <2>9, CounterRoundsUp
  <2> QED BY <2>10 DEF y
<1>2. Init => Base
  BY InitEffect
<1>3. Base /\ [Next]_vars => Base'
  BY BaseStep
<1>4. Spec => []RunningTimerArmed
  BY RunningTimersArmed
<1> QED BY <1>1, <1>2, <1>3, <1>4, PTL DEF Spec

(* No timer takes longer than the longest period there is, as long as the  *)
(* user does not reset the machine: MFP_Reset keeps the CanResume flags    *)
(* while CycInt_Reset sets all entries to INT_MAX.                         *)
THEOREM TimersKeepTheirPeriod ==
  ASSUME VideoFits, "machine" \notin Resets
  PROVE  Spec => []TimerWithinPeriod
<1> DEFINE Inv == Base /\ \A h \in Timers : Resumable(st, h)
<1>1. Init => Inv
  BY InitEffect
<1>2. Inv /\ [Next]_vars => Inv'
  <2> SUFFICES ASSUME Inv, [Next]_vars PROVE Inv'
    OBVIOUS
  <2>1. Base'
    BY BaseStep
  <2>2. \A h \in Timers : Resumable(st', h)
    BY ResumableStep
  <2> QED BY <2>1, <2>2
<1>3. Inv => TimerWithinPeriod
  <2> SUFFICES ASSUME Inv, NEW h \in Timers, Used(st, h)
               PROVE  \E c \in 1 .. 7 : Left(st, h) <= Period(0, c)
    BY DEF TimerWithinPeriod, Used
  <2>1. Left(st, h) = Time(st, h)
    BY LeftIsTime DEF Base
  <2> QED BY <2>1 DEF Resumable, Bounded
<1> QED BY <1>1, <1>2, <1>3, PTL DEF Spec

(* No timer drifts, however late its handler is called. *)
THEOREM NoDrift ==
  ASSUME VideoFits
  PROVE  Spec => TimersStayOnGrid
<1>1. Init => Base
  BY InitEffect
<1>2. Base /\ [Next]_vars => Base'
  BY BaseStep
<1>3. Base /\ [Next]_vars =>
        [\A h \in Timers :
           TimerHandler(h) /\ Prescaler(st.tmr[h].ctrl) # 0 =>
             LET period == Period(st.tmr[h].data, st.tmr[h].ctrl)
             IN  /\ Left(st', h) \in 0 .. period
                 /\ (Left(st', h) - Left(st, h)) % period = 0]_vars
  <2> SUFFICES ASSUME Base, [Next]_vars,
                      NEW h \in Timers, TimerHandler(h), Prescaler(st.tmr[h].ctrl) # 0
               PROVE  LET period == Period(st.tmr[h].data, st.tmr[h].ctrl)
                      IN  /\ Left(st', h) \in 0 .. period
                          /\ (Left(st', h) - Left(st, h)) % period = 0
    OBVIOUS
  <2> DEFINE period == Period(st.tmr[h].data, st.tmr[h].ctrl)
  <2>1. /\ Works(st') /\ Used(st, h) = TRUE /\ Late(h) \in Nat /\ Expired(h)
    BY TimerHandlerEffect
  <2>2. /\ Time(st', h) \in 0 .. period
        /\ (Time(st', h) - Time(st, h)) % period = 0
    BY <2>1, ExpiredOnGrid
  <2>3. Left(st, h) = Time(st, h)
    BY <2>1, LeftIsTime DEF Base
  <2>4. Used(st', h)
    BY <2>1 DEF Expired
  <2>5. Left(st', h) = Time(st', h)
    BY <2>1, <2>4, LeftIsTime
  <2> QED BY <2>2, <2>3, <2>5
<1> QED BY <1>1, <1>2, <1>3, PTL DEF Spec, TimersStayOnGrid

(* What is written to the data register of a timer that is off counts,     *)
(* without RESET instructions.                                             *)
THEOREM WrittenDataIsUsed ==
  ASSUME VideoFits, Resets \subseteq {"machine"}
  PROVE  Spec => WrittenDataCounts
<1> DEFINE Inv == /\ Base
                  /\ \A h \in Timers : Armed(st, h)
                  /\ \A h \in written : Loaded(st, h)
<1>1. Init => Inv
  BY InitEffect
<1>2. Inv /\ [Next]_vars => Inv'
  <2> SUFFICES ASSUME Inv, [Next]_vars PROVE Inv'
    OBVIOUS
  <2>1. Base'
    BY BaseStep
  <2>2. \A h \in Timers : Armed(st', h)
    BY ArmedStep
  <2>3. \A h \in written' : Loaded(st', h)
    BY LoadedStep
  <2> QED BY <2>1, <2>2, <2>3
<1>3. Inv /\ [Next]_vars =>
        [\A h \in written \ written' :
           Prescaler(st'.tmr[h].ctrl) # 0 =>
             Left(st', h) \in (Period(st.tmr[h].data, st'.tmr[h].ctrl) - Charge)
                                .. Period(st.tmr[h].data, st'.tmr[h].ctrl)]_vars
  <2> SUFFICES ASSUME Inv, Next, NEW h \in written \ written', Prescaler(st'.tmr[h].ctrl) # 0
               PROVE  Left(st', h) \in (Period(st.tmr[h].data, st'.tmr[h].ctrl) - Charge)
                                         .. Period(st.tmr[h].data, st'.tmr[h].ctrl)
    BY DEF vars
  <2>1. h \in Timers /\ Armed(st, h) /\ Loaded(st, h) /\ Works(st)
    BY DEF Base
  <2>2. ProgramStep
    <3>1. ASSUME NEW g \in Timers, TimerHandler(g) PROVE FALSE
      BY <3>1 DEF TimerHandler
    <3>2. ASSUME NEW E \in SUBSET TimersAB, OtherHandler(E) PROVE FALSE
      BY <3>2 DEF OtherHandler
    <3>3. ~ResetMachine
      BY <2>1, MachineResetEffect
    <3>4. ~ResetInstruction
      BY DEF ResetInstruction
    <3> QED BY <3>1, <3>2, <3>3, <3>4, NextCases
  <2>3. Works(st') /\ ProgramOK(h)
    BY <2>1, <2>2, ProgramEffect
  <2>4. st'.tmr[h].ctrl # 0
    BY DEF Prescaler
  <2>5. /\ Armed(st', h)
        /\ Time(st', h) \in (Period(st.tmr[h].data, st'.tmr[h].ctrl) - Charge)
                              .. Period(st.tmr[h].data, st'.tmr[h].ctrl)
    BY <2>1, <2>3, <2>4 DEF ProgramOK
  <2>6. Left(st', h) = Time(st', h)
    BY <2>1, <2>3, <2>5, LeftIsTime DEF Armed
  <2> QED BY <2>5, <2>6
<1> QED BY <1>1, <1>2, <1>3, PTL DEF Spec, WrittenDataCounts
=============================================================================
