---------------------------- MODULE CycIntProofs ----------------------------
(***************************************************************************)
(* Proofs about the scheduler, for every set of timers, every INT_MAX and  *)
(* every set of delays.                                                    *)
(***************************************************************************)
EXTENDS CycIntSpec, CycIntLemmas

-----------------------------------------------------------------------------
(* What the two halves of every scheduler call establish. *)

VideoRuns(s) ==
  /\ \E v \in Video : s.bUsed[v]
  /\ \A v \in Video : s.bUsed[v] => s.Cycles[v] < INT_MAX

Good(s) ==
  /\ s \in SchedulerState
  /\ s.ActiveInterrupt = s.PendingInterruptFunction
  /\ Consistent(s)

(* u is s with its table brought up to date: the entries of the timers now *)
(* hold the time they have left.                                           *)
Settled(s, u) ==
  /\ u \in SchedulerState
  /\ u.bUsed = s.bUsed
  /\ \A h \in Handlers : u.Cycles[h] = TimeLeft(s)[h]
  /\ VideoRuns(u)

(* If a video entry runs, the search leaves a consistent scheduler. *)
LEMMA SetNewFacts ==
  ASSUME NEW s \in SchedulerState, VideoRuns(s),
         NEW t, t = CycInt_SetNewInterrupt(s)
  PROVE  /\ Good(t)
         /\ t.bUsed = s.bUsed
         /\ t.Cycles = s.Cycles
         /\ Elapsed(t) = 0
         /\ \A h \in Handlers : TimeLeft(t)[h] = s.Cycles[h]
         /\ Armed(t) = Armed(s)
<1>1. /\ t \in SchedulerState
      /\ t.bUsed = s.bUsed /\ t.Cycles = s.Cycles
      /\ t.ActiveInterrupt = t.PendingInterruptFunction
      /\ t.PendingInterruptFunction = LowestInterrupt(t)
      /\ t.PendingInterruptCount = t.Cycles[t.PendingInterruptFunction]
      /\ Elapsed(t) = 0
  BY SetNewTable
<1>2. t.Cycles[t.PendingInterruptFunction] \in Int
  BY <1>1 DEF SchedulerState
<1>3. Good(t)
  BY <1>1, <1>2 DEF Good, Consistent, VideoRuns
<1>4. \A h \in Handlers : s.Cycles[h] \in Int
  BY DEF SchedulerState, InterruptId
<1>5. \A h \in Handlers : TimeLeft(t)[h] = s.Cycles[h]
  BY <1>1, <1>2, <1>4 DEF TimeLeft
<1> QED BY <1>1, <1>3, <1>5 DEF Armed

(* A consistent scheduler counts down the running timer that is due first, *)
(* and always has one.  An entry beyond the 32 bit counter is no candidate *)
(* of the search, but due later than the video entry.                      *)
LEMMA GoodFacts ==
  ASSUME NEW s, Good(s)
  PROVE  /\ s.ActiveInterrupt \in Handlers
         /\ s.ActiveInterrupt \in InterruptId
         /\ s.bUsed[s.ActiveInterrupt]
         /\ s.Cycles[s.ActiveInterrupt] < INT_MAX
         /\ Elapsed(s) \in Nat
         /\ \A h \in Handlers : s.bUsed[h] => s.Cycles[s.ActiveInterrupt] <= s.Cycles[h]
<1> DEFINE a == s.ActiveInterrupt
<1>1. TableOK(s) /\ a = LowestInterrupt(s) /\ VideoRuns(s)
  BY DEF TableOK, SchedulerState, Good, Consistent, VideoRuns
<1>2. PICK v \in Video : s.bUsed[v] /\ s.Cycles[v] < INT_MAX
  BY <1>1 DEF VideoRuns
<1>3. v \in Candidates(s)
  BY <1>2, VideoAssumption DEF Candidates
<1>4. a \in Candidates(s) /\ IsFirst(s, a)
  BY <1>1, <1>3, LowestFacts
<1>5. a \in Handlers /\ a \in InterruptId /\ s.bUsed[a] /\ s.Cycles[a] < INT_MAX
  BY <1>4 DEF Candidates, InterruptId
<1>6. Elapsed(s) \in Nat
  BY <1>5 DEF Elapsed, Good, Consistent, SchedulerState
<1>7. ASSUME NEW h \in Handlers, s.bUsed[h] PROVE s.Cycles[a] <= s.Cycles[h]
  <2>1. s.Cycles[a] \in Int /\ s.Cycles[h] \in Int
    BY <1>1, <1>5 DEF TableOK, InterruptId
  <2>2. CASE s.Cycles[h] < INT_MAX
    <3>1. h \in Candidates(s)
      BY <1>7, <2>2 DEF Candidates
    <3> QED BY <1>4, <2>1, <3>1 DEF IsFirst
  <2>3. CASE ~(s.Cycles[h] < INT_MAX)
    BY <1>5, <2>1, <2>3, IntMaxAssumption
  <2> QED BY <2>2, <2>3
<1> QED BY <1>5, <1>6, <1>7

(* The first half, CycInt_UpdateInterrupt: every entry in use comes closer *)
(* by the time elapsed.                                                    *)
LEMMA UpdateFacts ==
  ASSUME NEW s, Good(s)
  PROVE  /\ Settled(s, CycInt_UpdateInterrupt(s))
         /\ CycInt_UpdateInterrupt(s).ActiveInterrupt = s.ActiveInterrupt
<1> DEFINE e == Elapsed(s)
<1> DEFINE u == CycInt_UpdateInterrupt(s)
<1>1. e \in Nat /\ s \in SchedulerState
  BY GoodFacts DEF Good
<1>2. e = s.Cycles[s.PendingInterruptFunction] - s.PendingInterruptCount
  BY DEF Good, Elapsed
<1> HIDE DEF e
<1>3. u = [s EXCEPT !.nCyclesOver = s.PendingInterruptCount,
                    !.Cycles = [i \in InterruptId |->
                          IF s.bUsed[i] THEN s.Cycles[i] - e ELSE s.Cycles[i]]]
  BY DEF CycInt_UpdateInterrupt, e
<1> HIDE DEF u
<1>3a. [i \in InterruptId |-> IF s.bUsed[i] THEN s.Cycles[i] - e ELSE s.Cycles[i]]
         \in [InterruptId -> Int]
  BY <1>1 DEF SchedulerState
<1>4. u \in SchedulerState /\ u.bUsed = s.bUsed /\ u.ActiveInterrupt = s.ActiveInterrupt
  BY <1>1, <1>3, <1>3a DEF SchedulerState
<1>5. \A i \in InterruptId : u.Cycles[i] = IF s.bUsed[i] THEN s.Cycles[i] - e ELSE s.Cycles[i]
  BY <1>1, <1>3 DEF SchedulerState
<1>6. \A h \in Handlers : u.Cycles[h] = TimeLeft(s)[h]
  BY <1>2, <1>5 DEF TimeLeft, InterruptId
<1>7. VideoRuns(u)
  <2>1. \A h \in Video : h \in InterruptId /\ s.Cycles[h] \in Int
    BY <1>1, VideoAssumption DEF SchedulerState, InterruptId
  <2>2. \A h \in Video : s.bUsed[h] => s.Cycles[h] < INT_MAX
    BY DEF Good, Consistent
  <2>3. \E h \in Video : s.bUsed[h]
    BY DEF Good, Consistent
  <2>4. \A h \in Video : u.bUsed[h] => u.Cycles[h] < INT_MAX
    BY <1>1, <1>4, <1>5, <2>1, <2>2, IntMaxAssumption
  <2> QED BY <1>4, <2>3, <2>4 DEF VideoRuns
<1> QED BY <1>4, <1>6, <1>7 DEF Settled, u

(* The same for the functions that update only if an entry is active. *)
LEMMA UpdateIfActiveFacts ==
  ASSUME NEW s, Good(s)
  PROVE  Settled(s, UpdateIfActive(s))
<1>1. \A h \in Handlers : h > 0
  BY HandlersAssumption
<1>2. s.ActiveInterrupt > 0
  BY <1>1, GoodFacts
<1> QED BY <1>2, UpdateFacts DEF UpdateIfActive

-----------------------------------------------------------------------------
(* One lemma per call: it keeps the scheduler consistent, and what it does *)
(* to the armed timers and to the time they have left.                     *)

(* Switching entry h of an up to date table on with n cycles. *)
LEMMA ArmFacts ==
  ASSUME NEW s, NEW u, Settled(s, u), NEW h \in InterruptId, NEW n \in Int,
         h \in Video => n < INT_MAX,
         NEW t, t = CycInt_SetNewInterrupt(SwitchOn(u, h, n))
  PROVE  /\ Good(t)
         /\ h \in Handlers => Armed(t) = Armed(s) \cup {h}
         /\ h \notin Handlers => Armed(t) = Armed(s)
         /\ \A g \in Handlers \ {h} : TimeLeft(t)[g] = TimeLeft(s)[g]
<1> DEFINE v == SwitchOn(u, h, n)
<1>1. v \in SchedulerState
  BY DEF Settled, SchedulerState, SwitchOn
<1>2. /\ v.bUsed = [u.bUsed EXCEPT ![h] = TRUE]
      /\ v.Cycles = [u.Cycles EXCEPT ![h] = n]
      /\ u.bUsed = s.bUsed
      /\ u.bUsed \in [InterruptId -> BOOLEAN] /\ u.Cycles \in [InterruptId -> Int]
  BY DEF Settled, SchedulerState, SwitchOn
<1>3. VideoRuns(v)
  BY <1>2, VideoAssumption DEF Settled, VideoRuns, InterruptId
<1>4. t = CycInt_SetNewInterrupt(v)
  OBVIOUS
<1> HIDE DEF v
<1>5. Good(t) /\ t.bUsed = v.bUsed /\ \A g \in Handlers : TimeLeft(t)[g] = v.Cycles[g]
  BY <1>1, <1>3, <1>4, SetNewFacts
<1>6. \A g \in Handlers \ {h} : TimeLeft(t)[g] = TimeLeft(s)[g]
  BY <1>2, <1>5 DEF Settled, InterruptId
<1>7. \A g \in Handlers : t.bUsed[g] <=> (g = h \/ s.bUsed[g])
  BY <1>2, <1>5 DEF InterruptId
<1> QED BY <1>5, <1>6, <1>7 DEF Armed

(* Switching entry h of an up to date table off. *)
LEMMA DisarmFacts ==
  ASSUME NEW s, NEW u, Settled(s, u), NEW h \in InterruptId, VideoPending(s, h),
         NEW t, t = CycInt_SetNewInterrupt(SwitchOff(u, h))
  PROVE  /\ Good(t)
         /\ Elapsed(t) = 0
         /\ t.Cycles = u.Cycles
         /\ Armed(t) = Armed(s) \ {h}
         /\ TimeLeft(t) = TimeLeft(s)
<1> DEFINE v == SwitchOff(u, h)
<1>1. v \in SchedulerState
  BY DEF Settled, SchedulerState, SwitchOff
<1>2. /\ v.bUsed = [u.bUsed EXCEPT ![h] = FALSE]
      /\ v.Cycles = u.Cycles
      /\ u.bUsed = s.bUsed
      /\ u.bUsed \in [InterruptId -> BOOLEAN] /\ u.Cycles \in [InterruptId -> Int]
  BY DEF Settled, SchedulerState, SwitchOff
<1>3. VideoRuns(v)
  BY <1>2, VideoAssumption DEF Settled, VideoRuns, InterruptId, VideoPending
<1>4. t = CycInt_SetNewInterrupt(v)
  OBVIOUS
<1> HIDE DEF v
<1>5. /\ Good(t) /\ t.bUsed = v.bUsed /\ t.Cycles = v.Cycles
      /\ Elapsed(t) = 0
      /\ \A g \in Handlers : TimeLeft(t)[g] = v.Cycles[g]
  BY <1>1, <1>3, <1>4, SetNewFacts
<1>7. \A g \in Handlers : TimeLeft(t)[g] = TimeLeft(s)[g]
  <2>1. \A g \in Handlers : u.Cycles[g] = TimeLeft(s)[g]
    BY DEF Settled
  <2>2. TAKE g \in Handlers
  <2>3. TimeLeft(t)[g] = u.Cycles[g]
    BY <1>2, <1>5
  <2> QED BY <2>1, <2>3
<1>8. TimeLeft(t) = TimeLeft(s)
  BY <1>7 DEF TimeLeft
<1>9. \A g \in Handlers : t.bUsed[g] <=> (g # h /\ s.bUsed[g])
  BY <1>2, <1>5 DEF InterruptId
<1> QED BY <1>2, <1>5, <1>8, <1>9 DEF Armed

(* The CPU: PendingInterruptCount goes down, the table stays. *)
LEMMA AddCyclesFacts ==
  ASSUME NEW s, Good(s), NEW c \in Nat
  PROVE  /\ Good(M68000_AddCycles(s, c))
         /\ Armed(M68000_AddCycles(s, c)) = Armed(s)
         /\ \E d \in Nat : \A h \in Handlers :
              TimeLeft(M68000_AddCycles(s, c))[h] =
                IF s.bUsed[h] THEN TimeLeft(s)[h] - d ELSE TimeLeft(s)[h]
<1> DEFINE d == INT_CONVERT_TO_INTERNAL(RoundUpTo4(c), "CPU")
<1> DEFINE t == M68000_AddCycles(s, c)
<1>1. d \in Nat
  <2>1. RoundUpTo4(c) \in Nat
    BY DEF RoundUpTo4
  <2> HIDE DEF RoundUpTo4
  <2> QED BY <2>1, FactorAssumption DEF INT_CONVERT_TO_INTERNAL
<1>2. t = [s EXCEPT !.PendingInterruptCount = s.PendingInterruptCount - d]
  BY DEF M68000_AddCycles
<1> HIDE DEF d, t
<1>3. /\ t \in SchedulerState
      /\ t.bUsed = s.bUsed /\ t.Cycles = s.Cycles
      /\ t.ActiveInterrupt = s.ActiveInterrupt
      /\ t.PendingInterruptFunction = s.PendingInterruptFunction
      /\ t.PendingInterruptCount = s.PendingInterruptCount - d
  BY <1>1, <1>2 DEF Good, SchedulerState
<1>4. LowestInterrupt(t) = LowestInterrupt(s)
  BY <1>3, SameLowest DEF TableOK, SchedulerState, Good
<1>5. /\ s.PendingInterruptCount \in Int
      /\ s.PendingInterruptFunction \in InterruptId
      /\ \A i \in InterruptId : s.Cycles[i] \in Int
  BY DEF Good, SchedulerState
<1>6. Good(t)
  BY <1>1, <1>3, <1>4, <1>5 DEF Good, Consistent
<1>7. \A h \in Handlers :
        TimeLeft(t)[h] = IF s.bUsed[h] THEN TimeLeft(s)[h] - d ELSE TimeLeft(s)[h]
  BY <1>1, <1>3, <1>5 DEF TimeLeft, InterruptId
<1> QED BY <1>1, <1>3, <1>6, <1>7 DEF Armed, t

(* MFP_StartTimer: remove, then resume.  Nothing elapses in between, so the *)
(* subtraction of CycInt_ResumeStoppedInterrupt takes nothing away.         *)
LEMMA ResumeFacts ==
  ASSUME NEW s, Good(s), NEW h \in Handlers \ Video,
         NEW t, t = CycInt_ResumeStoppedInterrupt(CycInt_RemovePendingInterrupt(s, h), h)
  PROVE  /\ Good(t)
         /\ Armed(t) = Armed(s) \cup {h}
         /\ TimeLeft(t) = TimeLeft(s)
<1> DEFINE u == CycInt_UpdateInterrupt(s)
<1> DEFINE r == CycInt_RemovePendingInterrupt(s, h)
<1> DEFINE w == [r EXCEPT !.bUsed[h] = TRUE]
<1> DEFINE x == CycInt_UpdateInterrupt(w)
<1>1. h \in InterruptId /\ Settled(s, u)
  BY UpdateFacts DEF InterruptId
<1>2. r = CycInt_SetNewInterrupt(SwitchOff(u, h))
  BY DEF CycInt_RemovePendingInterrupt, SwitchOff
<1>3. t = CycInt_SetNewInterrupt(x)
  BY DEF CycInt_ResumeStoppedInterrupt
<1>4. VideoPending(s, h)
  BY DEF Good, Consistent, VideoPending
<1> HIDE DEF r, u
<1>5. /\ Good(r) /\ Elapsed(r) = 0 /\ r.Cycles = u.Cycles
      /\ Armed(r) = Armed(s) \ {h} /\ TimeLeft(r) = TimeLeft(s)
  BY <1>1, <1>2, <1>4, DisarmFacts
<1>6. /\ w \in SchedulerState
      /\ w.bUsed = [r.bUsed EXCEPT ![h] = TRUE]
      /\ w.Cycles = r.Cycles
      /\ w.ActiveInterrupt = r.ActiveInterrupt
      /\ w.PendingInterruptCount = r.PendingInterruptCount
  BY <1>1, <1>5 DEF Good, SchedulerState
<1>7. Elapsed(w) = 0
  BY <1>5, <1>6 DEF Elapsed
<1> HIDE DEF w
<1>8. x \in SchedulerState /\ x.Cycles = r.Cycles /\ x.bUsed = [r.bUsed EXCEPT ![h] = TRUE]
  BY <1>6, <1>7, UpdateNothing
<1> HIDE DEF x
<1>9. r.bUsed \in [InterruptId -> BOOLEAN]
  BY <1>5 DEF Good, SchedulerState
<1>10. \A g \in Handlers : x.bUsed[g] <=> (g = h \/ r.bUsed[g])
  BY <1>8, <1>9 DEF InterruptId
<1>11. VideoRuns(x)
  <2>1. /\ \E v \in Video : r.bUsed[v]
        /\ \A v \in Video : r.bUsed[v] => r.Cycles[v] < INT_MAX
    BY <1>5 DEF Good, Consistent
  <2> QED BY <1>8, <1>10, <2>1, VideoAssumption DEF VideoRuns
<1>12. /\ Good(t) /\ t.bUsed = x.bUsed
       /\ \A g \in Handlers : TimeLeft(t)[g] = x.Cycles[g]
  BY <1>3, <1>8, <1>11, SetNewFacts
<1>13. Armed(t) = Armed(r) \cup {h}
  BY <1>10, <1>12 DEF Armed
<1>14. \A g \in Handlers : TimeLeft(t)[g] = TimeLeft(s)[g]
  <2>1. \A g \in Handlers : u.Cycles[g] = TimeLeft(s)[g]
    BY <1>1 DEF Settled
  <2> QED BY <1>5, <1>8, <1>12, <2>1
<1>15. TimeLeft(t) = TimeLeft(s)
  BY <1>14 DEF TimeLeft
<1>16. Armed(t) = Armed(s) \cup {h}
  BY <1>5, <1>13 DEF Armed
<1> QED BY <1>12, <1>15, <1>16

(* A video handler: acknowledge, then start video entry v with n cycles.   *)
(* In between no entry may be active, but nothing elapses either.          *)
LEMMA VideoHandlerFacts ==
  ASSUME NEW s, Good(s), NEW v \in Video, NEW n \in Int, n < INT_MAX,
         NEW t, t = CycInt_SetNewInterrupt(
                      SwitchOn(UpdateIfActive(CycInt_AcknowledgeInterrupt(s)), v, n))
  PROVE  /\ Good(t)
         /\ Armed(t) = (Armed(s) \ {s.ActiveInterrupt}) \cup {v}
         /\ \A g \in Handlers \ {v} : TimeLeft(t)[g] = TimeLeft(s)[g]
<1> DEFINE h == s.ActiveInterrupt
<1> DEFINE u == CycInt_UpdateInterrupt(s)
<1> DEFINE w == SwitchOff(u, h)
<1> DEFINE a == CycInt_AcknowledgeInterrupt(s)
<1> DEFINE x == UpdateIfActive(a)
<1> DEFINE y == SwitchOn(x, v, n)
<1>1. h \in InterruptId /\ Settled(s, u) /\ v \in Handlers /\ v \in InterruptId
  BY GoodFacts, UpdateFacts, VideoAssumption DEF InterruptId
<1>2. a = CycInt_SetNewInterrupt(w)
  BY DEF CycInt_AcknowledgeInterrupt, SwitchOff
<1> HIDE DEF h, u
<1>3. /\ w \in SchedulerState /\ w.Cycles = u.Cycles
      /\ w.bUsed = [u.bUsed EXCEPT ![h] = FALSE]
      /\ u.bUsed = s.bUsed /\ u.bUsed \in [InterruptId -> BOOLEAN]
      /\ u.Cycles \in [InterruptId -> Int]
  BY <1>1 DEF Settled, SchedulerState, SwitchOff
<1> HIDE DEF w, a
<1>4. a \in SchedulerState /\ a.bUsed = w.bUsed /\ a.Cycles = w.Cycles /\ Elapsed(a) = 0
  BY <1>2, <1>3, SetNewTable
<1>5. x \in SchedulerState /\ x.bUsed = w.bUsed /\ x.Cycles = u.Cycles
  BY <1>3, <1>4, UpdateNothing DEF UpdateIfActive
<1> HIDE DEF x
<1>6. /\ y \in SchedulerState
      /\ y.bUsed = [x.bUsed EXCEPT ![v] = TRUE]
      /\ y.Cycles = [x.Cycles EXCEPT ![v] = n]
  BY <1>1, <1>5 DEF SwitchOn, SchedulerState
<1>7. t = CycInt_SetNewInterrupt(y)
  BY DEF y, x, a
<1> HIDE DEF y
<1>8. \A g \in Handlers : y.bUsed[g] <=> (g = v \/ (g # h /\ s.bUsed[g]))
  BY <1>1, <1>3, <1>5, <1>6 DEF InterruptId
<1>9. y.Cycles[v] = n /\ \A g \in Handlers \ {v} : y.Cycles[g] = u.Cycles[g]
  BY <1>1, <1>3, <1>5, <1>6 DEF InterruptId
<1>10. VideoRuns(y)
  <2>1. \A g \in Video : s.bUsed[g] => u.Cycles[g] < INT_MAX
    BY <1>1, <1>3 DEF Settled, VideoRuns
  <2> QED BY <1>8, <1>9, <2>1, VideoAssumption DEF VideoRuns
<1>11. /\ Good(t) /\ t.bUsed = y.bUsed
       /\ \A g \in Handlers : TimeLeft(t)[g] = y.Cycles[g]
  <2>1. y \in SchedulerState
    BY <1>6
  <2> QED BY <1>7, <1>10, <2>1, SetNewFacts
<1>12. \A g \in Handlers : u.Cycles[g] = TimeLeft(s)[g]
  BY <1>1 DEF Settled
<1>13. Armed(t) = (Armed(s) \ {h}) \cup {v}
  BY <1>1, <1>8, <1>11 DEF Armed
<1> QED BY <1>9, <1>11, <1>12, <1>13 DEF h

(* Reset_ST: only a video entry is armed, with its delay. *)
LEMMA ResetFacts ==
  ASSUME VideoFits, NEW s \in SchedulerState, NEW v \in Video, NEW d \in VideoDelays
  PROVE  Good(Reset_ST(s, v, d)) /\ Armed(Reset_ST(s, v, d)) = {v}
<1> DEFINE r == CycInt_Reset(s)
<1> DEFINE n == INT_CONVERT_TO_INTERNAL(d[1], d[2]) + 0
<1>1. /\ r \in SchedulerState /\ r.ActiveInterrupt = 0
      /\ \A i \in InterruptId : r.bUsed[i] = FALSE
  <2>1. INT_MAX \in Int /\ 0 \in InterruptId
    BY IntMaxAssumption DEF InterruptId, INTERRUPT_NULL
  <2> DEFINE fb == [i \in InterruptId |-> FALSE]
  <2> DEFINE fc == [i \in InterruptId |-> INT_MAX]
  <2>2. /\ fb \in [InterruptId -> BOOLEAN] /\ fc \in [InterruptId -> Int]
        /\ \A i \in InterruptId : fb[i] = FALSE
    BY <2>1
  <2>3. r = [s EXCEPT !.PendingInterruptCount = 0, !.ActiveInterrupt = 0, !.nCyclesOver = 0,
                      !.bUsed = fb, !.Cycles = fc]
    BY DEF CycInt_Reset, INTERRUPT_NULL
  <2> HIDE DEF fb, fc, r
  <2>4. r.ActiveInterrupt = 0 /\ r.bUsed = fb
    BY <2>3 DEF SchedulerState
  <2>5. r \in SchedulerState
    <3>1. r = [ bUsed |-> fb, Cycles |-> fc, PendingInterruptCount |-> 0,
                PendingInterruptFunction |-> s.PendingInterruptFunction,
                ActiveInterrupt |-> 0, nCyclesOver |-> 0 ]
      BY <2>3 DEF SchedulerState
    <3>2. s.PendingInterruptFunction \in InterruptId
      BY DEF SchedulerState
    <3> QED BY <2>1, <2>2, <3>1, <3>2 DEF SchedulerState
  <2> QED BY <2>2, <2>4, <2>5
<1>2. UpdateIfActive(r) = r
  BY <1>1 DEF UpdateIfActive
<1>3. d[1] \in Int /\ d[2] \in CycleType /\ Delay(d) < INT_MAX
  BY DelaysAssumption DEF VideoFits
<1>4. INT_CONVERT_TO_INTERNAL(d[1], d[2]) \in Int
  BY <1>3, DelayType
<1>5. n \in Int /\ n < INT_MAX
  BY <1>3, <1>4 DEF Delay
<1> DEFINE y == SwitchOn(r, v, n)
<1>6. Reset_ST(s, v, d) = CycInt_SetNewInterrupt(y)
  BY <1>2 DEF Reset_ST, CycInt_AddRelativeInterrupt, CycInt_AddRelativeInterruptWithOffset,
              SwitchOn
<1> HIDE DEF r, n
<1>7. v \in Handlers /\ v \in InterruptId /\ \A g \in Handlers : g \in InterruptId
  BY VideoAssumption DEF InterruptId
<1>8. /\ y \in SchedulerState
      /\ y.bUsed = [r.bUsed EXCEPT ![v] = TRUE] /\ r.bUsed \in [InterruptId -> BOOLEAN]
      /\ y.Cycles = [r.Cycles EXCEPT ![v] = n] /\ r.Cycles \in [InterruptId -> Int]
  BY <1>1, <1>5, <1>7 DEF SwitchOn, SchedulerState
<1> HIDE DEF y
<1>9. y.Cycles[v] = n /\ \A g \in Handlers : y.bUsed[g] <=> g = v
  BY <1>1, <1>7, <1>8
<1>10. VideoRuns(y)
  BY <1>5, <1>9, VideoAssumption DEF VideoRuns
<1>11. Good(Reset_ST(s, v, d)) /\ Armed(Reset_ST(s, v, d)) = Armed(y)
  BY <1>6, <1>8, <1>10, SetNewFacts
<1>12. Armed(y) = {v}
  BY <1>7, <1>9 DEF Armed
<1> QED BY <1>11, <1>12

-----------------------------------------------------------------------------
(* A step of the specification, seen on the timers alone. *)

SnapOK(p) == p = NoSnapshot \/ (p \in Snapshot /\ Consistent(p))

IInv == TypeOK /\ SchedulerInv

(* The inductive invariant in the form the lemmas use. *)
LEMMA IInvForm == IInv <=> Good(cyc) /\ SnapOK(snap) /\ bQuitProgram \in BOOLEAN
  BY NoSnapshotAssumption DEF IInv, TypeOK, SchedulerInv, Good, SnapOK

(* In a good state every timer has a well-defined time left. *)
LEMMA TimeLeftType ==
  ASSUME NEW s, Good(s)
  PROVE  TimeLeft(s) \in [Handlers -> Int]
<1>1. /\ s.Cycles \in [InterruptId -> Int] /\ s.PendingInterruptCount \in Int
      /\ s.PendingInterruptFunction \in InterruptId
  BY DEF Good, SchedulerState
<1> QED BY <1>1 DEF TimeLeft, InterruptId

(* The relation of an abstract step between two scheduler states: timer h  *)
(* gets a new time and every other timer is left alone.                    *)
ArmsOnly(s, t, h) ==
  /\ Good(t)
  /\ Armed(t) = Armed(s) \cup {h}
  /\ \A g \in Handlers \ {h} : TimeLeft(t)[g] = TimeLeft(s)[g]

(* Starting timer h arms h and leaves the time left of the others alone. *)
LEMMA StartFacts ==
  ASSUME NEW s, Good(s), NEW h \in Handlers, NEW d \in Nat \X CycleType, NEW o \in Int,
         h \in Video => Delay(d) + o < INT_MAX
  PROVE  ArmsOnly(s, CycInt_AddRelativeInterruptWithOffset(s, d[1], d[2], h, o), h)
<1> DEFINE n == INT_CONVERT_TO_INTERNAL(d[1], d[2]) + o
<1>1. d[1] \in Int /\ d[2] \in CycleType
  OBVIOUS
<1>2. INT_CONVERT_TO_INTERNAL(d[1], d[2]) \in Int
  BY <1>1, DelayType
<1>3. n \in Int /\ (h \in Video => n < INT_MAX)
  BY <1>1, <1>2 DEF Delay
<1>4. CycInt_AddRelativeInterruptWithOffset(s, d[1], d[2], h, o)
        = CycInt_SetNewInterrupt(SwitchOn(UpdateIfActive(s), h, n))
  BY DEF CycInt_AddRelativeInterruptWithOffset, SwitchOn
<1> HIDE DEF n
<1>5. Settled(s, UpdateIfActive(s)) /\ h \in InterruptId
  BY UpdateIfActiveFacts DEF InterruptId
<1> QED BY <1>3, <1>4, <1>5, ArmFacts DEF ArmsOnly

(* The calls of the specification that start a timer. *)
LEMMA StartTimerFacts ==
  ASSUME NEW s, Good(s), NEW h \in Handlers \ Video, NEW d \in Delays, NEW o \in Offsets
  PROVE  ArmsOnly(s, CycInt_AddRelativeInterruptWithOffset(s, d[1], d[2], h, o), h)
<1>1. d \in Nat \X CycleType /\ o \in Int
  BY DelaysAssumption
<1> QED BY <1>1, StartFacts

(* A delay of the video part fits into the counter. *)
LEMMA VideoDelayFacts ==
  ASSUME VideoFits, NEW d \in VideoDelays
  PROVE  /\ d \in Nat \X CycleType
         /\ INT_CONVERT_TO_INTERNAL(d[1], d[2]) + 0 \in Int
         /\ INT_CONVERT_TO_INTERNAL(d[1], d[2]) + 0 < INT_MAX
<1>1. d \in Nat \X CycleType /\ Delay(d) < INT_MAX
  BY DelaysAssumption DEF VideoFits
<1>2. d[1] \in Int /\ d[2] \in CycleType
  BY <1>1
<1>3. INT_CONVERT_TO_INTERNAL(d[1], d[2]) \in Int
  BY <1>2, DelayType
<1>4. INT_CONVERT_TO_INTERNAL(d[1], d[2]) < INT_MAX
  BY <1>1 DEF Delay
<1> HIDE DEF INT_CONVERT_TO_INTERNAL
<1> QED BY <1>1, <1>3, <1>4

(* Starting a video entry. *)
LEMMA StartVideoFacts ==
  ASSUME VideoFits, NEW s, Good(s), NEW v \in Video, NEW d \in VideoDelays
  PROVE  ArmsOnly(s, CycInt_AddRelativeInterrupt(s, d[1], d[2], v), v)
<1>1. d \in Nat \X CycleType /\ Delay(d) + 0 < INT_MAX /\ v \in Handlers
  BY VideoDelayFacts, VideoAssumption DEF Delay
<1> QED BY <1>1, StartFacts DEF CycInt_AddRelativeInterrupt

(* A video handler that starts the next video entry. *)
LEMMA CallVideoFacts ==
  ASSUME VideoFits, NEW s, Good(s), NEW v \in Video, NEW d \in VideoDelays,
         NEW t, t = CycInt_AddRelativeInterrupt(CycInt_AcknowledgeInterrupt(s), d[1], d[2], v)
  PROVE  /\ Good(t)
         /\ Armed(t) = (Armed(s) \ {s.ActiveInterrupt}) \cup {v}
         /\ \A g \in Handlers \ {v} : TimeLeft(t)[g] = TimeLeft(s)[g]
<1> DEFINE n == INT_CONVERT_TO_INTERNAL(d[1], d[2]) + 0
<1>1. n \in Int /\ n < INT_MAX
  BY VideoDelayFacts
<1>2. t = CycInt_SetNewInterrupt(
            SwitchOn(UpdateIfActive(CycInt_AcknowledgeInterrupt(s)), v, n))
  BY DEF CycInt_AddRelativeInterrupt, CycInt_AddRelativeInterruptWithOffset, SwitchOn
<1> HIDE DEF n
<1> QED BY <1>1, <1>2, VideoHandlerFacts

(* Modifying a running timer is arming it with another time. *)
LEMMA ModifyFacts ==
  ASSUME NEW s, Good(s), NEW n \in Int, s.bUsed[Vbl],
         CyclesLeft(s, Vbl) + INT_CONVERT_TO_INTERNAL(n, "CPU") \in 0 .. (INT_MAX - 1)
  PROVE  ArmsOnly(s, CycInt_ModifyInterrupt(s, n, "CPU", Vbl), Vbl)
<1> DEFINE u == UpdateIfActive(s)
<1> DEFINE k == u.Cycles[Vbl] + INT_CONVERT_TO_INTERNAL(n, "CPU")
<1>1. Settled(s, u) /\ Vbl \in Handlers /\ Vbl \in InterruptId
  BY UpdateIfActiveFacts, VideoAssumption DEF InterruptId
<1>2. u.bUsed[Vbl] /\ u.Cycles[Vbl] = CyclesLeft(s, Vbl)
  BY <1>1 DEF Settled, TimeLeft, CyclesLeft, Elapsed, Good
<1> HIDE DEF u
<1>3. k \in Int /\ k < INT_MAX
  BY <1>2, IntMaxAssumption
<1>4. u \in SchedulerState
  BY <1>1 DEF Settled
<1>5. CycInt_ModifyInterrupt(s, n, "CPU", Vbl)
        = CycInt_SetNewInterrupt([u EXCEPT !.Cycles[Vbl] = k])
  BY DEF CycInt_ModifyInterrupt, u
<1> HIDE DEF k
<1>6. [u EXCEPT !.Cycles[Vbl] = k] = SwitchOn(u, Vbl, k)
  <2>1. [u.bUsed EXCEPT ![Vbl] = TRUE] = u.bUsed
    BY <1>1, <1>2, <1>4 DEF SchedulerState
  <2> QED BY <1>4, <2>1 DEF SwitchOn, SchedulerState
<1> QED BY <1>1, <1>3, <1>5, <1>6, ArmFacts DEF ArmsOnly

(* Stopping timer h, by hand or by acknowledging it. *)
LEMMA StopFacts ==
  ASSUME NEW s, Good(s), NEW h \in InterruptId, VideoPending(s, h), NEW t,
         \/ t = CycInt_RemovePendingInterrupt(s, h)
         \/ h = s.ActiveInterrupt /\ t = CycInt_AcknowledgeInterrupt(s)
  PROVE  Good(t) /\ Armed(t) = Armed(s) \ {h} /\ TimeLeft(t) = TimeLeft(s)
<1>1. t = CycInt_SetNewInterrupt(SwitchOff(CycInt_UpdateInterrupt(s), h))
  BY DEF CycInt_RemovePendingInterrupt, CycInt_AcknowledgeInterrupt, SwitchOff
<1>2. Settled(s, CycInt_UpdateInterrupt(s))
  BY UpdateFacts
<1> QED BY <1>1, <1>2, DisarmFacts

(* The quit request touches no timer. *)
LEMMA QuitFacts ==
  ASSUME NEW s, Good(s), NEW t,
         t = CycInt_AddAbsoluteInterrupt(s, 4, "CPU", INTERRUPT_NULL)
  PROVE  Good(t) /\ Armed(t) = Armed(s) /\ TimeLeft(t) = TimeLeft(s)
<1> DEFINE u == UpdateIfActive(s)
<1> DEFINE n == INT_CONVERT_TO_INTERNAL(4, "CPU") + u.nCyclesOver
<1>1. /\ Settled(s, u) /\ INTERRUPT_NULL \in InterruptId
      /\ INTERRUPT_NULL \notin Handlers /\ INTERRUPT_NULL \notin Video
  BY UpdateIfActiveFacts, HandlersAssumption, VideoAssumption DEF InterruptId, INTERRUPT_NULL
<1>2. n \in Int
  <2>1. INT_CONVERT_TO_INTERNAL(4, "CPU") \in Int
    BY DelayType DEF CycleType
  <2> QED BY <1>1, <2>1 DEF Settled, SchedulerState
<1>3. t = CycInt_SetNewInterrupt(SwitchOn(u, INTERRUPT_NULL, n))
  BY DEF CycInt_AddAbsoluteInterrupt, SwitchOn
<1> HIDE DEF n, u, INTERRUPT_NULL
<1>4. /\ Good(t) /\ Armed(t) = Armed(s)
      /\ \A g \in Handlers \ {INTERRUPT_NULL} : TimeLeft(t)[g] = TimeLeft(s)[g]
  BY <1>1, <1>2, <1>3, ArmFacts
<1>5. \A g \in Handlers : TimeLeft(t)[g] = TimeLeft(s)[g]
  BY <1>1, <1>4
<1> QED BY <1>4, <1>5 DEF TimeLeft

(* The handler that quits lets its own timer go off, and touches no other. *)
LEMMA CallQuitFacts ==
  ASSUME NEW s, Good(s), s.PendingInterruptFunction \notin Video, NEW t,
         t = CycInt_AddAbsoluteInterrupt(CycInt_AcknowledgeInterrupt(s), 4, "CPU", INTERRUPT_NULL)
  PROVE  Good(t) /\ Armed(t) = Armed(s) \ {s.ActiveInterrupt} /\ TimeLeft(t) = TimeLeft(s)
<1> DEFINE a == CycInt_AcknowledgeInterrupt(s)
<1>1. s.ActiveInterrupt \in InterruptId /\ s.ActiveInterrupt \notin Video
  BY GoodFacts DEF Good
<1>2. VideoPending(s, s.ActiveInterrupt)
  BY <1>1 DEF VideoPending, Good, Consistent
<1>3. Good(a) /\ Armed(a) = Armed(s) \ {s.ActiveInterrupt} /\ TimeLeft(a) = TimeLeft(s)
  BY <1>1, <1>2, StopFacts
<1> QED BY <1>3, QuitFacts

(* A snapshot holds the table, the counter and the function as they are. *)
LEMMA SaveFacts ==
  ASSUME NEW s, Good(s), NEW p, p = CycInt_Save(s)
  PROVE  /\ p \in Snapshot /\ Consistent(p) /\ p # NoSnapshot
         /\ Armed(p) = Armed(s) /\ TimeLeft(p) = TimeLeft(s)
<1>1. /\ p \in Snapshot
      /\ p.bUsed = s.bUsed /\ p.Cycles = s.Cycles
      /\ p.PendingInterruptCount = s.PendingInterruptCount
      /\ p.PendingInterruptFunction = s.PendingInterruptFunction
  BY DEF CycInt_Save, Snapshot, Good, SchedulerState
<1>2. LowestInterrupt(p) = LowestInterrupt(s)
  BY <1>1, SameLowest DEF TableOK, Good, SchedulerState
<1>3. Consistent(p)
  BY <1>1, <1>2 DEF Consistent, Good
<1> QED BY <1>1, <1>3, NoSnapshotAssumption DEF Armed, TimeLeft

(* Restoring gives every running timer back the time it had when the table *)
(* was last brought up to date before the save: all late by the same time. *)
LEMMA RestoreFacts ==
  ASSUME NEW s \in SchedulerState, NEW p \in Snapshot, Consistent(p),
         NEW t, t = CycInt_Restore(s, p)
  PROVE  /\ Good(t) /\ Armed(t) = Armed(p)
         /\ TimeLeft(p) \in [Handlers -> Int]
         /\ \E e \in Nat : \A h \in Handlers :
              TimeLeft(t)[h] = IF p.bUsed[h] THEN TimeLeft(p)[h] + e ELSE TimeLeft(p)[h]
<1> DEFINE x == [ bUsed |-> p.bUsed, Cycles |-> p.Cycles,
                  PendingInterruptCount |-> p.PendingInterruptCount,
                  PendingInterruptFunction |-> p.PendingInterruptFunction,
                  ActiveInterrupt |-> s.ActiveInterrupt,
                  nCyclesOver |-> p.nCyclesOver ]
<1> DEFINE e == p.Cycles[p.PendingInterruptFunction] - p.PendingInterruptCount
<1>1. x \in SchedulerState /\ x.bUsed = p.bUsed /\ x.Cycles = p.Cycles
  BY DEF Snapshot, SchedulerState
<1>2. t = CycInt_SetNewInterrupt(x)
  BY DEF CycInt_Restore
<1> HIDE DEF x
<1>3. VideoRuns(x)
  BY <1>1 DEF VideoRuns, Consistent
<1>4. /\ Good(t) /\ t.bUsed = p.bUsed
      /\ \A h \in Handlers : TimeLeft(t)[h] = p.Cycles[h]
  BY <1>1, <1>2, <1>3, SetNewFacts
<1>5. /\ p.PendingInterruptFunction \in InterruptId /\ p.PendingInterruptCount \in Int
      /\ p.Cycles \in [InterruptId -> Int] /\ e \in Nat
  BY DEF Snapshot, Consistent
<1>6. \A h \in Handlers : p.Cycles[h] \in Int
  BY <1>5 DEF InterruptId
<1> HIDE DEF e
<1>7. \A h \in Handlers :
        TimeLeft(p)[h] = IF p.bUsed[h] THEN p.Cycles[h] - e ELSE p.Cycles[h]
  BY DEF TimeLeft, e
<1>8. TimeLeft(p) \in [Handlers -> Int]
  <2>1. TimeLeft(p) = [h \in Handlers |-> IF p.bUsed[h] THEN p.Cycles[h] - e ELSE p.Cycles[h]]
    BY DEF TimeLeft, e
  <2> QED BY <1>5, <1>6, <2>1
<1>9. \A h \in Handlers :
        TimeLeft(t)[h] = IF p.bUsed[h] THEN TimeLeft(p)[h] + e ELSE TimeLeft(p)[h]
  BY <1>4, <1>5, <1>6, <1>7
<1>10. Armed(t) = Armed(p)
  BY <1>4 DEF Armed
<1> QED BY <1>4, <1>5, <1>8, <1>9, <1>10

-----------------------------------------------------------------------------
(* The inductive invariant. *)

(* The machine as Reset_ST leaves it satisfies the inductive invariant. *)
LEMMA InitGood == VideoFits /\ Init => IInv
<1> SUFFICES ASSUME VideoFits, Init PROVE IInv
  OBVIOUS
<1>1. PICK v \in Video, d \in VideoDelays : cyc = Reset_ST(Zeroed, v, d)
  BY DEF Init
<1>2. Zeroed \in SchedulerState
  BY DEF Zeroed, SchedulerState, InterruptId, INTERRUPT_NULL
<1>3. Good(cyc)
  BY <1>1, <1>2, ResetFacts
<1> QED BY <1>3, IInvForm DEF Init, SnapOK

(* Each action keeps the scheduler and the snapshot consistent. *)
LEMMA StepGood == VideoFits /\ IInv /\ [Next]_vars => IInv'
<1> SUFFICES ASSUME VideoFits, IInv, [Next]_vars PROVE IInv'
  OBVIOUS
<1> DEFINE Kept == Good(cyc') /\ SnapOK(snap') /\ bQuitProgram' \in BOOLEAN
<1>1. Good(cyc) /\ SnapOK(snap) /\ bQuitProgram \in BOOLEAN /\ cyc \in SchedulerState
  BY IInvForm DEF Good
<1>2. SUFFICES Kept
  BY NoSnapshotAssumption DEF IInv, TypeOK, SchedulerInv, Good, SnapOK
<1>3. ASSUME NEW c \in InstrCycles, AddCycles(c) PROVE Kept
  BY <1>1, <1>3, AddCyclesFacts, CpuAssumption DEF AddCycles
<1>4. CASE CallHandler
  <2>1. cyc.PendingInterruptFunction = cyc.ActiveInterrupt
    BY <1>1 DEF Good
  <2> QED BY <1>1, <1>4, <2>1, StopFacts, GoodFacts DEF CallHandler
<1>5. ASSUME NEW v \in Video, NEW d \in VideoDelays, CallVideoHandler(v, d) PROVE Kept
  BY <1>1, <1>5, CallVideoFacts DEF CallVideoHandler
<1>6. ASSUME NEW v \in Video, NEW d \in VideoDelays, StartVideo(v, d) PROVE Kept
  BY <1>1, <1>6, StartVideoFacts DEF StartVideo, ArmsOnly
<1>7. ASSUME NEW h \in Handlers \ Video, NEW d \in Delays, NEW o \in Offsets, StartTimer(h, d, o)
      PROVE  Kept
  BY <1>1, <1>7, StartTimerFacts DEF StartTimer, ArmsOnly
<1>8. ASSUME NEW h \in Handlers \ Video, StopTimer(h) PROVE Kept
  <2>1. VideoPending(cyc, h) /\ h \in InterruptId
    BY <1>1 DEF VideoPending, Good, Consistent, InterruptId
  <2> QED BY <1>1, <1>8, <2>1, StopFacts DEF StopTimer
<1>9. ASSUME NEW h \in MfpTimers, ResumeTimer(h) PROVE Kept
  BY <1>1, <1>9, ResumeFacts, VideoAssumption DEF ResumeTimer
<1>10. ASSUME NEW n \in LineChanges, ModifyVbl(n) PROVE Kept
  BY <1>1, <1>10, ModifyFacts, LineChangesAssumption DEF ModifyVbl, ArmsOnly, CycInt_InterruptActive
<1>11. CASE CallQuitHandler
  BY <1>1, <1>11, CallQuitFacts DEF CallQuitHandler
<1>12. ASSUME NEW v \in Video, NEW d \in VideoDelays, ResetMachine(v, d) PROVE Kept
  BY <1>1, <1>12, ResetFacts DEF ResetMachine
<1>13. CASE SaveSnapshot
  BY <1>1, <1>13, SaveFacts DEF SaveSnapshot, SnapOK
<1>14. CASE RestoreSnapshot
  BY <1>1, <1>14, RestoreFacts DEF RestoreSnapshot, SnapOK
<1>15. CASE UNCHANGED vars
  BY <1>1, <1>15 DEF vars
<1> QED BY <1>3, <1>4, <1>5, <1>6, <1>7, <1>8, <1>9, <1>10, <1>11, <1>12, <1>13, <1>14, <1>15
        DEF Next

(* Every reachable scheduler state has the types of cycInt.c and keeps its *)
(* globals, ActiveInterrupt and the table in step.                         *)
THEOREM SchedulerCorrect == ASSUME VideoFits PROVE Spec => [](TypeOK /\ SchedulerInv)
<1>1. Init => IInv
  BY InitGood
<1>2. IInv /\ [Next]_vars => IInv'
  BY StepGood
<1>3. IInv => TypeOK /\ SchedulerInv
  BY DEF IInv
<1> QED BY <1>1, <1>2, <1>3, PTL DEF Spec

(* No call sequence makes the CPU loop overlook a timer that is due, or    *)
(* call the handler of one that is not.                                    *)
THEOREM NoTimerMissed == ASSUME VideoFits PROVE Spec => []NoExpiredTimerMissed
<1>1. IInv => NoExpiredTimerMissed
  <2> SUFFICES ASSUME IInv, NEW h \in Handlers, cyc.bUsed[h], CyclesLeft(cyc, h) <= 0
               PROVE  /\ HandlerIsDue(cyc)
                      /\ cyc.bUsed[cyc.PendingInterruptFunction]
                      /\ \A g \in Handlers : cyc.bUsed[g] =>
                           CyclesLeft(cyc, cyc.PendingInterruptFunction) <= CyclesLeft(cyc, g)
    BY DEF NoExpiredTimerMissed
  <2> DEFINE a == cyc.ActiveInterrupt
  <2>1. Good(cyc) /\ a = cyc.PendingInterruptFunction
    BY IInvForm DEF Good
  <2>2. /\ a \in Handlers /\ cyc.bUsed[a]
        /\ \A g \in Handlers : cyc.bUsed[g] => cyc.Cycles[a] <= cyc.Cycles[g]
        /\ Elapsed(cyc) \in Nat
    BY <2>1, GoodFacts
  <2>3. \A g \in Handlers : cyc.Cycles[g] \in Int
    BY <2>1 DEF Good, SchedulerState, InterruptId
  <2>4. cyc.PendingInterruptCount = cyc.Cycles[a] - Elapsed(cyc)
    BY <2>1, <2>2, <2>3 DEF Elapsed, Good, SchedulerState
  <2>5. cyc.PendingInterruptCount <= 0
    BY <2>2, <2>3, <2>4 DEF CyclesLeft
  <2>6. \A g \in Handlers : cyc.bUsed[g] => CyclesLeft(cyc, a) <= CyclesLeft(cyc, g)
    BY <2>2, <2>3 DEF CyclesLeft
  <2>7. a # INTERRUPT_NULL
    BY <2>2, HandlersAssumption DEF INTERRUPT_NULL
  <2> QED BY <2>1, <2>2, <2>5, <2>6, <2>7 DEF HandlerIsDue
<1>2. Init => IInv
  BY InitGood
<1>3. IInv /\ [Next]_vars => IInv'
  BY StepGood
<1> QED BY <1>1, <1>2, <1>3, PTL DEF Spec

-----------------------------------------------------------------------------
(* The refinement, on pairs of scheduler states first. *)

(* The CPU brings every armed timer closer by the same time. *)
LEMMA AddCyclesPass ==
  ASSUME IInv, NEW c \in InstrCycles, AddCycles(c)
  PROVE  Timers!Pass
<1> DEFINE t == M68000_AddCycles(cyc, c)
<1>1. Good(cyc) /\ c \in Nat /\ cyc' = t
  BY IInvForm, CpuAssumption DEF AddCycles
<1>2. Good(t) /\ Armed(t) = Armed(cyc)
  BY <1>1, AddCyclesFacts
<1>3. PICK d \in Nat : \A h \in Handlers :
        TimeLeft(t)[h] = IF cyc.bUsed[h] THEN TimeLeft(cyc)[h] - d ELSE TimeLeft(cyc)[h]
  BY <1>1, AddCyclesFacts
<1>4. TimeLeft(t) \in [Handlers -> Int] /\ TimeLeft(cyc) \in [Handlers -> Int]
  BY <1>1, <1>2, TimeLeftType
<1> DEFINE f == TimeLeft(cyc)
<1> DEFINE g == TimeLeft(t)
<1> DEFINE A == Armed(cyc)
<1>5. /\ A \subseteq Handlers
      /\ \A h \in A : g[h] = f[h] - d
      /\ \A h \in Handlers \ A : g[h] = f[h]
  BY <1>3 DEF Armed
<1> HIDE DEF f, g, A
<1>6. \A h \in Handlers : f[h] \in Int /\ g[h] \in Int
  BY <1>4 DEF f, g
<1>7. /\ \A h \in Handlers \ A : f[h] = g[h]
      /\ \A h, k \in A : f[h] >= g[h] /\ f[h] - g[h] = f[k] - g[k]
  BY <1>3, <1>5, <1>6
<1>8. UNCHANGED snap
  BY DEF AddCycles
<1> QED BY <1>1, <1>2, <1>4, <1>7, <1>8
        DEF Timers!Pass, Timers!ShiftedLater, Checkpoint, f, g, A

(* The handler that is called belongs to an overdue timer, the earliest. *)
LEMMA DueIsEarliest ==
  ASSUME NEW s, Good(s), HandlerIsDue(s)
  PROVE  /\ s.ActiveInterrupt \in Armed(s)
         /\ TimeLeft(s)[s.ActiveInterrupt] <= 0
         /\ \A h \in Armed(s) : TimeLeft(s)[s.ActiveInterrupt] <= TimeLeft(s)[h]
<1> DEFINE a == s.ActiveInterrupt
<1>1. a = s.PendingInterruptFunction /\ a \in Handlers /\ s.bUsed[a]
  BY GoodFacts DEF Good
<1>2. \A h \in Handlers : s.bUsed[h] => s.Cycles[a] <= s.Cycles[h]
  BY GoodFacts
<1>3. \A h \in Handlers : s.Cycles[h] \in Int
  BY DEF Good, SchedulerState, InterruptId
<1>4. s.PendingInterruptCount \in Int /\ s.PendingInterruptCount <= 0
  BY DEF Good, SchedulerState, HandlerIsDue
<1> QED BY <1>1, <1>2, <1>3, <1>4 DEF TimeLeft, Armed

(* A handler that only acknowledges lets its timer go off. *)
LEMMA CallHandlerGoesOff ==
  ASSUME IInv, CallHandler
  PROVE  \E h \in Handlers : Timers!GoOff(h)
<1> DEFINE a == cyc.ActiveInterrupt
<1>1. Good(cyc) /\ HandlerIsDue(cyc) /\ UNCHANGED snap
  BY IInvForm DEF CallHandler
<1>2. a \in Handlers /\ a \in InterruptId /\ VideoPending(cyc, a)
  BY <1>1, GoodFacts DEF Good, CallHandler
<1>3. Armed(cyc') = Armed(cyc) \ {a} /\ TimeLeft(cyc') = TimeLeft(cyc)
  BY <1>1, <1>2, StopFacts DEF CallHandler
<1>4. /\ a \in Armed(cyc) /\ TimeLeft(cyc)[a] <= 0
      /\ \A h \in Armed(cyc) : TimeLeft(cyc)[a] <= TimeLeft(cyc)[h]
  BY <1>1, DueIsEarliest
<1>5. Timers!GoOff(a)
  BY <1>1, <1>3, <1>4 DEF Timers!GoOff, Checkpoint
<1> QED BY <1>2, <1>5

(* A video handler goes off and arms the next video entry. *)
LEMMA CallVideoGoesOff ==
  ASSUME VideoFits, IInv, NEW v \in Video, NEW d \in VideoDelays, CallVideoHandler(v, d)
  PROVE  \E h, n \in Handlers : Timers!GoOffAndArm(h, n)
<1> DEFINE a == cyc.ActiveInterrupt
<1>1. Good(cyc) /\ HandlerIsDue(cyc) /\ UNCHANGED snap
  BY IInvForm DEF CallVideoHandler
<1>2. a \in Handlers /\ v \in Handlers
  BY <1>1, GoodFacts, VideoAssumption
<1>3. /\ Good(cyc')
      /\ Armed(cyc') = (Armed(cyc) \ {a}) \cup {v}
      /\ \A g \in Handlers \ {v} : TimeLeft(cyc')[g] = TimeLeft(cyc)[g]
  BY <1>1, CallVideoFacts DEF CallVideoHandler
<1>4. /\ a \in Armed(cyc) /\ TimeLeft(cyc)[a] <= 0
      /\ \A h \in Armed(cyc) : TimeLeft(cyc)[a] <= TimeLeft(cyc)[h]
  BY <1>1, DueIsEarliest
<1>5. TimeLeft(cyc') \in [Handlers -> Int]
  BY <1>3, TimeLeftType
<1>6. Timers!GoOffAndArm(a, v)
  BY <1>1, <1>3, <1>4, <1>5 DEF Timers!GoOffAndArm, Checkpoint
<1> QED BY <1>2, <1>6

(* A call that arms one timer only is an Arm step. *)
LEMMA ArmsOnlyArms ==
  ASSUME IInv, NEW h \in Handlers, ArmsOnly(cyc, cyc', h), UNCHANGED snap
  PROVE  Timers!Arm(h)
<1>1. TimeLeft(cyc') \in [Handlers -> Int]
  BY TimeLeftType DEF ArmsOnly
<1> QED BY <1>1 DEF ArmsOnly, Timers!Arm, Checkpoint

(* A restored machine has the saved timers, uniformly late. *)
LEMMA RestoreRestores ==
  ASSUME IInv, RestoreSnapshot
  PROVE  Timers!Restore
<1>1. /\ cyc \in SchedulerState /\ snap \in Snapshot /\ Consistent(snap)
      /\ snap # NoSnapshot /\ snap' = snap /\ cyc' = CycInt_Restore(cyc, snap)
  BY IInvForm DEF RestoreSnapshot, SnapOK, Good
<1>2. /\ Good(cyc') /\ Armed(cyc') = Armed(snap)
      /\ TimeLeft(snap) \in [Handlers -> Int]
  BY <1>1, RestoreFacts
<1>3. PICK e \in Nat : \A h \in Handlers :
        TimeLeft(cyc')[h] = IF snap.bUsed[h] THEN TimeLeft(snap)[h] + e ELSE TimeLeft(snap)[h]
  BY <1>1, RestoreFacts
<1>4. TimeLeft(cyc') \in [Handlers -> Int]
  BY <1>2, TimeLeftType
<1> DEFINE f == TimeLeft(cyc')
<1> DEFINE g == TimeLeft(snap)
<1> DEFINE A == Armed(snap)
<1>5. /\ A \subseteq Handlers
      /\ \A h \in A : f[h] = g[h] + e
      /\ \A h \in Handlers \ A : f[h] = g[h]
  BY <1>3 DEF Armed
<1>6. \A h \in Handlers : f[h] \in Int /\ g[h] \in Int
  BY <1>2, <1>4
<1>7. Checkpoint = [armed |-> A, left |-> g] /\ Checkpoint' = Checkpoint
  BY <1>1 DEF Checkpoint
<1>8. Checkpoint # NoSnapshot
  <2>1. A \in SUBSET Handlers
    BY <1>5
  <2> HIDE DEF A, g
  <2>2. g \in [Handlers -> Int]
    BY <1>2 DEF g
  <2> QED BY <1>7, <2>1, <2>2, NoSnapshotAssumption
<1> HIDE DEF f, g, A
<1>9. \A h, k \in A : f[h] >= g[h] /\ f[h] - g[h] = f[k] - g[k]
  BY <1>3, <1>5, <1>6
<1> QED BY <1>2, <1>4, <1>5, <1>7, <1>8, <1>9 DEF Timers!Restore, Timers!ShiftedLater, f, g, A

(* Every step of the scheduler is a step of the plain timers, or stutters. *)
LEMMA StepRefines == VideoFits /\ IInv /\ [Next]_vars => [Timers!Next]_(Timers!vars)
<1> SUFFICES ASSUME VideoFits, IInv, [Next]_vars
             PROVE  Timers!Next \/ UNCHANGED <<Armed(cyc), TimeLeft(cyc), Checkpoint>>
  BY DEF Timers!vars
<1>1. Good(cyc) /\ SnapOK(snap) /\ cyc \in SchedulerState
  BY IInvForm DEF Good
<1>2. ASSUME NEW c \in InstrCycles, AddCycles(c) PROVE Timers!Next
  BY <1>2, AddCyclesPass DEF Timers!Next
<1>3. CASE CallHandler
  BY <1>3, CallHandlerGoesOff DEF Timers!Next
<1>3a. ASSUME NEW v \in Video, NEW d \in VideoDelays, CallVideoHandler(v, d)
       PROVE  Timers!Next
  BY <1>3a, CallVideoGoesOff DEF Timers!Next
<1>3b. ASSUME NEW v \in Video, NEW d \in VideoDelays, StartVideo(v, d) PROVE Timers!Next
  <2>1. ArmsOnly(cyc, cyc', v) /\ UNCHANGED snap /\ v \in Handlers
    BY <1>1, <1>3b, StartVideoFacts, VideoAssumption DEF StartVideo
  <2> QED BY <2>1, ArmsOnlyArms DEF Timers!Next
<1>4. ASSUME NEW h \in Handlers \ Video, NEW d \in Delays, NEW o \in Offsets, StartTimer(h, d, o)
      PROVE  Timers!Next
  <2>1. ArmsOnly(cyc, cyc', h) /\ UNCHANGED snap
    BY <1>1, <1>4, StartTimerFacts DEF StartTimer
  <2> QED BY <2>1, ArmsOnlyArms DEF Timers!Next
<1>5. ASSUME NEW h \in Handlers \ Video, StopTimer(h) PROVE Timers!Next
  <2>1. VideoPending(cyc, h) /\ h \in InterruptId
    BY <1>1 DEF VideoPending, Good, Consistent, InterruptId
  <2>2. Armed(cyc') = Armed(cyc) \ {h} /\ TimeLeft(cyc') = TimeLeft(cyc) /\ UNCHANGED snap
    BY <1>1, <1>5, <2>1, StopFacts DEF StopTimer
  <2>3. Timers!Stop(h)
    BY <2>2 DEF Timers!Stop, Checkpoint
  <2> QED BY <2>3 DEF Timers!Next
<1>6. ASSUME NEW h \in MfpTimers, ResumeTimer(h) PROVE Timers!Next
  <2>1. h \in Handlers \ Video
    BY VideoAssumption
  <2>2. Armed(cyc') = Armed(cyc) \cup {h} /\ TimeLeft(cyc') = TimeLeft(cyc) /\ UNCHANGED snap
    BY <1>1, <1>6, <2>1, ResumeFacts DEF ResumeTimer
  <2>3. Timers!Resume(h)
    BY <2>2 DEF Timers!Resume, Checkpoint
  <2> QED BY <2>1, <2>3 DEF Timers!Next
<1>7. ASSUME NEW n \in LineChanges, ModifyVbl(n) PROVE Timers!Next
  <2>1. ArmsOnly(cyc, cyc', Vbl) /\ UNCHANGED snap
    BY <1>1, <1>7, ModifyFacts, LineChangesAssumption DEF ModifyVbl, CycInt_InterruptActive
  <2> QED BY <2>1, ArmsOnlyArms, VideoAssumption DEF Timers!Next
<1>8. CASE CallQuitHandler
  <2> DEFINE a == cyc.ActiveInterrupt
  <2>1. HandlerIsDue(cyc) /\ UNCHANGED snap /\ a \in Handlers
    BY <1>1, <1>8, GoodFacts DEF CallQuitHandler
  <2>2. Armed(cyc') = Armed(cyc) \ {a} /\ TimeLeft(cyc') = TimeLeft(cyc)
    BY <1>1, <1>8, CallQuitFacts DEF CallQuitHandler
  <2>3. /\ a \in Armed(cyc) /\ TimeLeft(cyc)[a] <= 0
        /\ \A h \in Armed(cyc) : TimeLeft(cyc)[a] <= TimeLeft(cyc)[h]
    BY <1>1, <2>1, DueIsEarliest
  <2>4. Timers!GoOff(a)
    BY <2>1, <2>2, <2>3 DEF Timers!GoOff, Checkpoint
  <2> QED BY <2>1, <2>4 DEF Timers!Next
<1>9. ASSUME NEW v \in Video, NEW d \in VideoDelays, ResetMachine(v, d) PROVE Timers!Next
  <2>1. Good(cyc') /\ Armed(cyc') = {v} /\ UNCHANGED snap
    BY <1>1, <1>9, ResetFacts DEF ResetMachine
  <2>2. TimeLeft(cyc') \in [Handlers -> Int]
    BY <2>1, TimeLeftType
  <2>3. Timers!Reset(v)
    BY <2>1, <2>2 DEF Timers!Reset, Checkpoint
  <2> QED BY <2>3, VideoAssumption DEF Timers!Next
<1>10. CASE SaveSnapshot
  <2>1. snap' = CycInt_Save(cyc) /\ UNCHANGED cyc
    BY <1>10 DEF SaveSnapshot
  <2>2. snap' # NoSnapshot /\ Armed(snap') = Armed(cyc) /\ TimeLeft(snap') = TimeLeft(cyc)
    BY <1>1, <2>1, SaveFacts
  <2>3. Timers!Save
    BY <2>1, <2>2 DEF Timers!Save, Checkpoint
  <2> QED BY <2>3 DEF Timers!Next
<1>11. CASE RestoreSnapshot
  BY <1>11, RestoreRestores DEF Timers!Next
<1>12. CASE UNCHANGED vars
  BY <1>12 DEF vars, Checkpoint
<1> QED BY <1>2, <1>3, <1>3a, <1>3b, <1>4, <1>5, <1>6, <1>7, <1>8, <1>9, <1>10, <1>11, <1>12
        DEF Next

(* The lazily updated scheduler of cycInt.c implements independent timers. *)
THEOREM SchedulerRefinesTimers == ASSUME VideoFits PROVE Spec => ImplementsTimers
<1>1. Init => IInv
  BY InitGood
<1>2. IInv /\ [Next]_vars => IInv'
  BY StepGood
<1>3. Init => Timers!Init
  <2> SUFFICES ASSUME Init PROVE Timers!Init
    OBVIOUS
  <2>1. Good(cyc) /\ snap = NoSnapshot
    BY <1>1, IInvForm DEF Init
  <2>2. TimeLeft(cyc) \in [Handlers -> Int]
    BY <2>1, TimeLeftType
  <2> QED BY <2>1, <2>2 DEF Timers!Init, Armed, Checkpoint
<1>4. IInv /\ [Next]_vars => [Timers!Next]_(Timers!vars)
  BY StepRefines
<1> QED BY <1>1, <1>2, <1>3, <1>4, PTL DEF Spec, ImplementsTimers, Timers!Spec
=============================================================================
