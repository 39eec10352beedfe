---------------------------- MODULE CycIntLemmas ----------------------------
(***************************************************************************)
(* Lemmas about the functions of the scheduler, for the proofs about the   *)
(* devices that use it: what each call does to the entries in use and to   *)
(* the time they have left.                                                *)
(***************************************************************************)
EXTENDS CycInt, FiniteSetTheorems, WellFoundedInduction, TLAPS

-----------------------------------------------------------------------------
(* Two facts about minima, from the well-foundedness of < on Nat.          *)

(* A non-empty set of naturals has a least element. *)
LEMMA NatMin ==
  ASSUME NEW T, T \subseteq Nat, T # {}
  PROVE  \E x \in T : \A y \in T : x <= y
<1>1. \E x \in T : \A y \in T : ~ (<<y, x>> \in OpToRel(<, Nat))
  BY NatLessThanWellFounded, WFMin
<1>2. PICK x \in T : \A y \in T : ~ (<<y, x>> \in OpToRel(<, Nat))
  BY <1>1
<1>3. \A y \in T : ~ (y < x)
  BY <1>2 DEF OpToRel
<1> QED BY <1>3

(* A function from a non-empty finite set to the integers has a least value. *)
LEMMA FiniteMin ==
  ASSUME NEW S, IsFiniteSet(S), S # {}, NEW f \in [S -> Int]
  PROVE  \E x \in S : \A y \in S : f[x] <= f[y]
<1> DEFINE HasMin(U) == \E x \in U : \A y \in U : f[x] <= f[y]
<1> DEFINE Bad == {U \in SUBSET S : U # {} /\ ~HasMin(U)}
<1> DEFINE Sizes == {Cardinality(U) : U \in Bad}
<1>1. SUFFICES ASSUME Bad # {} PROVE FALSE
  BY DEF HasMin
<1>2. \A U \in Bad : IsFiniteSet(U) /\ Cardinality(U) \in Nat
  BY FS_Subset, FS_CardinalityType
<1>3. Sizes \subseteq Nat /\ Sizes # {}
  BY <1>1, <1>2
<1>4. PICK n \in Sizes : \A m \in Sizes : n <= m
  BY <1>3, NatMin
<1>5. PICK U \in Bad : Cardinality(U) = n
  BY <1>4
<1>6. PICK x \in U : TRUE
  BY <1>5
<1>7. PICK y \in U : f[y] < f[x]
  BY <1>5, <1>6 DEF HasMin
<1> DEFINE V == U \ {x}
<1>8. V # {} /\ V \subseteq S
  BY <1>5, <1>6, <1>7
<1>9. ~HasMin(V)
  <2>1. SUFFICES ASSUME NEW m \in V, \A z \in V : f[m] <= f[z] PROVE FALSE
    BY DEF HasMin
  <2>2. y \in V
    BY <1>6, <1>7, <1>5
  <2>3. \A z \in U : f[m] <= f[z]
    BY <2>1, <2>2, <1>5, <1>6, <1>7
  <2> QED BY <2>3, <1>5 DEF HasMin
<1>10. V \in Bad
  BY <1>8, <1>9
<1>11. Cardinality(V) = n - 1
  BY <1>2, <1>5, <1>6, FS_RemoveElement
<1>12. Cardinality(V) \in Sizes
  BY <1>10
<1>13. n \in Nat /\ n <= Cardinality(V)
  BY <1>3, <1>4, <1>12
<1> HIDE DEF V, Sizes
<1> QED BY <1>11, <1>13

-----------------------------------------------------------------------------
(* The search of CycInt_SetNewInterrupt. *)

(* The table part of a scheduler state or of a snapshot. *)
TableOK(s) ==
  /\ s.bUsed \in [InterruptId -> BOOLEAN]
  /\ s.Cycles \in [InterruptId -> Int]

(* The search returns the first of the candidates, or INTERRUPT_NULL. *)
LEMMA LowestFacts ==
  ASSUME NEW s, TableOK(s)
  PROVE  /\ LowestInterrupt(s) \in InterruptId
         /\ Candidates(s) = {} => LowestInterrupt(s) = INTERRUPT_NULL
         /\ Candidates(s) # {} => /\ LowestInterrupt(s) \in Candidates(s)
                                  /\ IsFirst(s, LowestInterrupt(s))
<1>1. CASE Candidates(s) = {}
  BY <1>1 DEF LowestInterrupt, InterruptId
<1>2. CASE Candidates(s) # {}
  <2> DEFINE C == Candidates(s)
  <2> DEFINE f == [i \in C |-> s.Cycles[i]]
  <2>1. C \subseteq Handlers /\ C \subseteq Nat
    BY HandlersAssumption DEF Candidates
  <2>2. IsFiniteSet(C)
    BY <2>1, HandlersAssumption, FS_Subset
  <2>3. f \in [C -> Int]
    BY <2>1 DEF TableOK, InterruptId
  <2>4. PICK x \in C : \A y \in C : f[x] <= f[y]
    BY <1>2, <2>2, <2>3, FiniteMin
  <2> DEFINE T == {i \in C : s.Cycles[i] = s.Cycles[x]}
  <2>5. PICK i \in T : \A j \in T : i <= j
    <3>1. T \subseteq Nat /\ T # {}
      BY <2>1, <2>4
    <3> QED BY <3>1, NatMin
  <2>6. \A j \in C : s.Cycles[i] \in Int /\ s.Cycles[j] \in Int
    BY <2>1, <2>5 DEF TableOK, InterruptId
  <2>7. IsFirst(s, i)
    BY <2>4, <2>5, <2>6 DEF IsFirst
  <2>8. \E k \in C : IsFirst(s, k)
    BY <2>7, <2>5
  <2>9. LowestInterrupt(s) = CHOOSE k \in C : IsFirst(s, k)
    BY <1>2 DEF LowestInterrupt
  <2>10. LowestInterrupt(s) \in C /\ IsFirst(s, LowestInterrupt(s))
    BY <2>8, <2>9
  <2> QED BY <2>10, <2>1, <1>2 DEF InterruptId
<1> QED BY <1>1, <1>2

(* The search looks at the table only. *)
LEMMA SameLowest ==
  ASSUME NEW s, NEW t, TableOK(s), t.bUsed = s.bUsed, t.Cycles = s.Cycles
  PROVE  LowestInterrupt(t) = LowestInterrupt(s)
<1>1. Candidates(t) = Candidates(s)
  BY DEF Candidates
<1>2. \A i : IsFirst(t, i) <=> IsFirst(s, i)
  BY <1>1 DEF IsFirst
<1>3. TableOK(t)
  BY DEF TableOK
<1>4. CASE Candidates(s) = {}
  BY <1>1, <1>4 DEF LowestInterrupt
<1>5. CASE Candidates(s) # {}
  <2> DEFINE k == LowestInterrupt(t)
  <2> DEFINE l == LowestInterrupt(s)
  <2>1. /\ l \in Candidates(s) /\ IsFirst(s, l)
        /\ k \in Candidates(s) /\ IsFirst(s, k)
    BY <1>1, <1>2, <1>3, <1>5, LowestFacts
  <2>2. l \in Nat /\ k \in Nat /\ s.Cycles[l] \in Int /\ s.Cycles[k] \in Int
    BY <2>1, HandlersAssumption DEF Candidates, TableOK, InterruptId
  <2> HIDE DEF k, l
  <2>3. l = k
    BY <2>1, <2>2 DEF IsFirst
  <2> QED BY <2>3 DEF k, l
<1> QED BY <1>4, <1>5

-----------------------------------------------------------------------------
(* The building blocks of the calls. *)

(* The second half: the search leaves the table alone and starts the       *)
(* counter of the entry it selects.                                        *)
LEMMA SetNewTable ==
  ASSUME NEW s \in SchedulerState, NEW t, t = CycInt_SetNewInterrupt(s)
  PROVE  /\ t \in SchedulerState
         /\ t.bUsed = s.bUsed
         /\ t.Cycles = s.Cycles
         /\ t.ActiveInterrupt = t.PendingInterruptFunction
         /\ t.PendingInterruptFunction = LowestInterrupt(t)
         /\ t.PendingInterruptCount = t.Cycles[t.PendingInterruptFunction]
         /\ Elapsed(t) = 0
<1> DEFINE low == LowestInterrupt(s)
<1>1. TableOK(s)
  BY DEF TableOK, SchedulerState
<1>2. low \in InterruptId
  BY <1>1, LowestFacts
<1> HIDE DEF low
<1>3. /\ t \in SchedulerState
      /\ t.bUsed = s.bUsed /\ t.Cycles = s.Cycles
      /\ t.PendingInterruptFunction = low /\ t.ActiveInterrupt = low
      /\ t.PendingInterruptCount = s.Cycles[low]
  <2>1. t = [s EXCEPT !.PendingInterruptCount = s.Cycles[low],
                      !.PendingInterruptFunction = low,
                      !.ActiveInterrupt = low]
    BY DEF CycInt_SetNewInterrupt, low
  <2> QED BY <1>2, <2>1 DEF SchedulerState
<1>4. LowestInterrupt(t) = low
  BY <1>3, <1>1, SameLowest DEF TableOK, SchedulerState, low
<1>5. Elapsed(t) = 0
  BY <1>2, <1>3 DEF Elapsed, SchedulerState
<1> QED BY <1>3, <1>4, <1>5

(* Bringing a table up to date when nothing has elapsed changes no entry. *)
LEMMA UpdateNothing ==
  ASSUME NEW s \in SchedulerState, Elapsed(s) = 0, NEW u, u = CycInt_UpdateInterrupt(s)
  PROVE  u \in SchedulerState /\ u.bUsed = s.bUsed /\ u.Cycles = s.Cycles
<1> DEFINE f == [i \in InterruptId |->
                   IF s.bUsed[i] THEN s.Cycles[i] - Elapsed(s) ELSE s.Cycles[i]]
<1>1. f = s.Cycles
  BY DEF SchedulerState
<1>2. u = [s EXCEPT !.nCyclesOver = s.PendingInterruptCount, !.Cycles = f]
  BY DEF CycInt_UpdateInterrupt
<1> HIDE DEF f
<1> QED BY <1>1, <1>2 DEF SchedulerState

(* The internal cycles of a delay are an integer. *)
LEMMA DelayType ==
  ASSUME NEW n \in Int, NEW type \in CycleType
  PROVE  INT_CONVERT_TO_INTERNAL(n, type) \in Int
<1>1. FreqFactor \in Nat
  BY DEF FreqFactor
<1> HIDE DEF FreqFactor
<1> QED BY <1>1, FactorAssumption DEF INT_CONVERT_TO_INTERNAL

(* Switching an entry on with n cycles, and off. *)
SwitchOn(u, h, n) == [u EXCEPT !.bUsed[h] = TRUE, !.Cycles[h] = n]
SwitchOff(u, h) == [u EXCEPT !.bUsed[h] = FALSE]

-----------------------------------------------------------------------------
(* The state of the scheduler between two calls. *)

(* The time since the table was last brought up to date, as the functions  *)
(* that add time see it, and the value an entry then gets: the time it has *)
(* left if it is in use.                                                   *)
Behind(s) == IF s.ActiveInterrupt > 0 THEN Elapsed(s) ELSE 0

TimeOf(s, h) == IF s.bUsed[h] THEN s.Cycles[h] - Behind(s) ELSE s.Cycles[h]

(* The counter and the function of the CPU are those of the entry the      *)
(* search would select now.                                                *)
Chosen(s) ==
  /\ s \in SchedulerState
  /\ s.ActiveInterrupt = LowestInterrupt(s)
  /\ s.PendingInterruptFunction = LowestInterrupt(s)
  /\ Behind(s) \in Nat

(* Just after a search nothing has elapsed. *)
Fresh(s) ==
  /\ s \in SchedulerState
  /\ s.ActiveInterrupt = LowestInterrupt(s)
  /\ s.PendingInterruptFunction = LowestInterrupt(s)
  /\ Elapsed(s) = 0

(* u is s brought up to date. *)
Current(s, u) ==
  /\ u \in SchedulerState
  /\ u.bUsed = s.bUsed
  /\ \A h \in InterruptId : u.Cycles[h] = TimeOf(s, h)

LEMMA FreshIsChosen ==
  ASSUME NEW s, Fresh(s)
  PROVE  /\ Chosen(s)
         /\ Behind(s) = 0
         /\ \A h \in InterruptId : TimeOf(s, h) = s.Cycles[h]
<1>1. Behind(s) = 0
  BY DEF Fresh, Behind
<1>2. \A h \in InterruptId : s.Cycles[h] \in Int
  BY DEF Fresh, SchedulerState
<1> QED BY <1>1, <1>2 DEF Chosen, Fresh, TimeOf

(* With a candidate, the active entry is in use, and no entry in use is    *)
(* due before it.  Entries beyond the 32 bit counter are no candidates.    *)
LEMMA ChosenFacts ==
  ASSUME NEW s, Chosen(s), NEW v \in Candidates(s)
  PROVE  /\ s.ActiveInterrupt \in Handlers
         /\ s.ActiveInterrupt \in InterruptId
         /\ s.ActiveInterrupt > 0
         /\ s.PendingInterruptFunction = s.ActiveInterrupt
         /\ s.PendingInterruptFunction # INTERRUPT_NULL
         /\ s.bUsed[s.ActiveInterrupt]
         /\ Behind(s) = Elapsed(s)
         /\ Elapsed(s) \in Nat
         /\ TimeOf(s, s.ActiveInterrupt) = s.PendingInterruptCount
         /\ \A h \in Handlers : s.bUsed[h] => s.PendingInterruptCount <= TimeOf(s, h)
<1> DEFINE a == s.ActiveInterrupt
<1>1. TableOK(s) /\ s \in SchedulerState /\ a = LowestInterrupt(s)
  BY DEF TableOK, SchedulerState, Chosen
<1>2. a \in Candidates(s) /\ IsFirst(s, a)
  BY <1>1, LowestFacts
<1>3. a \in Handlers /\ a \in InterruptId /\ s.bUsed[a] /\ s.Cycles[a] < INT_MAX
  BY <1>2 DEF Candidates, InterruptId
<1>4. a > 0 /\ a # INTERRUPT_NULL
  BY <1>3, HandlersAssumption DEF INTERRUPT_NULL
<1>5. Behind(s) = Elapsed(s) /\ Elapsed(s) \in Nat
  BY <1>4 DEF Behind, Chosen
<1>6. s.Cycles[a] \in Int /\ s.PendingInterruptCount \in Int
  BY <1>1, <1>3 DEF SchedulerState
<1>7. TimeOf(s, a) = s.PendingInterruptCount
  BY <1>3, <1>5, <1>6 DEF TimeOf, Elapsed
<1>8. ASSUME NEW h \in Handlers, s.bUsed[h] PROVE s.PendingInterruptCount <= TimeOf(s, h)
  <2>1. s.Cycles[h] \in Int
    BY <1>1 DEF TableOK, InterruptId
  <2>2. s.Cycles[a] <= s.Cycles[h]
    <3>1. CASE s.Cycles[h] < INT_MAX
      <4>1. h \in Candidates(s)
        BY <1>8, <3>1 DEF Candidates
      <4> QED BY <1>2, <1>6, <2>1, <4>1 DEF IsFirst
    <3>2. CASE ~(s.Cycles[h] < INT_MAX)
      BY <1>3, <1>6, <2>1, <3>2, IntMaxAssumption
    <3> QED BY <3>1, <3>2
  <2>3. TimeOf(s, h) = s.Cycles[h] - Elapsed(s)
    BY <1>5, <1>8 DEF TimeOf
  <2> QED BY <1>5, <1>6, <2>1, <2>2, <2>3 DEF Elapsed
<1>9. s.PendingInterruptFunction = a
  BY DEF Chosen
<1> QED BY <1>3, <1>4, <1>5, <1>7, <1>8, <1>9

-----------------------------------------------------------------------------
(* The first half of a call brings the table up to date. *)

LEMMA UpdateGives ==
  ASSUME NEW s \in SchedulerState, s.ActiveInterrupt > 0 \/ Elapsed(s) = 0
  PROVE  Current(s, CycInt_UpdateInterrupt(s))
<1> DEFINE e == Elapsed(s)
<1> DEFINE u == CycInt_UpdateInterrupt(s)
<1> DEFINE f == [i \in InterruptId |-> IF s.bUsed[i] THEN s.Cycles[i] - e ELSE s.Cycles[i]]
<1>1. e \in Int /\ e = Behind(s)
  BY DEF SchedulerState, Elapsed, Behind
<1> HIDE DEF e
<1>2. f \in [InterruptId -> Int]
  BY <1>1 DEF SchedulerState
<1>3. \A h \in InterruptId : f[h] = TimeOf(s, h)
  BY <1>1 DEF TimeOf
<1>4. u = [s EXCEPT !.nCyclesOver = s.PendingInterruptCount, !.Cycles = f]
  BY DEF CycInt_UpdateInterrupt, e
<1> HIDE DEF f, u
<1>5. u \in SchedulerState /\ u.bUsed = s.bUsed /\ u.Cycles = f
  BY <1>2, <1>4 DEF SchedulerState
<1> QED BY <1>3, <1>5 DEF Current, u

LEMMA UpdateIfActiveGives ==
  ASSUME NEW s \in SchedulerState
  PROVE  Current(s, UpdateIfActive(s))
<1>1. CASE s.ActiveInterrupt > 0
  BY <1>1, UpdateGives DEF UpdateIfActive
<1>2. CASE ~(s.ActiveInterrupt > 0)
  <2>1. \A h \in InterruptId : s.Cycles[h] \in Int
    BY DEF SchedulerState
  <2>2. \A h \in InterruptId : TimeOf(s, h) = s.Cycles[h]
    BY <1>2, <2>1 DEF TimeOf, Behind
  <2> QED BY <1>2, <2>2 DEF UpdateIfActive, Current
<1> QED BY <1>1, <1>2

(* The second half switches entry h on or off and searches. *)
LEMMA SwitchedOn ==
  ASSUME NEW s, NEW u, Current(s, u), NEW h \in Handlers, NEW n \in Int,
         NEW t, t = CycInt_SetNewInterrupt(SwitchOn(u, h, n))
  PROVE  /\ Fresh(t)
         /\ t.bUsed[h]
         /\ t.Cycles[h] = n
         /\ \A g \in InterruptId \ {h} : t.bUsed[g] = s.bUsed[g] /\ t.Cycles[g] = TimeOf(s, g)
<1> DEFINE v == SwitchOn(u, h, n)
<1>0. h \in InterruptId
  BY DEF InterruptId
<1>1. /\ u.bUsed = s.bUsed
      /\ u.bUsed \in [InterruptId -> BOOLEAN] /\ u.Cycles \in [InterruptId -> Int]
  BY DEF Current, SchedulerState
<1>2. /\ v \in SchedulerState
      /\ v.bUsed = [u.bUsed EXCEPT ![h] = TRUE]
      /\ v.Cycles = [u.Cycles EXCEPT ![h] = n]
  BY <1>0, <1>1 DEF Current, SchedulerState, SwitchOn
<1>3. t = CycInt_SetNewInterrupt(v)
  OBVIOUS
<1> HIDE DEF v
<1>4. Fresh(t) /\ t.bUsed = v.bUsed /\ t.Cycles = v.Cycles
  BY <1>2, <1>3, SetNewTable DEF Fresh
<1>5. \A g \in InterruptId \ {h} : t.bUsed[g] = s.bUsed[g] /\ t.Cycles[g] = TimeOf(s, g)
  BY <1>1, <1>2, <1>4 DEF Current
<1> QED BY <1>0, <1>1, <1>2, <1>4, <1>5

LEMMA SwitchedOff ==
  ASSUME NEW s, NEW u, Current(s, u), NEW h \in InterruptId,
         NEW t, t = CycInt_SetNewInterrupt(SwitchOff(u, h))
  PROVE  /\ Fresh(t)
         /\ ~t.bUsed[h]
         /\ \A g \in InterruptId \ {h} : t.bUsed[g] = s.bUsed[g]
         /\ \A g \in InterruptId : t.Cycles[g] = TimeOf(s, g)
<1> DEFINE v == SwitchOff(u, h)
<1>1. /\ u.bUsed = s.bUsed
      /\ u.bUsed \in [InterruptId -> BOOLEAN] /\ u.Cycles \in [InterruptId -> Int]
  BY DEF Current, SchedulerState
<1>2. /\ v \in SchedulerState
      /\ v.bUsed = [u.bUsed EXCEPT ![h] = FALSE]
      /\ v.Cycles = u.Cycles
  BY <1>1 DEF Current, SchedulerState, SwitchOff
<1>3. t = CycInt_SetNewInterrupt(v)
  OBVIOUS
<1> HIDE DEF v
<1>4. Fresh(t) /\ t.bUsed = v.bUsed /\ t.Cycles = v.Cycles
  BY <1>2, <1>3, SetNewTable DEF Fresh
<1> QED BY <1>1, <1>2, <1>4 DEF Current

-----------------------------------------------------------------------------
(* One lemma per call. *)

LEMMA AddEffect ==
  ASSUME NEW s \in SchedulerState, NEW h \in Handlers,
         NEW n \in Int, NEW type \in CycleType, NEW o \in Int,
         NEW m, m = INT_CONVERT_TO_INTERNAL(n, type) + o,
         NEW t, t = CycInt_AddRelativeInterruptWithOffset(s, n, type, h, o)
  PROVE  /\ Fresh(t)
         /\ t.bUsed[h]
         /\ t.Cycles[h] = m
         /\ \A g \in InterruptId \ {h} : t.bUsed[g] = s.bUsed[g] /\ t.Cycles[g] = TimeOf(s, g)
<1> DEFINE u == UpdateIfActive(s)
<1>1. m \in Int
  BY DelayType
<1>2. Current(s, u)
  BY UpdateIfActiveGives
<1>3. t = CycInt_SetNewInterrupt(SwitchOn(u, h, m))
  BY DEF CycInt_AddRelativeInterruptWithOffset, SwitchOn
<1> HIDE DEF u
<1> QED BY <1>1, <1>2, <1>3, SwitchedOn

LEMMA AddRelativeEffect ==
  ASSUME NEW s \in SchedulerState, NEW h \in Handlers, NEW n \in Int, NEW type \in CycleType,
         NEW m, m = INT_CONVERT_TO_INTERNAL(n, type),
         NEW t, t = CycInt_AddRelativeInterrupt(s, n, type, h)
  PROVE  /\ Fresh(t)
         /\ t.bUsed[h]
         /\ t.Cycles[h] = m
         /\ \A g \in InterruptId \ {h} : t.bUsed[g] = s.bUsed[g] /\ t.Cycles[g] = TimeOf(s, g)
<1>1. m \in Int /\ m = m + 0
  BY DelayType
<1>2. t = CycInt_AddRelativeInterruptWithOffset(s, n, type, h, 0)
  BY DEF CycInt_AddRelativeInterrupt
<1> QED BY <1>1, <1>2, AddEffect

LEMMA RemoveEffect ==
  ASSUME NEW s \in SchedulerState, s.ActiveInterrupt > 0 \/ Elapsed(s) = 0,
         NEW h \in InterruptId,
         NEW t, t = CycInt_RemovePendingInterrupt(s, h)
  PROVE  /\ Fresh(t)
         /\ ~t.bUsed[h]
         /\ \A g \in InterruptId \ {h} : t.bUsed[g] = s.bUsed[g]
         /\ \A g \in InterruptId : t.Cycles[g] = TimeOf(s, g)
<1> DEFINE u == CycInt_UpdateInterrupt(s)
<1>1. t = CycInt_SetNewInterrupt(SwitchOff(u, h))
  BY DEF CycInt_RemovePendingInterrupt, SwitchOff
<1>2. Current(s, u)
  BY UpdateGives
<1> HIDE DEF u
<1> QED BY <1>1, <1>2, SwitchedOff

LEMMA AcknowledgeEffect ==
  ASSUME NEW s \in SchedulerState, s.ActiveInterrupt > 0,
         NEW t, t = CycInt_AcknowledgeInterrupt(s)
  PROVE  /\ Fresh(t)
         /\ ~t.bUsed[s.ActiveInterrupt]
         /\ \A g \in InterruptId \ {s.ActiveInterrupt} : t.bUsed[g] = s.bUsed[g]
         /\ \A g \in InterruptId : t.Cycles[g] = TimeOf(s, g)
<1>1. s.ActiveInterrupt \in InterruptId
  BY DEF SchedulerState
<1> DEFINE u == CycInt_UpdateInterrupt(s)
<1>2. t = CycInt_SetNewInterrupt(SwitchOff(u, s.ActiveInterrupt))
  BY DEF CycInt_AcknowledgeInterrupt, SwitchOff
<1>3. Current(s, u)
  BY UpdateGives
<1> HIDE DEF u
<1> QED BY <1>1, <1>2, <1>3, SwitchedOff

(* The entry is switched on before the update; it resumes its own time if  *)
(* nothing has elapsed since the last search.                              *)
LEMMA ResumeEffect ==
  ASSUME NEW s \in SchedulerState, Elapsed(s) = 0, NEW h \in Handlers,
         NEW t, t = CycInt_ResumeStoppedInterrupt(s, h)
  PROVE  /\ Fresh(t)
         /\ t.bUsed[h]
         /\ \A g \in InterruptId \ {h} : t.bUsed[g] = s.bUsed[g]
         /\ t.Cycles = s.Cycles
<1> DEFINE w == [s EXCEPT !.bUsed[h] = TRUE]
<1> DEFINE u == CycInt_UpdateInterrupt(w)
<1>0. h \in InterruptId
  BY DEF InterruptId
<1>1. /\ w \in SchedulerState
      /\ w.bUsed = [s.bUsed EXCEPT ![h] = TRUE]
      /\ w.Cycles = s.Cycles
      /\ w.ActiveInterrupt = s.ActiveInterrupt
      /\ w.PendingInterruptCount = s.PendingInterruptCount
      /\ s.bUsed \in [InterruptId -> BOOLEAN]
  BY <1>0 DEF SchedulerState
<1>2. t = CycInt_SetNewInterrupt(u)
  BY DEF CycInt_ResumeStoppedInterrupt
<1> HIDE DEF w
<1>3. Elapsed(w) = 0
  BY <1>1 DEF Elapsed
<1>4. u \in SchedulerState /\ u.bUsed = w.bUsed /\ u.Cycles = w.Cycles
  BY <1>1, <1>3, UpdateNothing
<1> HIDE DEF u
<1>5. Fresh(t) /\ t.bUsed = u.bUsed /\ t.Cycles = u.Cycles
  BY <1>2, <1>4, SetNewTable DEF Fresh
<1> QED BY <1>0, <1>1, <1>4, <1>5

(* The charge of c cycles. *)
LEMMA ChargeType ==
  ASSUME NEW c \in Nat
  PROVE  /\ RoundUpTo4(c) \in Nat
         /\ INT_CONVERT_TO_INTERNAL(RoundUpTo4(c), "CPU") \in Nat
<1>1. RoundUpTo4(c) \in Nat
  BY DEF RoundUpTo4
<1> HIDE DEF RoundUpTo4
<1> QED BY <1>1, FactorAssumption DEF INT_CONVERT_TO_INTERNAL

(* Time passes for all entries alike. *)
Later(s, d) == [s EXCEPT !.PendingInterruptCount = s.PendingInterruptCount - d]

LEMMA LaterEffect ==
  ASSUME NEW s, Chosen(s), NEW v \in Candidates(s), NEW d \in Nat, NEW t, t = Later(s, d)
  PROVE  /\ Chosen(t)
         /\ t.bUsed = s.bUsed
         /\ t.Cycles = s.Cycles
         /\ t.ActiveInterrupt = s.ActiveInterrupt
         /\ t.PendingInterruptCount = s.PendingInterruptCount - d
         /\ Elapsed(t) = Elapsed(s) + d
         /\ \A h \in InterruptId : s.bUsed[h] => TimeOf(t, h) = TimeOf(s, h) - d
         /\ \A h \in InterruptId : ~s.bUsed[h] => TimeOf(t, h) = TimeOf(s, h)
<1>2. t = [s EXCEPT !.PendingInterruptCount = s.PendingInterruptCount - d]
  BY DEF Later
<1>3. s \in SchedulerState
  BY DEF Chosen
<1>4. /\ t \in SchedulerState
      /\ t.bUsed = s.bUsed /\ t.Cycles = s.Cycles
      /\ t.ActiveInterrupt = s.ActiveInterrupt
      /\ t.PendingInterruptFunction = s.PendingInterruptFunction
      /\ t.PendingInterruptCount = s.PendingInterruptCount - d
  BY <1>2, <1>3 DEF SchedulerState
<1>5. LowestInterrupt(t) = LowestInterrupt(s)
  BY <1>3, <1>4, SameLowest DEF TableOK, SchedulerState
<1>6. s.ActiveInterrupt > 0 /\ Elapsed(s) \in Nat
  BY ChosenFacts
<1>7. /\ s.PendingInterruptCount \in Int
      /\ s.ActiveInterrupt \in InterruptId
      /\ \A i \in InterruptId : s.Cycles[i] \in Int
  BY <1>3 DEF SchedulerState
<1>8. Elapsed(t) = Elapsed(s) + d
  BY <1>4, <1>7 DEF Elapsed
<1>9. Behind(t) = Behind(s) + d /\ Behind(s) \in Nat
  BY <1>4, <1>6, <1>8 DEF Behind
<1>10. Chosen(t)
  BY <1>4, <1>5, <1>9 DEF Chosen
<1>11. ASSUME NEW h \in InterruptId
       PROVE  /\ s.bUsed[h] => TimeOf(t, h) = TimeOf(s, h) - d
              /\ ~s.bUsed[h] => TimeOf(t, h) = TimeOf(s, h)
  BY <1>4, <1>7, <1>9 DEF TimeOf
<1> QED BY <1>4, <1>8, <1>10, <1>11

LEMMA ChargeEffect ==
  ASSUME NEW s, Chosen(s), NEW v \in Candidates(s), NEW c \in Nat,
         NEW d, d = INT_CONVERT_TO_INTERNAL(RoundUpTo4(c), "CPU"),
         NEW t, t = M68000_AddCycles(s, c)
  PROVE  /\ Chosen(t)
         /\ t.bUsed = s.bUsed
         /\ t.Cycles = s.Cycles
         /\ t.PendingInterruptCount = s.PendingInterruptCount - d
         /\ Elapsed(t) = Elapsed(s) + d
         /\ \A h \in InterruptId : s.bUsed[h] => TimeOf(t, h) = TimeOf(s, h) - d
         /\ \A h \in InterruptId : ~s.bUsed[h] => TimeOf(t, h) = TimeOf(s, h)
<1>1. d \in Nat
  BY ChargeType
<1>2. t = Later(s, d)
  BY DEF M68000_AddCycles, Later
<1> QED BY <1>1, <1>2, LaterEffect

(* CycInt_Reset selects no entry. *)
LEMMA ResetEffect ==
  ASSUME NEW s \in SchedulerState, NEW t, t = CycInt_Reset(s)
  PROVE  /\ t \in SchedulerState
         /\ t.ActiveInterrupt = INTERRUPT_NULL
         /\ \A h \in InterruptId : ~t.bUsed[h] /\ t.Cycles[h] = INT_MAX /\ TimeOf(t, h) = INT_MAX
<1> DEFINE b == [i \in InterruptId |-> FALSE]
<1> DEFINE c == [i \in InterruptId |-> INT_MAX]
<1>1. /\ b \in [InterruptId -> BOOLEAN] /\ \A h \in InterruptId : ~b[h]
      /\ c \in [InterruptId -> Int] /\ \A h \in InterruptId : c[h] = INT_MAX
  BY IntMaxAssumption
<1>2. t = [s EXCEPT !.PendingInterruptCount = 0,
                    !.ActiveInterrupt = INTERRUPT_NULL,
                    !.nCyclesOver = 0,
                    !.bUsed = b,
                    !.Cycles = c]
  BY DEF CycInt_Reset
<1> HIDE DEF b, c
<1>3. INTERRUPT_NULL \in InterruptId
  BY DEF InterruptId
<1>4. /\ t.ActiveInterrupt = INTERRUPT_NULL /\ t.bUsed = b /\ t.Cycles = c
      /\ t.PendingInterruptCount = 0 /\ t.nCyclesOver = 0
      /\ t.PendingInterruptFunction = s.PendingInterruptFunction
      /\ t = [bUsed |-> t.bUsed, Cycles |-> t.Cycles,
             PendingInterruptCount |-> t.PendingInterruptCount,
             PendingInterruptFunction |-> t.PendingInterruptFunction,
             ActiveInterrupt |-> t.ActiveInterrupt, nCyclesOver |-> t.nCyclesOver]
  BY <1>2 DEF SchedulerState
<1>5. t \in SchedulerState
  BY <1>1, <1>3, <1>4 DEF SchedulerState
<1> QED BY <1>1, <1>4, <1>5 DEF TimeOf

LEMMA ModifyEffect ==
  ASSUME NEW s \in SchedulerState, NEW h \in Handlers, NEW n \in Int, NEW type \in CycleType,
         NEW m, m = INT_CONVERT_TO_INTERNAL(n, type),
         NEW t, t = CycInt_ModifyInterrupt(s, n, type, h)
  PROVE  /\ Fresh(t)
         /\ t.bUsed = s.bUsed
         /\ t.Cycles[h] = TimeOf(s, h) + m
         /\ \A g \in InterruptId \ {h} : t.Cycles[g] = TimeOf(s, g)
<1> DEFINE u == UpdateIfActive(s)
<1>1. Current(s, u) /\ h \in InterruptId /\ m \in Int
  BY UpdateIfActiveGives, DelayType DEF InterruptId
<1>2. PICK w : w = [u EXCEPT !.Cycles[h] = u.Cycles[h] + m]
  OBVIOUS
<1>3. t = CycInt_SetNewInterrupt(w)
  BY <1>2 DEF CycInt_ModifyInterrupt
<1> HIDE DEF u
<1>4. /\ u \in SchedulerState /\ u.bUsed = s.bUsed
      /\ \A g \in InterruptId : u.Cycles[g] = TimeOf(s, g) /\ u.Cycles[g] \in Int
  BY <1>1 DEF Current, SchedulerState
<1>5. /\ w \in SchedulerState /\ w.bUsed = u.bUsed
      /\ w.Cycles = [u.Cycles EXCEPT ![h] = u.Cycles[h] + m]
  BY <1>1, <1>2, <1>4 DEF SchedulerState
<1>6. /\ w.Cycles[h] = u.Cycles[h] + m
      /\ \A g \in InterruptId \ {h} : w.Cycles[g] = u.Cycles[g]
  BY <1>1, <1>4, <1>5 DEF SchedulerState
<1>7. /\ t.bUsed = w.bUsed /\ t.Cycles = w.Cycles /\ Fresh(t)
  BY <1>3, <1>5, SetNewTable DEF Fresh
<1> QED BY <1>1, <1>4, <1>5, <1>6, <1>7

(* CycInt_Restore: the saved table, without the time that had passed.      *)
LEMMA RestoreEffect ==
  ASSUME NEW s \in SchedulerState, NEW r \in SchedulerState,
         NEW t, t = CycInt_Restore(r, CycInt_Save(s))
  PROVE  /\ Fresh(t)
         /\ t.bUsed = s.bUsed /\ t.Cycles = s.Cycles
         /\ LowestInterrupt(t) = LowestInterrupt(s)
<1>1. PICK w : w = [ bUsed |-> s.bUsed, Cycles |-> s.Cycles,
                     PendingInterruptCount |-> s.PendingInterruptCount,
                     PendingInterruptFunction |-> s.PendingInterruptFunction,
                     ActiveInterrupt |-> r.ActiveInterrupt,
                     nCyclesOver |-> s.nCyclesOver ]
  OBVIOUS
<1>2. t = CycInt_SetNewInterrupt(w)
  BY <1>1 DEF CycInt_Restore, CycInt_Save
<1>3. w \in SchedulerState /\ w.bUsed = s.bUsed /\ w.Cycles = s.Cycles
  BY <1>1 DEF SchedulerState
<1>4. t.bUsed = w.bUsed /\ t.Cycles = w.Cycles /\ Fresh(t)
  BY <1>2, <1>3, SetNewTable DEF Fresh
<1>5. LowestInterrupt(t) = LowestInterrupt(s)
  BY <1>3, <1>4, SameLowest DEF TableOK, SchedulerState
<1> QED BY <1>3, <1>4, <1>5
=============================================================================
