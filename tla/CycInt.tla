------------------------------- MODULE CycInt -------------------------------
(***************************************************************************)
(* The cycle based event scheduler of Hatari (src/src/cycInt.c).           *)
(*                                                                         *)
(* Every device that wants to run "in n cycles" owns one entry of the      *)
(* table InterruptHandlers.  The scheduler keeps the entry that is due     *)
(* first in ActiveInterrupt and lets the CPU count down one variable only, *)
(* PendingInterruptCount; the table is brought up to date lazily, when an  *)
(* entry is added, changed, removed or acknowledged.                       *)
(*                                                                         *)
(* The scheduler is single threaded C code that the devices call in the    *)
(* middle of their own operations, so each function is an operator from a  *)
(* scheduler state to a scheduler state and a caller composes them.        *)
(***************************************************************************)
EXTENDS Integers, FiniteSets

CONSTANTS
  Handlers,             \* the entries 1 .. MAX_INTERRUPTS-1 of the table
  INT_MAX,              \* the largest C int, as seen by the 32 bit counter
  INT_CPU_TO_INTERNAL,  \* internal cycles per CPU cycle
  INT_MFP_TO_INTERNAL,  \* internal cycles per MFP cycle
  nCpuFreqShift         \* 0, 1, 2 for an 8, 16, 32 MHz CPU

ASSUME HandlersAssumption == Handlers \subseteq Nat \ {0} /\ IsFiniteSet(Handlers)
ASSUME IntMaxAssumption == INT_MAX \in Nat
ASSUME FactorAssumption ==
  /\ INT_CPU_TO_INTERNAL \in Nat \ {0}
  /\ INT_MFP_TO_INTERNAL \in Nat \ {0}
  /\ nCpuFreqShift \in 0 .. 2

INTERRUPT_NULL == 0
InterruptId == {INTERRUPT_NULL} \cup Handlers

(* The units in which a delay is given to the scheduler. *)
CycleType == {"CPU", "MFP", "CPU8"}

(* A function pointer of the table is represented by the entry it belongs  *)
(* to; INTERRUPT_NULL stands for the NULL pointer.                         *)
SchedulerState ==
  [ bUsed                    : [InterruptId -> BOOLEAN],
    Cycles                   : [InterruptId -> Int],
    PendingInterruptCount    : Int,
    PendingInterruptFunction : InterruptId,
    ActiveInterrupt          : InterruptId,
    nCyclesOver              : Int ]

-----------------------------------------------------------------------------
(* Units.  2 ^ nCpuFreqShift is written as a choice among the three        *)
(* frequencies of the emulated machines.                                   *)

FreqFactor == IF nCpuFreqShift = 0 THEN 1 ELSE IF nCpuFreqShift = 1 THEN 2 ELSE 4

INT_CONVERT_TO_INTERNAL(cyc, type) ==
  IF type = "CPU" THEN cyc * INT_CPU_TO_INTERNAL
  ELSE IF type = "MFP" THEN cyc * INT_MFP_TO_INTERNAL * FreqFactor
  ELSE cyc * INT_CPU_TO_INTERNAL * FreqFactor

(* The division of C rounds towards zero. *)
CDiv(a, b) == IF a >= 0 THEN a \div b ELSE -((-a) \div b)

INT_CONVERT_FROM_INTERNAL(cyc, type) ==
  IF type = "CPU" THEN CDiv(cyc, INT_CPU_TO_INTERNAL)
  ELSE IF type = "MFP"
       THEN CDiv(cyc + INT_MFP_TO_INTERNAL - 1, INT_MFP_TO_INTERNAL) \div FreqFactor
  ELSE CDiv(cyc, INT_CPU_TO_INTERNAL) \div FreqFactor

-----------------------------------------------------------------------------
(* The entries the search of CycInt_SetNewInterrupt can select: in use and *)
(* below the INT_MAX the search starts from.                               *)
Candidates(s) == {i \in Handlers : s.bUsed[i] /\ s.Cycles[i] < INT_MAX}

(* The strict comparison of the search keeps the lowest index of a tie. *)
IsFirst(s, i) ==
  \A j \in Candidates(s) :
     s.Cycles[i] < s.Cycles[j] \/ (s.Cycles[i] = s.Cycles[j] /\ i <= j)

FirstUsedInterrupt(s) ==       \* a search that forgets to compare the cycles
  IF Candidates(s) = {} THEN INTERRUPT_NULL
  ELSE CHOOSE i \in Candidates(s) : \A j \in Candidates(s) : i <= j

LowestInterrupt(s) ==
  IF Candidates(s) = {} THEN INTERRUPT_NULL
  ELSE CHOOSE i \in Candidates(s) : IsFirst(s, i)

CycInt_SetNewInterrupt(s) ==
  [s EXCEPT !.PendingInterruptCount = s.Cycles[LowestInterrupt(s)],
            !.PendingInterruptFunction = LowestInterrupt(s),
            !.ActiveInterrupt = LowestInterrupt(s)]

(* Cycles spent since the table was last brought up to date. *)
Elapsed(s) == s.Cycles[s.ActiveInterrupt] - s.PendingInterruptCount

CycInt_UpdateInterrupt(s) ==
  [s EXCEPT !.nCyclesOver = s.PendingInterruptCount,
            !.Cycles = [i \in InterruptId |->
                          IF s.bUsed[i] THEN s.Cycles[i] - Elapsed(s) ELSE s.Cycles[i]]]

(* The guard "if ( ActiveInterrupt > 0 )" of the functions that add time. *)
UpdateIfActive(s) ==
  IF s.ActiveInterrupt > 0 THEN CycInt_UpdateInterrupt(s) ELSE s

-----------------------------------------------------------------------------
(* CycInt_Reset leaves PendingInterruptFunction as it is. *)
CycInt_Reset(s) ==
  [s EXCEPT !.PendingInterruptCount = 0,
            !.ActiveInterrupt = INTERRUPT_NULL,
            !.nCyclesOver = 0,
            !.bUsed = [i \in InterruptId |-> FALSE],
            !.Cycles = [i \in InterruptId |-> INT_MAX]]

CycInt_AcknowledgeInterrupt(s) ==
  LET u == CycInt_UpdateInterrupt(s)
  IN  CycInt_SetNewInterrupt([u EXCEPT !.bUsed[s.ActiveInterrupt] = FALSE])

CycInt_AddAbsoluteInterrupt(s, CycleTime, type, h) ==
  LET u == UpdateIfActive(s)
  IN  CycInt_SetNewInterrupt(
        [u EXCEPT !.bUsed[h] = TRUE,
                  !.Cycles[h] = INT_CONVERT_TO_INTERNAL(CycleTime, type) + u.nCyclesOver])

AddWithoutUpdate(s, CycleTime, type, h, CycleOffset) ==  \* a forgotten update
  CycInt_SetNewInterrupt(
    [s EXCEPT !.bUsed[h] = TRUE,
              !.Cycles[h] = INT_CONVERT_TO_INTERNAL(CycleTime, type) + CycleOffset])

CycInt_AddRelativeInterruptWithOffset(s, CycleTime, type, h, CycleOffset) ==
  LET u == UpdateIfActive(s)
  IN  CycInt_SetNewInterrupt(
        [u EXCEPT !.bUsed[h] = TRUE,
                  !.Cycles[h] = INT_CONVERT_TO_INTERNAL(CycleTime, type) + CycleOffset])

CycInt_AddRelativeInterrupt(s, CycleTime, type, h) ==
  CycInt_AddRelativeInterruptWithOffset(s, CycleTime, type, h, 0)

CycInt_ModifyInterrupt(s, CycleTime, type, h) ==
  LET u == UpdateIfActive(s)
  IN  CycInt_SetNewInterrupt(
        [u EXCEPT !.Cycles[h] = u.Cycles[h] + INT_CONVERT_TO_INTERNAL(CycleTime, type)])

RemoveWithoutSearch(s, h) ==     \* a forgotten search for the next entry
  [CycInt_UpdateInterrupt(s) EXCEPT !.bUsed[h] = FALSE]

(* The entry is updated before it is switched off, so that it can resume. *)
CycInt_RemovePendingInterrupt(s, h) ==
  CycInt_SetNewInterrupt([CycInt_UpdateInterrupt(s) EXCEPT !.bUsed[h] = FALSE])

(* Here the entry is switched on before the update. *)
CycInt_ResumeStoppedInterrupt(s, h) ==
  CycInt_SetNewInterrupt(CycInt_UpdateInterrupt([s EXCEPT !.bUsed[h] = TRUE]))

CycInt_InterruptActive(s, h) == s.bUsed[h]

(* Internal cycles left before entry h is due (whatever its name says). *)
CyclesLeft(s, h) == s.Cycles[h] - Elapsed(s)

CycInt_FindCyclesPassed(s, h, type) ==
  INT_CONVERT_FROM_INTERNAL(CyclesLeft(s, h), type)

-----------------------------------------------------------------------------
(* CycInt_MemorySnapShot_Capture.  A saved state holds everything but      *)
(* ActiveInterrupt; restoring ends with CycInt_SetNewInterrupt.            *)
Snapshot ==
  [ bUsed                    : [InterruptId -> BOOLEAN],
    Cycles                   : [InterruptId -> Int],
    PendingInterruptCount    : Int,
    PendingInterruptFunction : InterruptId,
    nCyclesOver              : Int ]

CycInt_Save(s) ==
  [ bUsed |-> s.bUsed, Cycles |-> s.Cycles,
    PendingInterruptCount |-> s.PendingInterruptCount,
    PendingInterruptFunction |-> s.PendingInterruptFunction,
    nCyclesOver |-> s.nCyclesOver ]

CycInt_Restore(s, snap) ==
  CycInt_SetNewInterrupt(
    [ bUsed |-> snap.bUsed, Cycles |-> snap.Cycles,
      PendingInterruptCount |-> snap.PendingInterruptCount,
      PendingInterruptFunction |-> snap.PendingInterruptFunction,
      ActiveInterrupt |-> s.ActiveInterrupt,
      nCyclesOver |-> snap.nCyclesOver ])

-----------------------------------------------------------------------------
(* The CPU side: M68000_AddCycles charges an instruction, rounded up to a  *)
(* multiple of 4 cycles, to PendingInterruptCount.                         *)
RoundUpTo4(c) == ((c + 3) \div 4) * 4

M68000_AddCycles(s, c) ==
  [s EXCEPT !.PendingInterruptCount =
       s.PendingInterruptCount - INT_CONVERT_TO_INTERNAL(RoundUpTo4(c), "CPU")]

(* The condition under which the CPU loop calls PendingInterruptFunction. *)
HandlerIsDue(s) ==
  s.PendingInterruptCount <= 0 /\ s.PendingInterruptFunction # INTERRUPT_NULL
=============================================================================
