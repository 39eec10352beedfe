----------------------------- MODULE CycIntSpec -----------------------------
(***************************************************************************)
(* The scheduler of module CycInt driven by the most general set of        *)
(* devices: whatever the devices are, they use it through the calls below. *)
(*                                                                         *)
(* The devices keep to the protocol of their source: the video part always *)
(* has an entry pending (Video_StartInterrupts, Video_InterruptHandler_HBL)*)
(* and never removes one, an MFP timer is resumed right after CycInt_-     *)
(* RemovePendingInterrupt (MFP_StartTimer_AB, MFP_StartTimer_CD), and only *)
(* the VBL entry is modified, while it is in use (video.c:2400).  Delays   *)
(* of the other devices may exceed the 32 bit counter (cycInt.c:224).      *)
(***************************************************************************)
EXTENDS CycInt

CONSTANTS
  Video,        \* INTERRUPT_VIDEO_VBL and INTERRUPT_VIDEO_HBL
  Vbl,          \* INTERRUPT_VIDEO_VBL
  MfpTimers,    \* the entries of the MFP timers, the only ones resumed
  VideoDelays,  \* the <<CycleTime, CycleType>> pairs the video part asks for
  Delays,       \* those of the other devices
  Offsets,      \* the CycleOffset values of CycInt_AddRelativeInterruptWithOffset
  LineChanges,  \* the CycleTime values of CycInt_ModifyInterrupt
  InstrCycles,  \* cycles of one CPU instruction
  LateBound,    \* how late the CPU may be with a due handler (bounds the model)
  TakeSnapshots,\* whether the user saves snapshots (bounds the model)
  NoSnapshot

Delay(d) == INT_CONVERT_TO_INTERNAL(d[1], d[2])

(* "there is always a VBL or HBL counter pending which fits fine into the  *)
(* 32 bit variable" (cycInt.c:228): the second half of that sentence.      *)
VideoFits == \A d \in VideoDelays : Delay(d) < INT_MAX

ASSUME VideoAssumption ==
  Video \subseteq Handlers /\ Vbl \in Video /\ MfpTimers \subseteq Handlers \ Video
ASSUME DelaysAssumption ==
  /\ VideoDelays \subseteq Nat \X CycleType
  /\ Delays \subseteq Nat \X CycleType
  /\ Offsets \subseteq Int
ASSUME LineChangesAssumption == LineChanges \subseteq Int
ASSUME CpuAssumption == InstrCycles \subseteq Nat /\ LateBound \in Nat /\ TakeSnapshots \in BOOLEAN
ASSUME NoSnapshotAssumption ==
  /\ NoSnapshot \notin Snapshot
  /\ NoSnapshot \notin [armed : SUBSET Handlers, left : [Handlers -> Int]]

VARIABLES
  cyc,          \* the scheduler
  snap,         \* the memory snapshot, or NoSnapshot
  bQuitProgram  \* the user asked to quit

vars == <<cyc, snap, bQuitProgram>>

(* The C initialisers, then Reset_ST up to Video_StartInterrupts. *)
Zeroed ==
  [ bUsed |-> [i \in InterruptId |-> FALSE], Cycles |-> [i \in InterruptId |-> 0],
    PendingInterruptCount |-> 0, PendingInterruptFunction |-> INTERRUPT_NULL,
    ActiveInterrupt |-> INTERRUPT_NULL, nCyclesOver |-> 0 ]

Reset_ST(s, v, d) == CycInt_AddRelativeInterrupt(CycInt_Reset(s), d[1], d[2], v)

(* A video entry other than h is in use. *)
VideoPending(s, h) == \E v \in Video \ {h} : s.bUsed[v]

Init ==
  /\ \E v \in Video, d \in VideoDelays : cyc = Reset_ST(Zeroed, v, d)
  /\ snap = NoSnapshot
  /\ bQuitProgram = FALSE

(* The CPU charges the cycles of an instruction.  Several may be charged   *)
(* before the CPU loop looks at the counter again.                         *)
AddCycles(c) ==
  /\ ~bQuitProgram
  /\ cyc.PendingInterruptCount > -LateBound
  /\ cyc' = M68000_AddCycles(cyc, c)
  /\ UNCHANGED <<snap, bQuitProgram>>

(* The CPU loop calls PendingInterruptFunction; every handler starts by    *)
(* acknowledging the active interrupt.  The HBL of the last line starts no *)
(* other one since the VBL is pending.                                     *)
CallHandler ==
  /\ HandlerIsDue(cyc)
  /\ VideoPending(cyc, cyc.PendingInterruptFunction)
  /\ cyc' = CycInt_AcknowledgeInterrupt(cyc)
  /\ UNCHANGED <<snap, bQuitProgram>>

(* The other video handlers start the next video interrupt. *)
CallVideoHandler(v, d) ==
  /\ HandlerIsDue(cyc)
  /\ cyc.PendingInterruptFunction \in Video
  /\ cyc' = CycInt_AddRelativeInterrupt(CycInt_AcknowledgeInterrupt(cyc), d[1], d[2], v)
  /\ UNCHANGED <<snap, bQuitProgram>>

(* A program changes the position of the HBL, or the VBL is set as well. *)
StartVideo(v, d) ==
  /\ cyc' = CycInt_AddRelativeInterrupt(cyc, d[1], d[2], v)
  /\ UNCHANGED <<snap, bQuitProgram>>

StartTimer(h, d, o) ==
  /\ cyc' = CycInt_AddRelativeInterruptWithOffset(cyc, d[1], d[2], h, o)
  /\ UNCHANGED <<snap, bQuitProgram>>

StopTimer(h) ==
  /\ cyc' = CycInt_RemovePendingInterrupt(cyc, h)
  /\ UNCHANGED <<snap, bQuitProgram>>

(* MFP_StartTimer_AB / CD with TimerCanResume. *)
ResumeTimer(h) ==
  /\ cyc' = CycInt_ResumeStoppedInterrupt(CycInt_RemovePendingInterrupt(cyc, h), h)
  /\ UNCHANGED <<snap, bQuitProgram>>

(* The length of the last line of a frame changes by a few cycles.  The    *)
(* VBL is then due after the end of that line and at most two lines ahead, *)
(* so its new time is neither past nor beyond the 32 bit counter.          *)
ModifyVbl(n) ==
  /\ CycInt_InterruptActive(cyc, Vbl)
  /\ CyclesLeft(cyc, Vbl) + INT_CONVERT_TO_INTERNAL(n, "CPU") \in 0 .. (INT_MAX - 1)
  /\ cyc' = CycInt_ModifyInterrupt(cyc, n, "CPU", Vbl)
  /\ UNCHANGED <<snap, bQuitProgram>>

(* The user quits: IKBD_InterruptHandler_AutoSend acknowledges its entry,  *)
(* asks for entry 0 and makes the CPU loop return before the next          *)
(* instruction.                                                            *)
CallQuitHandler ==
  /\ ~bQuitProgram
  /\ HandlerIsDue(cyc)
  /\ cyc.PendingInterruptFunction \notin Video
  /\ bQuitProgram' = TRUE
  /\ cyc' = CycInt_AddAbsoluteInterrupt(CycInt_AcknowledgeInterrupt(cyc), 4, "CPU", INTERRUPT_NULL)
  /\ UNCHANGED snap

ResetMachine(v, d) ==
  /\ cyc' = Reset_ST(cyc, v, d)
  /\ UNCHANGED <<snap, bQuitProgram>>

(* The user interface saves and restores, at any point of an instruction   *)
(* or of a handler.  TakeSnapshots is FALSE in models without them.         *)
SaveSnapshot ==
  /\ ~bQuitProgram
  /\ TakeSnapshots
  /\ snap' = CycInt_Save(cyc)
  /\ UNCHANGED <<cyc, bQuitProgram>>

RestoreSnapshot ==
  /\ ~bQuitProgram
  /\ snap # NoSnapshot
  /\ cyc' = CycInt_Restore(cyc, snap)
  /\ UNCHANGED <<snap, bQuitProgram>>

Next ==
  \/ \E c \in InstrCycles : AddCycles(c)
  \/ CallHandler
  \/ \E v \in Video, d \in VideoDelays : CallVideoHandler(v, d) \/ StartVideo(v, d)
  \/ \E h \in Handlers \ Video, d \in Delays, o \in Offsets : StartTimer(h, d, o)
  \/ \E h \in Handlers \ Video : StopTimer(h)
  \/ \E h \in MfpTimers : ResumeTimer(h)
  \/ \E n \in LineChanges : ModifyVbl(n)
  \/ CallQuitHandler
  \/ \E v \in Video, d \in VideoDelays : ResetMachine(v, d)
  \/ SaveSnapshot
  \/ RestoreSnapshot

Spec == Init /\ [][Next]_vars

-----------------------------------------------------------------------------
(* Type invariant: the scheduler and the snapshot keep their types. *)
TypeOK ==
  /\ cyc \in SchedulerState
  /\ snap \in Snapshot \cup {NoSnapshot}
  /\ bQuitProgram \in BOOLEAN

(* What ties the counter of the CPU to the table, in a scheduler state as  *)
(* in a saved one: the running function is that of the entry the search    *)
(* would select now, some video entry is in use and those in use fit into  *)
(* the 32 bit counter (so that the search finds one, and overlooks nothing *)
(* that is due earlier), and time has not run backwards.                   *)
Consistent(s) ==
  /\ s.PendingInterruptFunction = LowestInterrupt(s)
  /\ \E v \in Video : s.bUsed[v]
  /\ \A v \in Video : s.bUsed[v] => s.Cycles[v] < INT_MAX
  /\ s.PendingInterruptCount <= s.Cycles[s.PendingInterruptFunction]

(* The inductive invariant of the scheduler (cycInt.c keeps the two        *)
(* globals, ActiveInterrupt and the table in step across every call).      *)
SchedulerInv ==
  /\ cyc.ActiveInterrupt = cyc.PendingInterruptFunction
  /\ Consistent(cyc)
  /\ snap # NoSnapshot => Consistent(snap)

(* No timer is missed: as soon as any timer in use is due, the test of the *)
(* CPU loop (PendingInterruptCount <= 0 && PendingInterruptFunction) is    *)
(* true and the handler it calls belongs to a timer in use that is due,    *)
(* and due no later than any other one.  (cycInt.c:228 argues about the    *)
(* 32 bit counter; the CPU only ever looks at that counter.)               *)
NoExpiredTimerMissed ==
  \A h \in Handlers :
    cyc.bUsed[h] /\ CyclesLeft(cyc, h) <= 0 =>
      /\ HandlerIsDue(cyc)
      /\ cyc.bUsed[cyc.PendingInterruptFunction]
      /\ \A g \in Handlers :
           cyc.bUsed[g] => CyclesLeft(cyc, cyc.PendingInterruptFunction) <= CyclesLeft(cyc, g)

-----------------------------------------------------------------------------
(* The refinement: the timers in use, with the time they have left.  A     *)
(* snapshot has no ActiveInterrupt, but the same entry in its function.    *)
Armed(s) == {h \in Handlers : s.bUsed[h]}

TimeLeft(s) ==
  [h \in Handlers |->
     IF s.bUsed[h]
     THEN s.Cycles[h] - (s.Cycles[s.PendingInterruptFunction] - s.PendingInterruptCount)
     ELSE s.Cycles[h]]

Checkpoint ==
  IF snap = NoSnapshot THEN NoSnapshot
  ELSE [armed |-> Armed(snap), left |-> TimeLeft(snap)]

Timers == INSTANCE EventTimers
  WITH Timer <- Handlers, NoCheckpoint <- NoSnapshot,
       armed <- Armed(cyc), left <- TimeLeft(cyc), checkpoint <- Checkpoint

(* The lazy scheduler implements plain independent timers: no call of one  *)
(* device, no acknowledge, no snapshot changes the time another timer has  *)
(* left, and timers go off in the order they are due.                      *)
ImplementsTimers == Timers!Spec
=============================================================================
