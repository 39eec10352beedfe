------------------------------ MODULE FDCProofs ------------------------------
(***************************************************************************)
(* Theorems about module FDCSpec, for every number of drives, tracks and   *)
(* sectors, every length of a sector, of the FIFO and of the waits, every  *)
(* set of commands and values, and however often program and user act: the *)
(* request line follows its sources, the end of a command makes an edge,   *)
(* the DMA stops at the count it was programmed with, a controller that is *)
(* busy, or whose motor is on, is driven by a command with a running       *)
(* timer, and the search for a sector that exists finds it.                *)
(*                                                                         *)
(* For the first two only five fields of the controller matter, and few    *)
(* operators change them.  What a pass of the handler may do to them is    *)
(* one relation, Step; it needs that a command is only ever in a state of  *)
(* its own.  The next two rest on a predicate of the controller, Held,     *)
(* which each operator of module FDC preserves; the operators that run     *)
(* outside of the handler also keep the command and a running timer        *)
(* (Steady).  The last one needs where the head is when a search begins    *)
(* and how many index pulses have gone by since then (OnCourse).           *)
(***************************************************************************)
EXTENDS FDCSpec, TLAPS

Fields == {"IRQ", "line", "CommandType", "Command", "CommandState"}
Shape(s) == Fields \subseteq DOMAIN s

(* The states a command goes through. *)
Positioning == {"START", "SPIN_UP", "MOTOR_ON", "VERIFY", "HEAD_OK", "NEXT_HEADER",
                "CHECK_HEADER", "COMPLETE"}
Starting == {"START", "SPIN_UP", "HEAD_LOAD", "MOTOR_ON"}
StatesOf(c) ==
  CASE c = "NULL" -> {"NULL"}
    [] c = "MOTOR_STOP" -> {"STOP", "STOP_WAIT"}
    [] c = "RESTORE" -> Positioning \cup {"LOOP"}
    [] c \in {"SEEK", "STEP"} -> Positioning
    [] c \in TypeII -> Starting \cup {"NEXT_HEADER", "CHECK_HEADER", "TRANSFER_START",
                                      "TRANSFER_LOOP", "CRC", "MULTI", "RNF", "COMPLETE"}
    [] c = "READADDRESS" -> Starting \cup {"NEXT_HEADER", "TRANSFER_START", "TRANSFER_LOOP",
                                           "RNF", "COMPLETE"}
    [] c \in {"READTRACK", "WRITETRACK"} ->
         Starting \cup {"INDEX", "TRANSFER_LOOP", "COMPLETE"}

CommandNames == {"NULL", "MOTOR_STOP", "RESTORE", "SEEK", "STEP"} \cup TypeII \cup TypeIII
Proper(s) == s.Command \in CommandNames /\ s.CommandState \in StatesOf(s.Command)

LEMMA StateSets ==
  /\ StatesOf("NULL") = {"NULL"} /\ StatesOf("MOTOR_STOP") = {"STOP", "STOP_WAIT"}
  /\ StatesOf("RESTORE") = Positioning \cup {"LOOP"}
  /\ StatesOf("SEEK") = Positioning /\ StatesOf("STEP") = Positioning
  /\ \A c \in TypeII : StatesOf(c) = Starting \cup {"NEXT_HEADER", "CHECK_HEADER",
                            "TRANSFER_START", "TRANSFER_LOOP", "CRC", "MULTI", "RNF", "COMPLETE"}
  /\ StatesOf("READADDRESS") = Starting \cup {"NEXT_HEADER", "TRANSFER_START",
                                              "TRANSFER_LOOP", "RNF", "COMPLETE"}
  /\ \A c \in {"READTRACK", "WRITETRACK"} :
       StatesOf(c) = Starting \cup {"INDEX", "TRANSFER_LOOP", "COMPLETE"}
  BY DEF StatesOf, TypeII

(* A request without a source is on the line only where no command has     *)
(* been started since a reset.                                             *)
LineFollows(s) == s.line \in {"HIGH", "LOW"} /\ (s.IRQ # {} => s.line = "LOW")
Released(s) ==
  /\ s.line = "LOW" /\ s.IRQ = {} => s.CommandType = 0
  /\ s.Command # "NULL" => s.CommandType # 0

IInv ==
  /\ Shape(fdc) /\ Proper(fdc) /\ LineFollows(fdc)
  /\ phase # "rom" => Released(fdc)

(* What an operator does to the fields: the command goes to state st, or   *)
(* nothing; a source raises a request.                                     *)
Moved(s, t, st) ==
  /\ Shape(t)
  /\ t.IRQ = s.IRQ /\ t.line = s.line /\ t.CommandType = s.CommandType /\ t.Command = s.Command
  /\ t.CommandState = st
Same(s, t) == Moved(s, t, s.CommandState)
Raised(s, t, source) ==
  /\ t.line = IF s.IRQ = {} THEN "LOW" ELSE s.line
  /\ source \in t.IRQ /\ t.IRQ \subseteq s.IRQ \cup {source}
MayRaise(s, t, source) == (t.IRQ = s.IRQ /\ t.line = s.line) \/ Raised(s, t, source)

(* A pass of the handler. *)
Step(s, t) ==
  /\ Shape(t) /\ t.CommandType = s.CommandType
  /\ \/ t.IRQ = s.IRQ /\ t.line = s.line /\ Proper(t)
     \/ Raised(s, t, "COMPLETE") /\ Proper(t)

-----------------------------------------------------------------------------
(* Operators that keep the fields. *)

LEMMA SetPositionSame ==
  ASSUME NEW s, Shape(s), NEW d, NEW known, NEW p PROVE Same(s, SetPosition(s, d, known, p))
  BY DEF Same, Moved, Shape, Fields, SetPosition

LEMMA InitSame == ASSUME NEW s, Shape(s), NEW d, NEW p PROVE Same(s, FDC_IndexPulse_Init(s, d, p))
  BY SetPositionSame DEF FDC_IndexPulse_Init

LEMMA ForgetSame == ASSUME NEW s, Shape(s), NEW d PROVE Same(s, ForgetPosition(s, d))
  BY SetPositionSame DEF ForgetPosition

LEMMA SameTwice == ASSUME NEW s, NEW t, NEW u, Same(s, t), Same(t, u) PROVE Same(s, u)
  BY DEF Same, Moved

LEMMA MovedTwice ==
  ASSUME NEW s, NEW t, NEW u, NEW st, Same(s, t), Moved(t, u, st) PROVE Moved(s, u, st)
  BY DEF Same, Moved

LEMMA SameShape == ASSUME NEW s, NEW t, Same(s, t) PROVE Shape(t)
  BY DEF Same, Moved

LEMMA TurnSame == ASSUME NEW s, Shape(s) PROVE Same(s, Turn(s))
  BY DEF Same, Moved, Shape, Fields, Turn

LEMMA PushSame == ASSUME NEW s, Shape(s) PROVE Same(s, FDC_DMA_FIFO_Push(s))
<1> DEFINE t == [s EXCEPT !.FIFO_Size = 0, !.room = @ - FifoBytes]
<1>1. Same(s, t) /\ Same(s, [s EXCEPT !.FIFO_Size = @ + 1]) /\ Same(s, s)
  BY DEF Same, Moved, Shape, Fields
<1>2. Same(t, CountRead(t))
  <2> HIDE DEF t
  <2> QED BY <1>1 DEF CountRead, Same, Moved, Shape, Fields
<1> HIDE DEF t
<1>3. Same(s, CountRead(t))
  BY <1>1, <1>2, SameTwice
<1> QED BY <1>1, <1>3 DEF FDC_DMA_FIFO_Push, t

LEMMA PullSame == ASSUME NEW s, Shape(s) PROVE Same(s, FDC_DMA_FIFO_Pull(s))
<1> DEFINE t == [s EXCEPT !.FIFO_Size = FifoBytes - 1]
<1>1. Same(s, t) /\ Same(s, [s EXCEPT !.FIFO_Size = @ - 1]) /\ Same(s, s)
  BY DEF Same, Moved, Shape, Fields
<1>2. Same(t, CountWrite(t))
  <2> HIDE DEF t
  <2> QED BY <1>1 DEF CountWrite, Same, Moved, Shape, Fields
<1> HIDE DEF t
<1>3. Same(s, CountWrite(t))
  BY <1>1, <1>2, SameTwice
<1> QED BY <1>1, <1>3 DEF FDC_DMA_FIFO_Pull, t

LEMMA ResetDMASame == ASSUME NEW s, Shape(s) PROVE Same(s, FDC_ResetDMA(s))
  BY DEF Same, Moved, Shape, Fields, FDC_ResetDMA

LEMMA AtMoved == ASSUME NEW s, Shape(s), NEW st, NEW delay PROVE Moved(s, At(s, st, delay), st)
  BY DEF Moved, Shape, Fields, At

LEMMA LaterMoved ==
  ASSUME NEW s, Shape(s), NEW st
  PROVE Moved(s, Later(s, st), st) /\ Moved(s, Immediately(s, st), st)
  BY AtMoved DEF Later, Immediately

(* A change of the data, then of the state. *)
LEMMA ThenLater ==
  ASSUME NEW s, NEW t, Same(s, t), NEW st
  PROVE Moved(s, Later(t, st), st) /\ Moved(s, Immediately(t, st), st)
  BY LaterMoved, SameShape, MovedTwice

LEMMA SetDriveSideSame ==
  ASSUME NEW s, Shape(s), NEW d, NEW p PROVE Same(s, FDC_SetDriveSide(s, d, p))
<1> DEFINE old == IF Selected(s) THEN ForgetPosition(s, s.DriveSel) ELSE s
           new == [old EXCEPT !.DriveSel = d]
<1>1. Same(s, s)
  BY DEF Same, Moved
<1>2. Same(s, old)
  BY <1>1, ForgetSame
<1>3. Same(old, new)
  <2> HIDE DEF old
  <2> QED BY <1>2 DEF Same, Moved, Shape, Fields
<1> HIDE DEF old, new
<1>4. Same(s, new) /\ Shape(new)
  BY <1>2, <1>3, SameTwice, SameShape
<1>5. Same(s, FDC_IndexPulse_Init(new, d, p)) /\ Same(s, ForgetPosition(new, d))
  BY <1>4, InitSame, ForgetSame, SameTwice
<1> QED BY <1>1, <1>4, <1>5 DEF FDC_SetDriveSide, new, old

LEMMA InsertSame ==
  ASSUME NEW s, Shape(s), NEW d, NEW prot, NEW p PROVE Same(s, FDC_InsertFloppy(s, d, prot, p))
<1> DEFINE t == [s EXCEPT !.drives[d].inserted = TRUE, !.drives[d].protected = prot]
<1>1. Same(s, t) /\ Shape(t)
  BY DEF Same, Moved, Shape, Fields
<1> HIDE DEF t
<1>2. Same(s, FDC_IndexPulse_Init(t, d, p)) /\ Same(s, ForgetPosition(t, d))
  BY <1>1, InitSame, ForgetSame, SameTwice
<1> QED BY <1>2 DEF FDC_InsertFloppy, t

LEMMA EjectSame == ASSUME NEW s, Shape(s), NEW d PROVE Same(s, FDC_EjectFloppy(s, d))
<1> DEFINE t == [s EXCEPT !.drives[d].inserted = FALSE]
<1>1. Same(s, t) /\ Shape(t)
  BY DEF Same, Moved, Shape, Fields
<1> HIDE DEF t
<1>2. Same(s, ForgetPosition(t, d))
  BY <1>1, ForgetSame, SameTwice
<1> QED BY <1>2 DEF FDC_EjectFloppy, t

-----------------------------------------------------------------------------
(* Requests. *)

Kept(s, t) ==
  Shape(t) /\ t.CommandType = s.CommandType /\ t.Command = s.Command /\ t.CommandState = s.CommandState

LEMMA SetIRQRaises ==
  ASSUME NEW s, Shape(s), NEW source, source # "HDC"
  PROVE Raised(s, FDC_SetIRQ(s, source), source) /\ Kept(s, FDC_SetIRQ(s, source))
  BY DEF Raised, Kept, Shape, Fields, FDC_SetIRQ

LEMMA ClearIRQReleases ==
  ASSUME NEW s, Shape(s)
  PROVE LET t == FDC_ClearIRQ(s) IN
        /\ Kept(s, t) /\ t.IRQ \subseteq s.IRQ
        /\ \/ t.IRQ = {} /\ t.line = "HIGH"
           \/ t.IRQ # {} /\ s.IRQ # {} /\ t.line = s.line
<1>1. CASE "FORCED" \in s.IRQ
  <2> DEFINE t == [s EXCEPT !.IRQ = {"FORCED"}]
  <2>1. Kept(s, t) /\ t.IRQ = {"FORCED"} /\ t.line = s.line
    BY DEF Kept, Shape, Fields
  <2> QED BY <1>1, <2>1 DEF FDC_ClearIRQ
<1>2. CASE "FORCED" \notin s.IRQ
  <2> DEFINE t == [s EXCEPT !.IRQ = {}, !.line = "HIGH"]
  <2>1. Kept(s, t) /\ t.IRQ = {} /\ t.line = "HIGH"
    BY DEF Kept, Shape, Fields
  <2> QED BY <1>2, <2>1 DEF FDC_ClearIRQ
<1> QED BY <1>1, <1>2

(* An index pulse is the only request that the passing of time makes. *)
LEMMA AccessKeeps ==
  ASSUME NEW s, Shape(s), NEW p
  PROVE LET t == FDC_IndexPulse_Update(s, p) IN Kept(s, t) /\ MayRaise(s, t, "INDEX")
<1> DEFINE t == [s EXCEPT !.pulse = FALSE, !.IndexPulse_Counter = Min({@ + 1, MaxPulses})]
<1>1. Same(s, t) /\ Shape(t)
  BY DEF Same, Moved, Shape, Fields
<1> HIDE DEF t
<1>2. Same(s, s) /\ Same(s, FDC_IndexPulse_Init(s, s.DriveSel, p))
  BY InitSame DEF Same, Moved
<1>3. Raised(t, FDC_SetIRQ(t, "INDEX"), "INDEX") /\ Kept(t, FDC_SetIRQ(t, "INDEX"))
  BY <1>1, SetIRQRaises
<1>4. Raised(s, FDC_SetIRQ(t, "INDEX"), "INDEX") /\ Kept(s, FDC_SetIRQ(t, "INDEX"))
  BY <1>1, <1>3 DEF Raised, Kept, Same, Moved
<1>5. \A u : Same(s, u) => Kept(s, u) /\ MayRaise(s, u, "INDEX")
  BY DEF Same, Moved, Kept, MayRaise
<1> QED BY <1>1, <1>2, <1>4, <1>5 DEF FDC_IndexPulse_Update, MayRaise, t

(* The end of a command. *)
LEMMA CompleteRaises ==
  ASSUME NEW s, NEW t, Same(s, t)
  PROVE LET u == FDC_CmdCompleteCommon(t, TRUE) IN
        /\ Raised(s, u, "COMPLETE") /\ Proper(u)
        /\ Shape(u) /\ u.CommandType = s.CommandType
<1> DEFINE v == FDC_SetIRQ(t, "COMPLETE")
           w == [v EXCEPT !.STR = @ \ {"BUSY"}, !.Command = "MOTOR_STOP"]
           u == Immediately(w, "STOP")
<1>1. Raised(t, v, "COMPLETE") /\ Kept(t, v)
  BY SetIRQRaises, SameShape
<1> HIDE DEF v
<1>2. /\ w.IRQ = v.IRQ /\ w.line = v.line /\ w.CommandType = v.CommandType
      /\ w.Command = "MOTOR_STOP" /\ Shape(w)
  BY <1>1 DEF Kept, Shape, Fields
<1> HIDE DEF w
<1>3. Moved(w, u, "STOP")
  BY <1>2, LaterMoved
<1>4. u = FDC_CmdCompleteCommon(t, TRUE)
  BY DEF FDC_CmdCompleteCommon, u, v, w
<1> HIDE DEF u
<1>5. Proper(u)
  BY <1>2, <1>3, StateSets DEF Moved, Proper, CommandNames
<1>6. Raised(s, u, "COMPLETE") /\ Shape(u) /\ u.CommandType = s.CommandType
  BY <1>1, <1>2, <1>3 DEF Moved, Raised, Same, Kept
<1> QED BY <1>4, <1>5, <1>6

LEMMA CompleteSteps ==
  ASSUME NEW s, NEW t, Same(s, t) PROVE Step(s, FDC_CmdCompleteCommon(t, TRUE))
  BY CompleteRaises DEF Step

LEMMA NotFoundSame == ASSUME NEW s, Shape(s) PROVE Same(s, NotFound(s)) /\ Same(s, s)
  BY DEF NotFound, Same, Moved, Shape, Fields

LEMMA EndedSteps == ASSUME NEW s, Shape(s) PROVE Step(s, Ended(s))
  BY NotFoundSame, CompleteSteps DEF Ended

(* A move to another state of the same command. *)
LEMMA MovedSteps ==
  ASSUME NEW s, NEW t, NEW st, Proper(s), Moved(s, t, st), st \in StatesOf(s.Command)
  PROVE Step(s, t)
  BY DEF Moved, Step, Proper

-----------------------------------------------------------------------------
(* The commands. *)

LEMMA SetMotorSame == ASSUME NEW s, Shape(s), NEW p PROVE Same(s, FDC_Set_MotorON(s, p))
<1> DEFINE t == [s EXCEPT !.STR = @ \cup {"MOTOR_ON"}]
<1>1. Same(s, t) /\ Shape(t)
  BY DEF Same, Moved, Shape, Fields
<1> HIDE DEF t
<1>2. Same(s, FDC_IndexPulse_Init(t, s.DriveSel, p))
  BY <1>1, InitSame, SameTwice
<1> QED BY <1>1, <1>2 DEF FDC_Set_MotorON, t

LEMMA StartMotorMoves ==
  ASSUME NEW s, Shape(s), NEW next, NEW p
  PROVE Moved(s, StartMotor(s, next, p), "SPIN_UP") \/ Moved(s, StartMotor(s, next, p), next)
<1> DEFINE t == FDC_Set_MotorON(s, p)
           u == [t EXCEPT !.IndexPulse_Counter = 0]
<1>1. Same(s, t)
  BY SetMotorSame
<1> HIDE DEF t
<1>2. Same(t, u)
  BY <1>1 DEF Same, Moved, Shape, Fields
<1> HIDE DEF u
<1>3. Moved(s, Later(u, "SPIN_UP"), "SPIN_UP") /\ Moved(s, Immediately(t, next), next)
  BY <1>1, <1>2, SameTwice, ThenLater
<1> QED BY <1>3 DEF StartMotor, t, u

LEMMA NextSectorMoves ==
  ASSUME NEW s, Shape(s), NEW st PROVE Moved(s, FDC_NextSectorID(s, st), st)
<1> DEFINE h == IF s.pos < Sectors THEN s.pos + 1 ELSE 1
           t == [s EXCEPT !.NextTR = Head(s), !.NextSR = h]
<1> HIDE DEF h
<1>1. Same(s, t)
  BY DEF Same, Moved, Shape, Fields
<1> HIDE DEF t
<1>2. Moved(s, At(t, st, h), st)
  BY <1>1, AtMoved, SameShape, MovedTwice
<1> QED BY <1>2 DEF FDC_NextSectorID, t, h

(* The end of a command of type I. *)
Verifying == {"VERIFY", "HEAD_OK", "NEXT_HEADER", "CHECK_HEADER", "COMPLETE"}

LEMMA VerifyHeaderMoves ==
  ASSUME NEW s, NEW t, Same(s, t)
  PROVE \E st \in Verifying : Moved(s, VerifyNextHeader(t), st)
<1>1. Shape(t) /\ Same(s, NotFound(t))
  BY SameShape, NotFoundSame, SameTwice
<1>2. /\ Moved(s, Later(NotFound(t), "COMPLETE"), "COMPLETE")
      /\ Moved(s, FDC_NextSectorID(t, "CHECK_HEADER"), "CHECK_HEADER")
      /\ Moved(s, Later(t, "NEXT_HEADER"), "NEXT_HEADER")
  BY <1>1, ThenLater, NextSectorMoves, MovedTwice
<1> QED BY <1>2 DEF VerifyNextHeader, Verifying

LEMMA VerifySteps ==
  ASSUME NEW s, Shape(s), Proper(s), s.CommandState \in Verifying,
         Verifying \subseteq StatesOf(s.Command)
  PROVE Step(s, Verify(s))
<1>1. ASSUME NEW t, \E st \in Verifying : Moved(s, t, st) PROVE Step(s, t)
  BY <1>1, MovedSteps
<1>2. CASE s.CommandState = "VERIFY"
  <2>1. Moved(s, Verify(s), "HEAD_OK") \/ Moved(s, Verify(s), "COMPLETE")
    BY <1>2, LaterMoved DEF Verify
  <2> QED BY <2>1, <1>1 DEF Verifying
<1>3. CASE s.CommandState = "HEAD_OK"
  <2> DEFINE t == [s EXCEPT !.IndexPulse_Counter = 0]
  <2>1. Same(s, t)
    BY DEF Same, Moved, Shape, Fields
  <2>2. Verify(s) = VerifyNextHeader(t)
    BY <1>3 DEF Verify
  <2> QED BY <2>1, <2>2, VerifyHeaderMoves, <1>1
<1>4. CASE s.CommandState = "NEXT_HEADER"
  <2>1. Verify(s) = VerifyNextHeader(s) /\ Same(s, s)
    BY <1>4, NotFoundSame DEF Verify
  <2> QED BY <2>1, VerifyHeaderMoves, <1>1
<1>5. CASE s.CommandState = "CHECK_HEADER"
  <2> DEFINE t == [s EXCEPT !.STR = @ \ {"RNF"}]
  <2>1. Same(s, t) /\ Same(s, s)
    BY DEF Same, Moved, Shape, Fields
  <2>2. Verify(s) = Later(t, "COMPLETE") \/ Verify(s) = Immediately(s, "NEXT_HEADER")
    BY <1>5 DEF Verify
  <2> HIDE DEF t
  <2>3. Moved(s, Later(t, "COMPLETE"), "COMPLETE") /\ Moved(s, Immediately(s, "NEXT_HEADER"), "NEXT_HEADER")
    BY <2>1, ThenLater
  <2> QED BY <2>2, <2>3, <1>1 DEF Verifying
<1>6. CASE s.CommandState = "COMPLETE"
  <2>1. Verify(s) = FDC_CmdCompleteCommon(s, TRUE) /\ Same(s, s)
    BY <1>6, NotFoundSame DEF Verify
  <2> QED BY <2>1, CompleteSteps
<1> QED BY <1>2, <1>3, <1>4, <1>5, <1>6 DEF Verifying

LEMMA MoveHeadSame == ASSUME NEW s, Shape(s), NEW dir PROVE Same(s, MoveHead(s, dir))
  BY DEF Same, Moved, Shape, Fields, MoveHead

LEMMA NotReplaceableSame == ASSUME NEW s, Shape(s) PROVE Same(s, NotReplaceable(s))
  BY DEF Same, Moved, Shape, Fields, NotReplaceable

LEMMA ResetSearchSame == ASSUME NEW s, Shape(s) PROVE Same(s, ResetSearch(s))
<1>1. Same(s, NotReplaceable(s))
  BY NotReplaceableSame
<1> QED BY <1>1 DEF Same, Moved, Shape, Fields, ResetSearch

LEMMA RestoreLoopSteps ==
  ASSUME NEW s, NEW t, Shape(s), Same(s, t), Proper(s), s.Command = "RESTORE"
  PROVE Step(s, RestoreLoop(t))
<1> DEFINE u == [t EXCEPT !.TR = @ - 1]
           v == IF Selected(t) THEN MoveHead(u, -1) ELSE u
           w == [t EXCEPT !.TR = 0]
<1>1. Shape(t) /\ Same(t, u) /\ Same(t, w)
  BY DEF Same, Moved, Shape, Fields
<1> HIDE DEF u, w
<1>2. Same(s, v) /\ Same(s, w) /\ Same(s, NotFound(t))
  BY <1>1, MoveHeadSame, NotFoundSame, SameTwice, SameShape
<1> HIDE DEF v
<1>3. /\ Moved(s, Later(v, "LOOP"), "LOOP") /\ Moved(s, Immediately(w, "VERIFY"), "VERIFY")
      /\ Step(s, FDC_CmdCompleteCommon(NotFound(t), TRUE))
  BY <1>2, ThenLater, CompleteSteps
<1>4. {"LOOP", "VERIFY"} \subseteq StatesOf(s.Command)
  BY StateSets DEF Positioning
<1>5. Step(s, Later(v, "LOOP")) /\ Step(s, Immediately(w, "VERIFY"))
  BY <1>3, <1>4, MovedSteps
<1> QED BY <1>3, <1>5 DEF RestoreLoop, u, v, w

LEMMA RestoreSteps ==
  ASSUME NEW s, Shape(s), Proper(s), s.Command = "RESTORE", NEW p
  PROVE Step(s, FDC_UpdateRestoreCmd(s, p))
<1> DEFINE t == FDC_UpdateRestoreCmd(s, p)
           u == [NotReplaceable(s) EXCEPT !.TR = RegMax]
<1>1. s.CommandState \in Positioning \cup {"LOOP"} /\ StatesOf(s.Command) = Positioning \cup {"LOOP"}
  BY StateSets DEF Proper
<1>2. Same(s, NotReplaceable(s)) /\ Same(s, s)
  BY NotReplaceableSame, NotFoundSame
<1>3. Same(s, u)
  BY <1>2 DEF Same, Moved, Shape, Fields
<1> HIDE DEF u
<1>4. CASE s.CommandState = "START"
  <2>1. t = StartMotor(s, "MOTOR_ON", p)
    BY <1>4 DEF FDC_UpdateRestoreCmd, SpunUp, SpinningUp
  <2> QED BY <2>1, <1>1, StartMotorMoves, MovedSteps DEF Positioning
<1>5. CASE SpinningUp(s)
  <2>1. t = Later(s, "SPIN_UP")
    BY <1>5 DEF FDC_UpdateRestoreCmd, SpunUp, SpinningUp
  <2> QED BY <2>1, <1>1, LaterMoved, MovedSteps DEF Positioning
<1>6. CASE SpunUp(s)
  <2>1. t = RestoreLoop(u)
    BY <1>6 DEF FDC_UpdateRestoreCmd, SpunUp, SpinningUp, u
  <2> QED BY <2>1, <1>3, RestoreLoopSteps
<1>7. CASE s.CommandState = "LOOP"
  <2>1. t = RestoreLoop(s)
    BY <1>7 DEF FDC_UpdateRestoreCmd, SpunUp, SpinningUp
  <2> QED BY <2>1, <1>2, RestoreLoopSteps
<1>8. CASE s.CommandState \in Verifying
  <2>1. t = Verify(s)
    BY <1>8 DEF FDC_UpdateRestoreCmd, SpunUp, SpinningUp, Verifying
  <2> QED BY <2>1, <1>1, <1>8, VerifySteps DEF Verifying, Positioning
<1> QED BY <1>1, <1>4, <1>5, <1>6, <1>7, <1>8 DEF Positioning, SpunUp, SpinningUp, Verifying

LEMMA SeekTrackSteps ==
  ASSUME NEW s, NEW t, Shape(s), Same(s, t), Proper(s), s.Command \in {"SEEK", "STEP"},
         s.CommandState \in Positioning
  PROVE Step(s, SeekTrack(t))
<1> DEFINE dir == IF t.DR < t.TR THEN -1 ELSE 1
           u == [t EXCEPT !.StepDirection = dir, !.TR = Wrap(@ + dir)]
           v == MoveHead(u, dir)
           w == IF dir = -1 THEN [u EXCEPT !.TR = 0] ELSE u
<1> HIDE DEF dir
<1>1. Shape(t) /\ Same(t, u)
  BY DEF Same, Moved, Shape, Fields
<1> HIDE DEF u
<1>2. Same(u, v) /\ Same(u, [u EXCEPT !.TR = 0])
  BY <1>1, MoveHeadSame DEF Same, Moved, Shape, Fields
<1>3. Same(s, u) /\ Same(s, v) /\ Same(s, w)
  BY <1>1, <1>2, SameTwice
<1> HIDE DEF v, w
<1>4. t.CommandState = s.CommandState
  BY DEF Same, Moved
<1>5. /\ Moved(s, Immediately(t, "VERIFY"), "VERIFY") /\ Moved(s, Immediately(w, "VERIFY"), "VERIFY")
      /\ Moved(s, Later(u, t.CommandState), s.CommandState)
      /\ Moved(s, Later(v, t.CommandState), s.CommandState)
  BY <1>3, <1>4, ThenLater
<1>6. "VERIFY" \in StatesOf(s.Command) /\ s.CommandState \in StatesOf(s.Command)
  BY StateSets DEF Positioning
<1>7. /\ Step(s, Immediately(t, "VERIFY")) /\ Step(s, Immediately(w, "VERIFY"))
      /\ Step(s, Later(u, t.CommandState)) /\ Step(s, Later(v, t.CommandState))
  BY <1>5, <1>6, MovedSteps
<1> QED BY <1>7 DEF SeekTrack, dir, u, v, w

LEMMA StepOnceSteps ==
  ASSUME NEW s, NEW t, Shape(s), Same(s, t), Proper(s), s.Command = "STEP"
  PROVE Step(s, StepOnce(t))
<1> DEFINE dir == t.StepDirection
           u == IF t.CR.multi THEN [t EXCEPT !.TR = Wrap(@ + dir)] ELSE t
           v == MoveHead(u, dir)
<1>1. Shape(t) /\ Same(t, t) /\ Same(t, [t EXCEPT !.TR = Wrap(@ + dir)])
  BY DEF Same, Moved, Shape, Fields
<1>2. Same(s, u)
  BY <1>1, SameTwice
<1> HIDE DEF u
<1>3. Same(s, v)
  BY <1>2, MoveHeadSame, SameShape, SameTwice
<1> HIDE DEF v, dir
<1>4. /\ Moved(s, Later(u, "VERIFY"), "VERIFY") /\ Moved(s, Immediately(u, "VERIFY"), "VERIFY")
      /\ Moved(s, Later(v, "VERIFY"), "VERIFY")
  BY <1>2, <1>3, ThenLater
<1>5. "VERIFY" \in StatesOf(s.Command)
  BY StateSets DEF Positioning
<1>6. Step(s, Later(u, "VERIFY")) /\ Step(s, Immediately(u, "VERIFY")) /\ Step(s, Later(v, "VERIFY"))
  BY <1>4, <1>5, MovedSteps
<1> QED BY <1>6 DEF StepOnce, dir, u, v

(* SEEK and STEP differ in what follows the spin-up only. *)
LEMMA SeekSteps ==
  ASSUME NEW s, Shape(s), Proper(s), s.Command = "SEEK", NEW p
  PROVE Step(s, FDC_UpdateSeekCmd(s, p))
<1> DEFINE t == FDC_UpdateSeekCmd(s, p)
<1>1. s.CommandState \in Positioning /\ StatesOf(s.Command) = Positioning
  BY StateSets DEF Proper
<1>2. Same(s, NotReplaceable(s))
  BY NotReplaceableSame
<1>3. CASE s.CommandState = "START"
  <2>1. t = StartMotor(s, "MOTOR_ON", p)
    BY <1>3 DEF FDC_UpdateSeekCmd, SpunUp, SpinningUp
  <2> QED BY <2>1, <1>1, StartMotorMoves, MovedSteps DEF Positioning
<1>4. CASE SpinningUp(s)
  <2>1. t = Later(s, "SPIN_UP")
    BY <1>4 DEF FDC_UpdateSeekCmd, SpunUp, SpinningUp
  <2> QED BY <2>1, <1>1, LaterMoved, MovedSteps DEF Positioning
<1>5. CASE SpunUp(s)
  <2>1. t = SeekTrack(NotReplaceable(s))
    BY <1>5 DEF FDC_UpdateSeekCmd, SpunUp, SpinningUp
  <2> QED BY <2>1, <1>1, <1>2, SeekTrackSteps
<1>6. CASE s.CommandState \in Verifying
  <2>1. t = Verify(s)
    BY <1>6 DEF FDC_UpdateSeekCmd, SpunUp, SpinningUp, Verifying
  <2> QED BY <2>1, <1>1, <1>6, VerifySteps DEF Verifying, Positioning
<1> QED BY <1>1, <1>3, <1>4, <1>5, <1>6 DEF Positioning, SpunUp, SpinningUp, Verifying

LEMMA StepSteps ==
  ASSUME NEW s, Shape(s), Proper(s), s.Command = "STEP", NEW p
  PROVE Step(s, FDC_UpdateStepCmd(s, p))
<1> DEFINE t == FDC_UpdateStepCmd(s, p)
<1>1. s.CommandState \in Positioning /\ StatesOf(s.Command) = Positioning
  BY StateSets DEF Proper
<1>2. Same(s, NotReplaceable(s))
  BY NotReplaceableSame
<1>3. CASE s.CommandState = "START"
  <2>1. t = StartMotor(s, "MOTOR_ON", p)
    BY <1>3 DEF FDC_UpdateStepCmd, SpunUp, SpinningUp
  <2> QED BY <2>1, <1>1, StartMotorMoves, MovedSteps DEF Positioning
<1>4. CASE SpinningUp(s)
  <2>1. t = Later(s, "SPIN_UP")
    BY <1>4 DEF FDC_UpdateStepCmd, SpunUp, SpinningUp
  <2> QED BY <2>1, <1>1, LaterMoved, MovedSteps DEF Positioning
<1>5. CASE SpunUp(s)
  <2>1. t = StepOnce(NotReplaceable(s))
    BY <1>5 DEF FDC_UpdateStepCmd, SpunUp, SpinningUp
  <2> QED BY <2>1, <1>1, <1>2, StepOnceSteps
<1>6. CASE s.CommandState \in Verifying
  <2>1. t = Verify(s)
    BY <1>6 DEF FDC_UpdateStepCmd, SpunUp, SpinningUp, Verifying
  <2> QED BY <2>1, <1>1, <1>6, VerifySteps DEF Verifying, Positioning
<1> QED BY <1>1, <1>3, <1>4, <1>5, <1>6 DEF Positioning, SpunUp, SpinningUp, Verifying

-----------------------------------------------------------------------------
(* Commands of types II and III. *)

LEMMA SearchMoves ==
  ASSUME NEW s, NEW t, Same(s, t)
  PROVE LET u == SearchSector(t) IN
        Moved(s, u, "RNF") \/ Moved(s, u, "CHECK_HEADER") \/ Moved(s, u, s.CommandState)
<1>1. Shape(t) /\ t.CommandState = s.CommandState
  BY DEF Same, Moved
<1>2. /\ Moved(s, Immediately(t, "RNF"), "RNF")
      /\ Moved(s, FDC_NextSectorID(t, "CHECK_HEADER"), "CHECK_HEADER")
      /\ Moved(s, Later(t, t.CommandState), s.CommandState)
  BY <1>1, ThenLater, NextSectorMoves, MovedTwice
<1> QED BY <1>2 DEF SearchSector

LEMMA CheckHeaderMoves ==
  ASSUME NEW s, Shape(s), NEW out
  PROVE LET u == CheckHeader(s, out) IN
        Moved(s, u, "TRANSFER_START") \/ Moved(s, u, "NEXT_HEADER")
  BY LaterMoved DEF CheckHeader

LEMMA TransferReadMoves ==
  ASSUME NEW s, Shape(s), NEW last
  PROVE LET u == TransferRead(s, last) IN Moved(s, u, "TRANSFER_LOOP") \/ Moved(s, u, last)
<1> DEFINE v == FDC_DMA_FIFO_Push(s)
           t == [v EXCEPT !.Buffer = Max({@ - 1, 0})]
<1>1. Same(s, v)
  BY PushSame
<1> HIDE DEF v
<1>2. Same(v, t)
  BY <1>1 DEF Same, Moved, Shape, Fields
<1> HIDE DEF t
<1>3. Moved(s, Later(t, "TRANSFER_LOOP"), "TRANSFER_LOOP") /\ Moved(s, Later(t, last), last)
  BY <1>1, <1>2, SameTwice, ThenLater
<1> QED BY <1>3 DEF TransferRead, t, v

LEMMA TransferWriteMoves ==
  ASSUME NEW s, Shape(s), NEW t, NEW st, Moved(s, t, st)
  PROVE LET u == TransferWrite(s, t) IN Moved(s, u, "TRANSFER_LOOP") \/ Moved(s, u, st)
<1> DEFINE v == FDC_DMA_FIFO_Pull(s)
           w == [v EXCEPT !.Buffer = @ + 1, !.BytesToTransfer = @ - 1]
           x == [t EXCEPT !.BytesToTransfer = @ - 1]
<1>1. Same(s, v)
  BY PullSame
<1> HIDE DEF v
<1>2. Same(v, w)
  BY <1>1 DEF Same, Moved, Shape, Fields
<1> HIDE DEF w
<1>3. Moved(s, Later(w, "TRANSFER_LOOP"), "TRANSFER_LOOP")
  BY <1>1, <1>2, SameTwice, ThenLater
<1>4. Moved(s, x, st)
  BY DEF Moved, Shape, Fields
<1> QED BY <1>3, <1>4 DEF TransferWrite, w, v, x

LEMMA StartWriteMoves ==
  ASSUME NEW s, Shape(s), NEW n PROVE Moved(s, StartWrite(s, n), "TRANSFER_LOOP")
<1> DEFINE t == [s EXCEPT !.Buffer = 0, !.BytesToTransfer = n]
<1>1. Same(s, t)
  BY DEF Same, Moved, Shape, Fields
<1> HIDE DEF t
<1> QED BY <1>1, ThenLater DEF StartWrite, t

LEMMA NextSectorMovesOn ==
  ASSUME NEW s, Shape(s)
  PROVE Moved(s, NextSector(s), "MOTOR_ON") \/ Moved(s, NextSector(s), "COMPLETE")
<1> DEFINE t == [s EXCEPT !.SR = Wrap(@ + 1)]
<1>1. Same(s, t) /\ Same(s, s)
  BY DEF Same, Moved, Shape, Fields
<1> HIDE DEF t
<1>2. Moved(s, Immediately(t, "MOTOR_ON"), "MOTOR_ON") /\ Moved(s, Later(s, "COMPLETE"), "COMPLETE")
  BY <1>1, ThenLater
<1> QED BY <1>2 DEF NextSector, t

LEMMA AwaitIndexMoves ==
  ASSUME NEW s, NEW t, Same(s, t)
  PROVE Moved(s, AwaitIndex(t), "INDEX") \/ Moved(s, AwaitIndex(t), s.CommandState)
<1>1. Shape(t) /\ t.CommandState = s.CommandState
  BY DEF Same, Moved
<1> QED BY <1>1, ThenLater DEF AwaitIndex

(* In which cases the commands of these types distinguish their states. *)
LEMMA StartingCases ==
  ASSUME NEW s, s.CommandState \in Starting
  PROVE \/ s.CommandState = "START"
        \/ SpinningUp(s)
        \/ HeadLoading(s)
        \/ HeadLoaded(s)
        \/ s.CommandState = "MOTOR_ON"
  BY DEF Starting, SpinningUp, HeadLoading, HeadLoaded, NoSpinUpLeft

LEMMA ReadSectorsSteps ==
  ASSUME NEW s, Shape(s), Proper(s), s.Command = "READSECTORS", NEW p, NEW out
  PROVE Step(s, FDC_UpdateReadSectorsCmd(s, p, out))
<1> DEFINE t == FDC_UpdateReadSectorsCmd(s, p, out)
           States == StatesOf(s.Command)
<1> USE DEF SpinningUp, HeadLoading, HeadLoaded, NoSpinUpLeft
<1>1. /\ s.CommandState \in States
      /\ States = Starting \cup {"NEXT_HEADER", "CHECK_HEADER", "TRANSFER_START",
                                 "TRANSFER_LOOP", "CRC", "MULTI", "RNF", "COMPLETE"}
  BY StateSets DEF Proper, TypeII
<1>2. ASSUME NEW st \in States, Moved(s, t, st) PROVE Step(s, t)
  BY <1>2, MovedSteps
<1>3. CASE s.CommandState = "START"
  <2>1. t = StartMotor(s, "HEAD_LOAD", p)
    BY <1>3 DEF FDC_UpdateReadSectorsCmd
  <2> QED BY <2>1, <1>1, <1>2, StartMotorMoves DEF Starting
<1>4. CASE SpinningUp(s)
  <2>1. t = Later(s, "SPIN_UP")
    BY <1>4 DEF FDC_UpdateReadSectorsCmd
  <2> QED BY <2>1, <1>1, <1>2, LaterMoved DEF Starting
<1>5. CASE HeadLoading(s)
  <2>1. t = Later(s, "MOTOR_ON")
    BY <1>5 DEF FDC_UpdateReadSectorsCmd
  <2> QED BY <2>1, <1>1, <1>2, LaterMoved DEF Starting
<1>6. CASE HeadLoaded(s) \/ s.CommandState = "MOTOR_ON"
  <2>1. t = Immediately(ResetSearch(s), "NEXT_HEADER")
    BY <1>6 DEF FDC_UpdateReadSectorsCmd
  <2> QED BY <2>1, <1>1, <1>2, ResetSearchSame, ThenLater
<1>7. CASE s.CommandState = "NEXT_HEADER"
  <2>1. t = SearchSector(s) /\ Same(s, s)
    BY <1>7, NotFoundSame DEF FDC_UpdateReadSectorsCmd
  <2> QED BY <2>1, <1>1, <1>2, SearchMoves
<1>8. CASE s.CommandState = "CHECK_HEADER"
  <2>1. t = CheckHeader(s, out)
    BY <1>8 DEF FDC_UpdateReadSectorsCmd
  <2> QED BY <2>1, <1>1, <1>2, CheckHeaderMoves
<1>9. CASE s.CommandState = "TRANSFER_START"
  <2> DEFINE u == [s EXCEPT !.Buffer = SectorBytes]
             v == [s EXCEPT !.Buffer = 0]
  <2>1. Same(s, u) /\ Same(s, v)
    BY DEF Same, Moved, Shape, Fields
  <2>2. t = Later(u, "TRANSFER_LOOP") \/ t = Immediately(v, "RNF")
    BY <1>9 DEF FDC_UpdateReadSectorsCmd
  <2>3. Moved(s, t, "TRANSFER_LOOP") \/ Moved(s, t, "RNF")
    <3> HIDE DEF u, v
    <3> QED BY <2>1, <2>2, ThenLater
  <2> QED BY <2>3, <1>1, <1>2
<1>10. CASE s.CommandState = "TRANSFER_LOOP"
  <2>1. t = TransferRead(s, "CRC")
    BY <1>10 DEF FDC_UpdateReadSectorsCmd
  <2> QED BY <2>1, <1>1, <1>2, TransferReadMoves
<1>11. CASE s.CommandState = "CRC"
  <2>1. t = Immediately(s, "MULTI")
    BY <1>11 DEF FDC_UpdateReadSectorsCmd
  <2> QED BY <2>1, <1>1, <1>2, LaterMoved
<1>12. CASE s.CommandState = "MULTI"
  <2>1. t = NextSector(s)
    BY <1>12 DEF FDC_UpdateReadSectorsCmd
  <2> QED BY <2>1, <1>1, <1>2, NextSectorMovesOn DEF Starting
<1>13. CASE s.CommandState \in {"RNF", "COMPLETE"}
  <2>1. t = Ended(s)
    BY <1>13 DEF FDC_UpdateReadSectorsCmd
  <2> QED BY <2>1, EndedSteps
<1>14. s.CommandState \in Starting => \/ s.CommandState \in {"START", "MOTOR_ON"}
                                      \/ SpinningUp(s) \/ HeadLoading(s) \/ HeadLoaded(s)
  BY StartingCases
<1> QED BY <1>1, <1>3, <1>4, <1>5, <1>6, <1>7, <1>8, <1>9, <1>10, <1>11, <1>12, <1>13, <1>14

LEMMA UnprotectedSteps ==
  ASSUME NEW s, Shape(s), Proper(s), s.Command = "WRITESECTORS", NEW p, NEW out
  PROVE Step(s, UnprotectedWrite(s, p, out))
<1> DEFINE t == UnprotectedWrite(s, p, out)
           States == StatesOf(s.Command)
<1> USE DEF SpinningUp, HeadLoading, HeadLoaded, NoSpinUpLeft
<1>1. /\ s.CommandState \in States
      /\ States = Starting \cup {"NEXT_HEADER", "CHECK_HEADER", "TRANSFER_START",
                                 "TRANSFER_LOOP", "CRC", "MULTI", "RNF", "COMPLETE"}
  BY StateSets DEF Proper, TypeII
<1>2. ASSUME NEW st \in States, Moved(s, t, st) PROVE Step(s, t)
  BY <1>2, MovedSteps
<1>3. CASE s.CommandState = "START"
  <2>1. t = StartMotor(s, "HEAD_LOAD", p)
    BY <1>3 DEF UnprotectedWrite
  <2> QED BY <2>1, <1>1, <1>2, StartMotorMoves DEF Starting
<1>4. CASE SpinningUp(s)
  <2>1. t = Later(s, "SPIN_UP")
    BY <1>4 DEF UnprotectedWrite
  <2> QED BY <2>1, <1>1, <1>2, LaterMoved DEF Starting
<1>5. CASE HeadLoading(s)
  <2>1. t = Later(s, "MOTOR_ON")
    BY <1>5 DEF UnprotectedWrite
  <2> QED BY <2>1, <1>1, <1>2, LaterMoved DEF Starting
<1>6. CASE HeadLoaded(s) \/ s.CommandState = "MOTOR_ON"
  <2>1. t = FirstSearch(s)
    BY <1>6 DEF UnprotectedWrite
  <2>2. \/ Moved(s, t, "RNF") \/ Moved(s, t, "CHECK_HEADER") \/ Moved(s, t, s.CommandState)
    BY <2>1, ResetSearchSame, SearchMoves DEF FirstSearch
  <2> QED BY <2>2, <1>1, <1>2
<1>7. CASE s.CommandState = "NEXT_HEADER"
  <2>1. t = SearchSector(s) /\ Same(s, s)
    BY <1>7, NotFoundSame DEF UnprotectedWrite
  <2> QED BY <2>1, <1>1, <1>2, SearchMoves
<1>8. CASE s.CommandState = "CHECK_HEADER"
  <2>1. t = CheckHeader(s, out)
    BY <1>8 DEF UnprotectedWrite
  <2> QED BY <2>1, <1>1, <1>2, CheckHeaderMoves
<1>9. CASE s.CommandState = "TRANSFER_START"
  <2>1. t = StartWrite(s, SectorBytes)
    BY <1>9 DEF UnprotectedWrite
  <2> QED BY <2>1, <1>1, <1>2, StartWriteMoves
<1>10. CASE s.CommandState = "TRANSFER_LOOP"
  <2>1. t = TransferWrite(s, Later(s, "CRC"))
    BY <1>10 DEF UnprotectedWrite
  <2>2. Moved(s, Later(s, "CRC"), "CRC")
    BY LaterMoved
  <2>3. Moved(s, t, "TRANSFER_LOOP") \/ Moved(s, t, "CRC")
    BY <2>1, <2>2, TransferWriteMoves
  <2> QED BY <2>3, <1>1, <1>2
<1>11. CASE s.CommandState = "CRC"
  <2>1. t = Immediately(s, "MULTI") \/ t = Immediately(s, "RNF")
    BY <1>11 DEF UnprotectedWrite
  <2> QED BY <2>1, <1>1, <1>2, LaterMoved
<1>12. CASE s.CommandState = "MULTI"
  <2>1. t = NextSector(s)
    BY <1>12 DEF UnprotectedWrite
  <2> QED BY <2>1, <1>1, <1>2, NextSectorMovesOn DEF Starting
<1>13. CASE s.CommandState \in {"RNF", "COMPLETE"}
  <2>1. t = Ended(s)
    BY <1>13 DEF UnprotectedWrite
  <2> QED BY <2>1, EndedSteps
<1>14. s.CommandState \in Starting => \/ s.CommandState \in {"START", "MOTOR_ON"}
                                         \/ SpinningUp(s) \/ HeadLoading(s) \/ HeadLoaded(s)
  BY StartingCases
<1> QED BY <1>1, <1>3, <1>4, <1>5, <1>6, <1>7, <1>8, <1>9, <1>10, <1>11, <1>12, <1>13, <1>14

LEMMA WriteSectorsSteps ==
  ASSUME NEW s, Shape(s), Proper(s), s.Command = "WRITESECTORS", NEW p, NEW out
  PROVE Step(s, FDC_UpdateWriteSectorsCmd(s, p, out))
<1>1. Step(s, FDC_CmdCompleteCommon(s, TRUE))
  BY NotFoundSame, CompleteSteps
<1> QED BY <1>1, UnprotectedSteps DEF FDC_UpdateWriteSectorsCmd

LEMMA ReadAddressSteps ==
  ASSUME NEW s, Shape(s), Proper(s), s.Command = "READADDRESS", NEW p, NEW old
  PROVE Step(s, FDC_UpdateReadAddressCmd(s, p, old))
<1> DEFINE t == FDC_UpdateReadAddressCmd(s, p, old)
           States == StatesOf(s.Command)
<1> USE DEF SpinningUp, HeadLoading, HeadLoaded, NoSpinUpLeft
<1>1. /\ s.CommandState \in States
      /\ States = Starting \cup {"NEXT_HEADER", "TRANSFER_START", "TRANSFER_LOOP",
                                 "RNF", "COMPLETE"}
  BY StateSets DEF Proper, TypeII
<1>2. ASSUME NEW st \in States, Moved(s, t, st) PROVE Step(s, t)
  BY <1>2, MovedSteps
<1>3. CASE s.CommandState = "START"
  <2>1. t = StartMotor(s, "HEAD_LOAD", p)
    BY <1>3 DEF FDC_UpdateReadAddressCmd
  <2> QED BY <2>1, <1>1, <1>2, StartMotorMoves DEF Starting
<1>4. CASE SpinningUp(s)
  <2>1. t = Later(s, "SPIN_UP")
    BY <1>4 DEF FDC_UpdateReadAddressCmd
  <2> QED BY <2>1, <1>1, <1>2, LaterMoved DEF Starting
<1>5. CASE HeadLoading(s)
  <2>1. t = Later(NotReplaceable(s), "MOTOR_ON")
    BY <1>5 DEF FDC_UpdateReadAddressCmd
  <2> QED BY <2>1, <1>1, <1>2, NotReplaceableSame, ThenLater DEF Starting
<1>6. CASE HeadLoaded(s) \/ s.CommandState = "MOTOR_ON"
  <2>1. t = Immediately(ResetSearch(s), "NEXT_HEADER")
    BY <1>6 DEF FDC_UpdateReadAddressCmd
  <2> QED BY <2>1, <1>1, <1>2, ResetSearchSame, ThenLater
<1>7. CASE s.CommandState = "NEXT_HEADER"
  <2>1. \/ t = Immediately(s, "RNF")
        \/ t = FDC_NextSectorID(s, "TRANSFER_START")
        \/ t = Later(s, "NEXT_HEADER")
    BY <1>7 DEF FDC_UpdateReadAddressCmd
  <2>2. \/ Moved(s, t, "RNF") \/ Moved(s, t, "TRANSFER_START") \/ Moved(s, t, "NEXT_HEADER")
    BY <2>1, LaterMoved, NextSectorMoves
  <2> QED BY <2>2, <1>1, <1>2
<1>8. CASE s.CommandState = "TRANSFER_START"
  <2> DEFINE u == [s EXCEPT !.SR = Head(s), !.Buffer = IdBytes]
             v == [s EXCEPT !.SR = old, !.Buffer = 0]
  <2>1. Same(s, u) /\ Same(s, v)
    BY DEF Same, Moved, Shape, Fields
  <2>2. t = Later(u, "TRANSFER_LOOP") \/ t = Later(v, "TRANSFER_LOOP")
    BY <1>8 DEF FDC_UpdateReadAddressCmd, ReadAddress
  <2>3. Moved(s, t, "TRANSFER_LOOP")
    <3> HIDE DEF u, v
    <3> QED BY <2>1, <2>2, ThenLater
  <2> QED BY <2>3, <1>1, <1>2
<1>9. CASE s.CommandState = "TRANSFER_LOOP"
  <2>1. t = TransferRead(s, "COMPLETE")
    BY <1>9 DEF FDC_UpdateReadAddressCmd
  <2> QED BY <2>1, <1>1, <1>2, TransferReadMoves
<1>10. CASE s.CommandState \in {"RNF", "COMPLETE"}
  <2>1. t = Ended(s)
    BY <1>10 DEF FDC_UpdateReadAddressCmd
  <2> QED BY <2>1, EndedSteps
<1>11. s.CommandState \in Starting => \/ s.CommandState \in {"START", "MOTOR_ON"}
                                         \/ SpinningUp(s) \/ HeadLoading(s) \/ HeadLoaded(s)
  BY StartingCases
<1> QED BY <1>1, <1>3, <1>4, <1>5, <1>6, <1>7, <1>8, <1>9, <1>10, <1>11

LEMMA ReadTrackSteps ==
  ASSUME NEW s, Shape(s), Proper(s), s.Command = "READTRACK", NEW p
  PROVE Step(s, FDC_UpdateReadTrackCmd(s, p))
<1> DEFINE t == FDC_UpdateReadTrackCmd(s, p)
           States == StatesOf(s.Command)
<1> USE DEF SpinningUp, HeadLoading, HeadLoaded, NoSpinUpLeft
<1>1. /\ s.CommandState \in States
      /\ States = Starting \cup {"INDEX", "TRANSFER_LOOP", "COMPLETE"}
  BY StateSets DEF Proper, TypeII
<1>2. ASSUME NEW st \in States, Moved(s, t, st) PROVE Step(s, t)
  BY <1>2, MovedSteps
<1>3. CASE s.CommandState = "START"
  <2>1. t = StartMotor(s, "HEAD_LOAD", p)
    BY <1>3 DEF FDC_UpdateReadTrackCmd
  <2> QED BY <2>1, <1>1, <1>2, StartMotorMoves DEF Starting
<1>4. CASE SpinningUp(s)
  <2>1. t = Later(s, "SPIN_UP")
    BY <1>4 DEF FDC_UpdateReadTrackCmd
  <2> QED BY <2>1, <1>1, <1>2, LaterMoved DEF Starting
<1>5. CASE HeadLoading(s)
  <2>1. t = Later(NotReplaceable(s), "MOTOR_ON")
    BY <1>5 DEF FDC_UpdateReadTrackCmd
  <2> QED BY <2>1, <1>1, <1>2, NotReplaceableSame, ThenLater DEF Starting
<1>6. CASE HeadLoaded(s)
  <2>1. t = AwaitIndex(NotReplaceable(s))
    BY <1>6 DEF FDC_UpdateReadTrackCmd
  <2> QED BY <2>1, <1>1, <1>2, NotReplaceableSame, AwaitIndexMoves
<1>7. CASE s.CommandState = "MOTOR_ON"
  <2>1. t = AwaitIndex(s) /\ Same(s, s)
    BY <1>7, NotFoundSame DEF FDC_UpdateReadTrackCmd
  <2> QED BY <2>1, <1>1, <1>2, AwaitIndexMoves
<1>8. CASE s.CommandState = "INDEX"
  <2> DEFINE u == [s EXCEPT !.Buffer = TrackBytes]
  <2>1. Same(s, u) /\ t = Later(u, "TRANSFER_LOOP")
    BY <1>8 DEF FDC_UpdateReadTrackCmd, Same, Moved, Shape, Fields
  <2>2. Moved(s, t, "TRANSFER_LOOP")
    <3> HIDE DEF u
    <3> QED BY <2>1, ThenLater
  <2> QED BY <2>2, <1>1, <1>2
<1>9. CASE s.CommandState = "TRANSFER_LOOP"
  <2>1. t = TransferRead(s, "COMPLETE")
    BY <1>9 DEF FDC_UpdateReadTrackCmd
  <2> QED BY <2>1, <1>1, <1>2, TransferReadMoves
<1>10. CASE s.CommandState = "COMPLETE"
  <2>1. t = Ended(s)
    BY <1>10 DEF FDC_UpdateReadTrackCmd
  <2> QED BY <2>1, EndedSteps
<1>11. s.CommandState \in Starting => \/ s.CommandState \in {"START", "MOTOR_ON"}
                                         \/ SpinningUp(s) \/ HeadLoading(s) \/ HeadLoaded(s)
  BY StartingCases
<1> QED BY <1>1, <1>3, <1>4, <1>5, <1>6, <1>7, <1>8, <1>9, <1>10, <1>11

LEMMA WriteTrackSteps ==
  ASSUME NEW s, Shape(s), Proper(s), s.Command = "WRITETRACK", NEW p, NEW out
  PROVE Step(s, FDC_UpdateWriteTrackCmd(s, p, out))
<1> DEFINE t == FDC_UpdateWriteTrackCmd(s, p, out)
           States == StatesOf(s.Command)
<1> USE DEF SpinningUp, HeadLoading, HeadLoaded, NoSpinUpLeft
<1>1. /\ s.CommandState \in States
      /\ States = Starting \cup {"INDEX", "TRANSFER_LOOP", "COMPLETE"}
  BY StateSets DEF Proper, TypeII
<1>2. ASSUME NEW st \in States, Moved(s, t, st) PROVE Step(s, t)
  BY <1>2, MovedSteps
<1>3. CASE s.CommandState = "START"
  <2>1. t = StartMotor(s, "HEAD_LOAD", p)
    BY <1>3 DEF FDC_UpdateWriteTrackCmd
  <2> QED BY <2>1, <1>1, <1>2, StartMotorMoves DEF Starting
<1>4. CASE SpinningUp(s)
  <2>1. t = Later(s, "SPIN_UP")
    BY <1>4 DEF FDC_UpdateWriteTrackCmd
  <2> QED BY <2>1, <1>1, <1>2, LaterMoved DEF Starting
<1>5. CASE HeadLoading(s)
  <2>1. t = Later(NotReplaceable(s), "MOTOR_ON")
    BY <1>5 DEF FDC_UpdateWriteTrackCmd
  <2> QED BY <2>1, <1>1, <1>2, NotReplaceableSame, ThenLater DEF Starting
<1>6. CASE HeadLoaded(s)
  <2>1. t = AwaitIndex(NotReplaceable(s))
    BY <1>6 DEF FDC_UpdateWriteTrackCmd
  <2> QED BY <2>1, <1>1, <1>2, NotReplaceableSame, AwaitIndexMoves
<1>7. CASE s.CommandState = "MOTOR_ON"
  <2>1. t = AwaitIndex(s) /\ Same(s, s)
    BY <1>7, NotFoundSame DEF FDC_UpdateWriteTrackCmd
  <2> QED BY <2>1, <1>1, <1>2, AwaitIndexMoves
<1>8. CASE s.CommandState = "INDEX"
  <2>1. t = FDC_CmdCompleteCommon(s, TRUE) \/ t = StartWrite(s, TrackBytes)
    BY <1>8 DEF FDC_UpdateWriteTrackCmd
  <2>2. Step(s, FDC_CmdCompleteCommon(s, TRUE))
    BY NotFoundSame, CompleteSteps
  <2>3. t = StartWrite(s, TrackBytes) => Step(s, t)
    BY <1>1, <1>2, StartWriteMoves
  <2> QED BY <2>1, <2>2, <2>3
<1>9. CASE s.CommandState = "TRANSFER_LOOP"
  <2>1. t = TransferWrite(s, Immediately(s, "COMPLETE"))
    BY <1>9 DEF FDC_UpdateWriteTrackCmd
  <2>2. Moved(s, Immediately(s, "COMPLETE"), "COMPLETE")
    BY LaterMoved
  <2>3. Moved(s, t, "TRANSFER_LOOP") \/ Moved(s, t, "COMPLETE")
    BY <2>1, <2>2, TransferWriteMoves
  <2> QED BY <2>3, <1>1, <1>2
<1>10. CASE s.CommandState = "COMPLETE"
  <2>1. t = Ended(s)
    BY <1>10 DEF FDC_UpdateWriteTrackCmd
  <2> QED BY <2>1, EndedSteps
<1>11. s.CommandState \in Starting => \/ s.CommandState \in {"START", "MOTOR_ON"}
                                         \/ SpinningUp(s) \/ HeadLoading(s) \/ HeadLoaded(s)
  BY StartingCases
<1> QED BY <1>1, <1>3, <1>4, <1>5, <1>6, <1>7, <1>8, <1>9, <1>10, <1>11

LEMMA MotorStopSteps ==
  ASSUME NEW s, Shape(s), Proper(s), s.Command = "MOTOR_STOP"
  PROVE Step(s, FDC_UpdateMotorStop(s))
<1> DEFINE t == IF s.CommandState = "STOP" THEN [s EXCEPT !.IndexPulse_Counter = 0] ELSE s
           off == [t EXCEPT !.IndexPulse_Counter = 0, !.STR = @ \ {"MOTOR_ON"},
                            !.Command = "NULL", !.CommandState = "NULL"]
           Off(u) == /\ Shape(u) /\ u.IRQ = s.IRQ /\ u.line = s.line
                     /\ u.CommandType = s.CommandType
                     /\ u.Command = "NULL" /\ u.CommandState = "NULL"
<1>1. Same(s, t)
  BY DEF Same, Moved, Shape, Fields
<1> HIDE DEF t
<1>2. Off(off)
  BY <1>1 DEF Same, Moved, Shape, Fields
<1> HIDE DEF off
<1>3. Off(ForgetPosition(off, t.DriveSel))
  BY <1>2, ForgetSame DEF Same, Moved
<1>4. \A u : Off(u) => Step(s, u)
  BY StateSets DEF Step, Proper, CommandNames
<1> HIDE DEF Off
<1>5. Step(s, Later(t, "STOP_WAIT"))
  BY <1>1, ThenLater, MovedSteps, StateSets
<1> QED BY <1>2, <1>3, <1>4, <1>5 DEF FDC_UpdateMotorStop, t, off

LEMMA CommandSteps ==
  ASSUME NEW s, Shape(s), Proper(s), s.Command # "NULL", NEW p, NEW out, NEW old
  PROVE Step(s, UpdateCommand(s, p, out, old))
<1> DEFINE t == UpdateCommand(s, p, out, old)
<1>1. CASE s.Command = "RESTORE"
  BY <1>1, RestoreSteps DEF UpdateCommand
<1>2. CASE s.Command = "SEEK"
  BY <1>2, SeekSteps DEF UpdateCommand
<1>3. CASE s.Command = "STEP"
  BY <1>3, StepSteps DEF UpdateCommand
<1>4. CASE s.Command = "READSECTORS"
  BY <1>4, ReadSectorsSteps DEF UpdateCommand
<1>5. CASE s.Command = "WRITESECTORS"
  BY <1>5, WriteSectorsSteps DEF UpdateCommand
<1>6. CASE s.Command = "READADDRESS"
  BY <1>6, ReadAddressSteps DEF UpdateCommand
<1>7. CASE s.Command = "READTRACK"
  BY <1>7, ReadTrackSteps DEF UpdateCommand
<1>8. CASE s.Command = "WRITETRACK"
  BY <1>8, WriteTrackSteps DEF UpdateCommand
<1>9. CASE s.Command = "MOTOR_STOP"
  BY <1>9, MotorStopSteps DEF UpdateCommand
<1> QED BY <1>1, <1>2, <1>3, <1>4, <1>5, <1>6, <1>7, <1>8, <1>9
        DEF Proper, CommandNames, TypeII, TypeIII

-----------------------------------------------------------------------------
(* What the actions do to the invariant. *)

Good(s) == Shape(s) /\ Proper(s) /\ LineFollows(s)

(* No new end of a command; a request without a source only where it was.  *)
Quiet(s, t) ==
  /\ Good(t)
  /\ Released(s) => Released(t)
  /\ "COMPLETE" \in t.IRQ => "COMPLETE" \in s.IRQ

Edge(s, t) ==
  "COMPLETE" \in t.IRQ \ s.IRQ => (s.line = "HIGH" /\ t.line = "LOW") \/ s.IRQ # {}

LEMMA QuietTwice == ASSUME NEW s, NEW t, NEW u, Quiet(s, t), Quiet(t, u) PROVE Quiet(s, u)
  BY DEF Quiet

LEMMA SameQuiet == ASSUME NEW s, NEW t, Good(s), Same(s, t) PROVE Quiet(s, t)
  BY DEF Quiet, Good, Same, Moved, Proper, LineFollows, Released

LEMMA UpdateQuiet ==
  ASSUME NEW s, Good(s), NEW p PROVE Quiet(s, FDC_IndexPulse_Update(s, p))
<1> DEFINE t == FDC_IndexPulse_Update(s, p)
<1>1. Kept(s, t) /\ MayRaise(s, t, "INDEX")
  BY AccessKeeps DEF Good
<1> HIDE DEF t
<1>2. Good(t) /\ (Released(s) => Released(t))
  BY <1>1 DEF Good, Kept, MayRaise, Raised, Proper, LineFollows, Released
<1>3. "COMPLETE" \in t.IRQ => "COMPLETE" \in s.IRQ
  BY <1>1 DEF MayRaise, Raised
<1> QED BY <1>2, <1>3 DEF Quiet, t

(* A pass of the handler: an access to the index pulses, then a step. *)
LEMMA PassGood ==
  ASSUME NEW s, Good(s), Released(s), NEW p, NEW out, NEW old
  PROVE LET t == UpdatePass(s, p, out, old) IN Good(t) /\ Released(t) /\ Edge(s, t)
<1> DEFINE v == [s EXCEPT !.timer = OFF]
           w == FDC_IndexPulse_Update(v, p)
           t == UpdateCommand(w, p, out, old)
<1>1. Same(s, v)
  BY DEF Good, Same, Moved, Shape, Fields
<1> HIDE DEF v
<1>2. Kept(v, w) /\ MayRaise(v, w, "INDEX")
  BY <1>1, AccessKeeps, SameShape
<1> HIDE DEF w
<1>3. Kept(s, w) /\ MayRaise(s, w, "INDEX")
  BY <1>1, <1>2 DEF Same, Moved, Kept, MayRaise, Raised
<1>4. Good(w) /\ Released(w) /\ Edge(s, w)
  BY <1>3 DEF Good, Kept, MayRaise, Raised, Proper, LineFollows, Released, Edge
<1>5. CASE w.Command = "NULL"
  <2>1. t = w
    BY <1>5 DEF UpdateCommand, TypeII, TypeIII
  <2> QED BY <2>1, <1>4 DEF UpdatePass, v, w
<1>6. CASE w.Command # "NULL"
  <2>1. Step(w, t)
    BY <1>4, <1>6, CommandSteps DEF Good
  <2> HIDE DEF t
  <2>2. Good(t)
    BY <2>1, <1>4 DEF Good, Step, LineFollows, Raised
  <2>3. s.CommandType # 0 /\ t.CommandType # 0
    BY <2>1, <1>3, <1>4, <1>6 DEF Released, Step, Kept
  <2>4. Released(t)
    BY <2>1, <2>3, <1>4 DEF Released, Step, Raised
  <2>5. Edge(s, t)
    <3> SUFFICES ASSUME "COMPLETE" \in t.IRQ, s.IRQ = {} PROVE s.line = "HIGH" /\ t.line = "LOW"
      BY DEF Edge
    <3>1. s.line = "HIGH"
      BY <2>3 DEF Released, Good, LineFollows
    <3>2. t.line = "LOW"
      BY <2>2 DEF Good, LineFollows
    <3> QED BY <3>1, <3>2
  <2> QED BY <2>2, <2>4, <2>5 DEF UpdatePass, t, v, w
<1> QED BY <1>5, <1>6

LEMMA StopForcedKeeps ==
  ASSUME NEW s, Shape(s)
  PROVE LET t == StopForced(s) IN Kept(s, t) /\ t.line = s.line /\ t.IRQ \subseteq s.IRQ
<1> DEFINE t == [s EXCEPT !.IRQ = @ \ {"FORCED"}]
<1>1. Kept(s, t) /\ t.line = s.line /\ t.IRQ = s.IRQ \ {"FORCED"}
  BY DEF Kept, Shape, Fields
<1> HIDE DEF t
<1>2. Kept(s, s)
  BY DEF Kept
<1> QED BY <1>1, <1>2 DEF StopForced, t

(* The state after the requests of a forced interrupt, or all, are dropped.*)
Dropped(s, t) ==
  /\ Kept(s, t) /\ t.IRQ \subseteq s.IRQ
  /\ \/ t.IRQ = {} /\ t.line = "HIGH"
     \/ t.IRQ # {} /\ t.line = s.line

LEMMA ClearForcedDrops ==
  ASSUME NEW s, Shape(s) PROVE Dropped(s, FDC_ClearIRQ(StopForced(s)))
<1> DEFINE t == StopForced(s)
           u == FDC_ClearIRQ(t)
<1>1. Kept(s, t) /\ t.line = s.line /\ t.IRQ \subseteq s.IRQ
  BY StopForcedKeeps
<1> HIDE DEF t
<1>2. /\ Kept(t, u) /\ u.IRQ \subseteq t.IRQ
      /\ \/ u.IRQ = {} /\ u.line = "HIGH"
         \/ u.IRQ # {} /\ t.IRQ # {} /\ u.line = t.line
  BY <1>1, ClearIRQReleases DEF Kept
<1> HIDE DEF u
<1>3. Dropped(s, u)
  BY <1>1, <1>2 DEF Dropped, Kept
<1> QED BY <1>3 DEF t, u

LEMMA DroppedQuiet == ASSUME NEW s, NEW t, Good(s), Dropped(s, t) PROVE Quiet(s, t)
<1>1. Good(t)
  BY DEF Dropped, Good, Kept, Proper, LineFollows
<1>2. Released(s) => Released(t)
  BY DEF Dropped, Kept, Released
<1>3. "COMPLETE" \in t.IRQ => "COMPLETE" \in s.IRQ
  BY DEF Dropped
<1> QED BY <1>1, <1>2, <1>3 DEF Quiet

LEMMA ClearHdcDrops == ASSUME NEW s, Shape(s) PROVE Dropped(s, FDC_ClearHdcIRQ(s))
<1> DEFINE i == s.IRQ \ {"HDC"}
           l == IF s.IRQ \subseteq {"HDC"} THEN "HIGH" ELSE s.line
           t == [s EXCEPT !.IRQ = i, !.line = l]
<1>1. /\ i \subseteq s.IRQ
      /\ \/ i = {} /\ l = "HIGH"
         \/ i # {} /\ l = s.line
  <2>1. CASE s.IRQ \subseteq {"HDC"}
    <3>1. i = {}
      BY <2>1
    <3>2. l = "HIGH"
      BY <2>1, Zenon
    <3> QED BY <3>1, <3>2
  <2>2. CASE ~(s.IRQ \subseteq {"HDC"})
    <3>1. i # {}
      BY <2>2
    <3>2. l = s.line
      BY <2>2, Zenon
    <3> QED BY <3>1, <3>2
  <2> QED BY <2>1, <2>2
<1> HIDE DEF i, l
<1>2. Kept(s, t) /\ t.IRQ = i /\ t.line = l
  BY DEF Kept, Shape, Fields
<1> HIDE DEF t
<1>3. Dropped(s, t)
  BY <1>1, <1>2 DEF Dropped
<1> QED BY <1>3 DEF FDC_ClearHdcIRQ, t, i, l

LEMMA HardDiskQuiet ==
  ASSUME NEW s, Good(s) PROVE Quiet(s, FDC_SetIRQ(FDC_ClearHdcIRQ(s), "HDC"))
<1> DEFINE t == FDC_ClearHdcIRQ(s)
           u == FDC_SetIRQ(t, "HDC")
<1>1. Dropped(s, t) /\ Good(t)
  BY ClearHdcDrops, DroppedQuiet DEF Good, Quiet
<1> HIDE DEF t
<1>2. Kept(t, u) /\ u.IRQ = {"HDC"} /\ u.line = (IF t.IRQ = {} THEN "LOW" ELSE t.line)
  BY <1>1 DEF Good, Kept, Shape, Fields, FDC_SetIRQ
<1> HIDE DEF u
<1>3. Good(u) /\ (Released(s) => Released(u))
  BY <1>1, <1>2 DEF Good, Kept, Dropped, Proper, LineFollows, Released
<1>4. "COMPLETE" \notin u.IRQ
  BY <1>2
<1> QED BY <1>3, <1>4 DEF Quiet, t, u

(* A request was answered: the line is low exactly while one is left. *)
Answered(s, t) ==
  /\ Shape(t) /\ t.line \in {"HIGH", "LOW"} /\ (t.IRQ # {} <=> t.line = "LOW")
  /\ "COMPLETE" \in t.IRQ => "COMPLETE" \in s.IRQ

LEMMA AnsweredQuiet ==
  ASSUME NEW s, NEW t, NEW u, Answered(s, t), u.IRQ = t.IRQ, u.line = t.line,
         Shape(u), Proper(u), u.CommandType # 0
  PROVE Quiet(s, u) /\ Released(u)
<1>1. Good(u)
  BY DEF Answered, Good, LineFollows
<1>2. Released(u)
  BY DEF Answered, Released
<1> QED BY <1>1, <1>2 DEF Quiet, Answered

LEMMA StartCommandQuiet ==
  ASSUME NEW s, NEW t, Answered(s, t), NEW cr \in CommandRegister, FDC_GetCmdType(cr) # 4,
         t.CommandType # 0
  PROVE LET u == [StartCommand(t, cr) EXCEPT !.Replace = TRUE, !.timer = SOON]
        IN Quiet(s, u) /\ Released(u)
<1> DEFINE c == IF cr.cmd \in {"STEPIN", "STEPOUT"} THEN "STEP" ELSE cr.cmd
           dir == CASE cr.cmd = "STEPIN" -> 1 [] cr.cmd = "STEPOUT" -> -1
                    [] OTHER -> t.StepDirection
           v == [t EXCEPT !.Command = c, !.CommandState = "START",
                          !.STR = (@ \ {"RNF"}) \cup {"BUSY"}, !.StepDirection = dir]
           u == [v EXCEPT !.Replace = TRUE, !.timer = SOON]
<1>1. cr.cmd \in TypeI \cup TypeII \cup TypeIII
  BY DEF CommandRegister, FDC_GetCmdType, TypeI, TypeII, TypeIII
<1>2. c \in {"RESTORE", "SEEK", "STEP"} \cup TypeII \cup TypeIII
  BY <1>1 DEF TypeI
<1> HIDE DEF c, dir
<1>3. /\ Shape(v) /\ v.IRQ = t.IRQ /\ v.line = t.line /\ v.CommandType = t.CommandType
      /\ v.Command = c /\ v.CommandState = "START"
  BY DEF Answered, Shape, Fields
<1>4. v = StartCommand(t, cr)
  BY DEF StartCommand, v, c, dir
<1> HIDE DEF v
<1>5. /\ Shape(u) /\ u.IRQ = t.IRQ /\ u.line = t.line /\ u.CommandType = t.CommandType
      /\ u.Command = c /\ u.CommandState = "START"
  BY <1>3 DEF Shape, Fields
<1>6. "START" \in StatesOf(c) /\ c \in CommandNames
  <2>1. "START" \in Positioning /\ "START" \in Starting
    BY DEF Positioning, Starting
  <2> QED BY <1>2, <2>1, StateSets DEF CommandNames, TypeIII
<1>7. Quiet(s, u) /\ Released(u)
  <2> HIDE DEF u
  <2>1. Proper(u)
    BY <1>5, <1>6 DEF Proper
  <2> QED BY <1>5, <2>1, AnsweredQuiet
<1> QED BY <1>4, <1>7

LEMMA ForceInterruptQuiet ==
  ASSUME NEW s, Good(s), NEW t, Shape(t),
         t.line = s.line, t.IRQ \subseteq s.IRQ, t.CommandType # 0, NEW cr
  PROVE LET u == [FDC_TypeIV_ForceInterrupt(t, cr) EXCEPT !.Replace = TRUE, !.timer = SOON]
        IN Quiet(s, u) /\ Released(u)
<1> DEFINE idle == IF "BUSY" \in t.STR THEN t ELSE [t EXCEPT !.STR = @ \cup {"MOTOR_ON"}]
           v == [idle EXCEPT !.Cond = cr.cond]
           w == IF "IMMEDIATE" \in cr.cond THEN FDC_SetIRQ(v, "FORCED") ELSE FDC_ClearIRQ(v)
           x == [w EXCEPT !.STR = @ \ {"BUSY"}, !.Command = "MOTOR_STOP"]
           y == Immediately(x, "STOP")
           u == [y EXCEPT !.Replace = TRUE, !.timer = SOON]
<1>1. Same(t, idle)
  BY DEF Same, Moved, Shape, Fields
<1> HIDE DEF idle
<1>2. Shape(v) /\ v.IRQ = t.IRQ /\ v.line = t.line /\ v.CommandType = t.CommandType
  BY <1>1 DEF Same, Moved, Shape, Fields
<1> HIDE DEF v
<1>3. Answered(s, w) /\ w.CommandType = t.CommandType
  <2>1. v.line \in {"HIGH", "LOW"} /\ (v.IRQ # {} => v.line = "LOW") /\ v.IRQ \subseteq s.IRQ
    BY <1>2 DEF Good, LineFollows
  <2>2. CASE "IMMEDIATE" \in cr.cond
    <3> DEFINE w1 == FDC_SetIRQ(v, "FORCED")
    <3>1. Raised(v, w1, "FORCED") /\ Kept(v, w1)
      BY <1>2, SetIRQRaises
    <3> HIDE DEF w1
    <3>2. Answered(s, w1) /\ w1.CommandType = t.CommandType
      BY <1>2, <2>1, <3>1 DEF Answered, Raised, Kept
    <3> QED BY <2>2, <3>2 DEF w1
  <2>3. CASE "IMMEDIATE" \notin cr.cond
    <3> DEFINE w1 == FDC_ClearIRQ(v)
    <3>1. /\ Kept(v, w1) /\ w1.IRQ \subseteq v.IRQ
          /\ \/ w1.IRQ = {} /\ w1.line = "HIGH"
             \/ w1.IRQ # {} /\ v.IRQ # {} /\ w1.line = v.line
      BY <1>2, ClearIRQReleases
    <3> HIDE DEF w1
    <3>2. Answered(s, w1) /\ w1.CommandType = t.CommandType
      BY <1>2, <2>1, <3>1 DEF Answered, Kept
    <3> QED BY <2>3, <3>2 DEF w1
  <2> QED BY <2>2, <2>3
<1>4. u = [FDC_TypeIV_ForceInterrupt(t, cr) EXCEPT !.Replace = TRUE, !.timer = SOON]
  BY DEF FDC_TypeIV_ForceInterrupt, FDC_CmdCompleteCommon, u, y, x, w, v, idle
<1> HIDE DEF w
<1>5. /\ Shape(x) /\ x.IRQ = w.IRQ /\ x.line = w.line /\ x.CommandType = w.CommandType
      /\ x.Command = "MOTOR_STOP"
  BY <1>3 DEF Answered, Shape, Fields
<1> HIDE DEF x
<1>6. Moved(x, y, "STOP")
  BY <1>5, LaterMoved
<1> HIDE DEF y
<1>7. /\ Shape(u) /\ u.IRQ = w.IRQ /\ u.line = w.line /\ u.CommandType = t.CommandType
      /\ u.Command = "MOTOR_STOP" /\ u.CommandState = "STOP"
  BY <1>3, <1>5, <1>6 DEF Moved, Shape, Fields
<1>8. Quiet(s, u) /\ Released(u)
  <2> HIDE DEF u
  <2>1. Proper(u)
    BY <1>7, StateSets DEF Proper, CommandNames
  <2> QED BY <1>3, <1>7, <2>1, AnsweredQuiet
<1> QED BY <1>4, <1>8

LEMMA TypesOfCommands ==
  ASSUME NEW cr \in CommandRegister PROVE FDC_GetCmdType(cr) \in 1 .. 4
  BY DEF CommandRegister, FDC_GetCmdType, TypeI, TypeII, TypeIII

LEMMA ExecuteQuiet ==
  ASSUME NEW s, Good(s), NEW cr \in CommandRegister
  PROVE Quiet(s, FDC_ExecuteCommand(s, cr))
<1> DEFINE type == FDC_GetCmdType(cr)
<1>1. type \in 1 .. 4
  BY TypesOfCommands
<1>2. CASE type = 4
  <2> DEFINE r == StopForced(s)
             t == [r EXCEPT !.Cond = {}, !.CR = cr, !.CommandType = 4]
  <2>1. Kept(s, r) /\ r.line = s.line /\ r.IRQ \subseteq s.IRQ
    BY StopForcedKeeps DEF Good
  <2> HIDE DEF r
  <2>2. Shape(t) /\ t.line = s.line /\ t.IRQ \subseteq s.IRQ /\ t.CommandType # 0
    BY <2>1 DEF Kept, Shape, Fields
  <2> HIDE DEF t
  <2>3. Quiet(s, [FDC_TypeIV_ForceInterrupt(t, cr) EXCEPT !.Replace = TRUE, !.timer = SOON])
    BY <2>2, ForceInterruptQuiet
  <2> QED BY <1>2, <2>3 DEF FDC_ExecuteCommand, t, r
<1>3. CASE type # 4
  <2> DEFINE r == FDC_ClearIRQ(StopForced(s))
             t == [r EXCEPT !.Cond = {}, !.CR = cr, !.CommandType = type]
  <2>1. Dropped(s, r)
    BY ClearForcedDrops DEF Good
  <2> HIDE DEF r, type
  <2>2. /\ Shape(t) /\ t.IRQ = r.IRQ /\ t.line = r.line /\ t.CommandType = type
    BY <2>1 DEF Dropped, Kept, Shape, Fields
  <2> HIDE DEF t
  <2>3. Answered(s, t)
    BY <2>1, <2>2 DEF Answered, Dropped, Good, LineFollows
  <2>4. Quiet(s, [StartCommand(t, cr) EXCEPT !.Replace = TRUE, !.timer = SOON])
    <3>1. FDC_GetCmdType(cr) # 4 /\ t.CommandType # 0
      BY <1>1, <1>3, <2>2 DEF type
    <3> QED BY <2>3, <3>1, StartCommandQuiet
  <2>5. FDC_ExecuteCommand(s, cr) = [StartCommand(t, cr) EXCEPT !.Replace = TRUE, !.timer = SOON]
    BY <1>3, Zenon DEF FDC_ExecuteCommand, t, r, type
  <2> QED BY <2>4, <2>5
<1> QED BY <1>2, <1>3

(* Registers of the controller, after the access to the index pulses. *)
LEMMA ThenQuiet ==
  ASSUME NEW s, Good(s), NEW p, NEW u,
         Same(FDC_IndexPulse_Update(s, p), u) \/ Dropped(FDC_IndexPulse_Update(s, p), u)
  PROVE Quiet(s, u)
<1>1. Quiet(s, FDC_IndexPulse_Update(s, p)) /\ Good(FDC_IndexPulse_Update(s, p))
  BY UpdateQuiet DEF Quiet
<1> QED BY <1>1, SameQuiet, DroppedQuiet, QuietTwice

LEMMA RegistersSame ==
  ASSUME NEW s, Shape(s), NEW v
  PROVE /\ Same(s, FDC_WriteTrackRegister(s, v)) /\ Same(s, FDC_WriteSectorRegister(s, v))
        /\ Same(s, FDC_WriteDataRegister(s, v)) /\ Same(s, FDC_WriteSectorCountRegister(s, v))
<1>1. Same(s, [s EXCEPT !.TR = v]) /\ Same(s, [s EXCEPT !.SR = v])
  BY DEF Same, Moved, Shape, Fields
<1>2. Same(s, [s EXCEPT !.DR = v]) /\ Same(s, [s EXCEPT !.SectorCount = v, !.room = v * SectorBytes])
  BY DEF Same, Moved, Shape, Fields
<1> QED BY <1>1, <1>2 DEF FDC_WriteTrackRegister, FDC_WriteSectorRegister, FDC_WriteDataRegister,
                          FDC_WriteSectorCountRegister

LEMMA ModeSame ==
  ASSUME NEW s, Shape(s), NEW write PROVE Same(s, FDC_DmaModeControl_WriteWord(s, write))
<1> DEFINE t == [s EXCEPT !.writeMode = write]
<1>1. Same(s, s) /\ Same(s, t)
  BY DEF Same, Moved, Shape, Fields
<1> HIDE DEF t
<1>2. Same(s, FDC_ResetDMA(t))
  BY <1>1, ResetDMASame, SameTwice, SameShape
<1> QED BY <1>1, <1>2 DEF FDC_DmaModeControl_WriteWord, t

LEMMA CommandQuiet ==
  ASSUME NEW s, Good(s), NEW p, NEW cr \in CommandRegister
  PROVE Quiet(s, FDC_WriteCommandRegister(FDC_IndexPulse_Update(s, p), cr))
<1> DEFINE t == FDC_IndexPulse_Update(s, p)
<1>1. Quiet(s, t) /\ Good(t)
  BY UpdateQuiet DEF Quiet
<1> HIDE DEF t
<1>2. Quiet(t, t) /\ Quiet(t, FDC_ExecuteCommand(t, cr))
  BY <1>1, ExecuteQuiet DEF Quiet
<1>3. Quiet(s, FDC_WriteCommandRegister(t, cr))
  BY <1>1, <1>2, QuietTwice DEF FDC_WriteCommandRegister
<1> QED BY <1>3 DEF t

(* Resets. *)
LEMMA ResetGood ==
  ASSUME NEW s, Shape(s), NEW cold
  PROVE LET t == FDC_Reset(MFP_Reset(s), cold) IN Good(t) /\ Released(t) /\ t.IRQ = {}
<1> DEFINE m == [s EXCEPT !.line = "LOW"]
           r == [m EXCEPT
                  !.STR = {}, !.SR = 1, !.TR = IF cold THEN 0 ELSE @, !.DR = IF cold THEN 0 ELSE @,
                  !.CR = [cmd |-> "RESTORE", spin |-> TRUE, delay |-> FALSE, multi |-> FALSE,
                          cond |-> {}],
                  !.StepDirection = 1, !.Command = "NULL", !.CommandState = "NULL",
                  !.CommandType = 0, !.Cond = {}, !.IRQ = {}, !.IndexPulse_Counter = 0,
                  !.drives = [d \in Drives |-> [m.drives[d] EXCEPT !.timed = FALSE]],
                  !.pos = 0, !.pulse = FALSE, !.timer = IF @ > 0 THEN SOON ELSE @,
                  !.writeMode = FALSE, !.Buffer = 0]
           t == FDC_ResetDMA(r)
<1>1. Shape(m) /\ m.line = "LOW"
  BY DEF Shape, Fields
<1>2. t = FDC_Reset(MFP_Reset(s), cold)
  BY DEF FDC_Reset, MFP_Reset
<1> HIDE DEF m
<1>3. /\ Shape(r) /\ r.line = "LOW" /\ r.IRQ = {} /\ r.CommandType = 0
      /\ r.Command = "NULL" /\ r.CommandState = "NULL"
  BY <1>1 DEF Shape, Fields
<1> HIDE DEF r
<1>4. Same(r, t)
  BY <1>3, ResetDMASame
<1> HIDE DEF t
<1>5. Proper(t)
  BY <1>3, <1>4, StateSets DEF Same, Moved, Proper, CommandNames
<1>6. Good(t) /\ Released(t) /\ t.IRQ = {}
  BY <1>3, <1>4, <1>5 DEF Same, Moved, Good, LineFollows, Released
<1> QED BY <1>2, <1>6

LEMMA ResetSTGood ==
  ASSUME NEW s, Good(s), NEW cold
  PROVE LET m == MFP_Reset(CycInt_Reset(s))
            t == IF cold THEN FDC_Reset(m, TRUE) ELSE m
        IN Good(t) /\ t.IRQ \subseteq s.IRQ
<1> DEFINE c == [s EXCEPT !.timer = OFF]
           m == [c EXCEPT !.line = "LOW"]
<1>1. Shape(c) /\ Same(s, c)
  BY DEF Good, Same, Moved, Shape, Fields
<1>2. c = CycInt_Reset(s)
  BY DEF CycInt_Reset
<1> HIDE DEF c
<1>3. Kept(c, m) /\ m.line = "LOW" /\ m.IRQ = c.IRQ
  BY <1>1 DEF Kept, Shape, Fields
<1>4. m = MFP_Reset(c)
  BY DEF MFP_Reset
<1> HIDE DEF m
<1>5. Good(m) /\ m.IRQ \subseteq s.IRQ
  BY <1>1, <1>3 DEF Kept, Same, Moved, Good, Proper, LineFollows
<1>6. Good(FDC_Reset(m, TRUE)) /\ FDC_Reset(m, TRUE).IRQ = {}
  BY <1>1, <1>4, ResetGood
<1> QED BY <1>2, <1>4, <1>5, <1>6

-----------------------------------------------------------------------------
(* The invariant and the edges. *)

LEMMA InitInv == Init => IInv
<1> SUFFICES ASSUME Init PROVE IInv
  OBVIOUS
<1>1. PICK ins, prot \in [Drives -> BOOLEAN] :
        fdc = FDC_Reset(MFP_Reset(
            [Blank EXCEPT !.drives = [d \in Drives |-> [Blank.drives[d] EXCEPT
                             !.inserted = ins[d], !.protected = prot[d]]]]), TRUE)
  BY DEF Init
<1> DEFINE b == [Blank EXCEPT !.drives = [d \in Drives |-> [Blank.drives[d] EXCEPT
                             !.inserted = ins[d], !.protected = prot[d]]]]
<1>2. Shape(b)
  <2>1. Shape(Blank)
    BY DEF Blank, Shape, Fields
  <2> QED BY <2>1 DEF Shape, Fields
<1>3. fdc = FDC_Reset(MFP_Reset(b), TRUE)
  BY <1>1
<1> HIDE DEF b
<1>4. Good(fdc)
  BY <1>2, <1>3, ResetGood
<1> QED BY <1>4 DEF Init, IInv, Good

(* What a step does, for each of the actions. *)
Result == IInv' /\ Edge(fdc, fdc')

LEMMA QuietResult ==
  ASSUME IInv, phase # "rom", Quiet(fdc, fdc') PROVE Result
  BY DEF IInv, Quiet, Good, Edge, Result

LEMMA RegistersResult == ASSUME IInv, Registers PROVE Result
<1>1. Good(fdc)
  BY DEF IInv, Good
<1>2. \A p : Shape(Access(p))
  BY <1>1, UpdateQuiet DEF Access, Quiet, Good
<1>3. ASSUME NEW p, NEW cr \in Commands, WriteCommand(cr, p) PROVE Result
  <2>1. cr \in CommandRegister
    BY ProgramAssumption
  <2> QED BY <1>1, <1>3, <2>1, CommandQuiet, QuietResult DEF WriteCommand, Program, Access
<1>4. ASSUME NEW p, NEW v, WriteTrack(v, p) \/ WriteSector(v, p) \/ WriteData(v, p) PROVE Result
  <2>1. Same(Access(p), fdc') /\ phase # "rom"
    BY <1>2, <1>4, RegistersSame DEF WriteTrack, WriteSector, WriteData, Program
  <2> QED BY <1>1, <2>1, ThenQuiet, QuietResult DEF Access
<1>5. ASSUME NEW p, ReadStatusRegister(p) PROVE Result
  <2>1. Dropped(Access(p), fdc') /\ phase # "rom"
    BY <1>2, <1>5, ClearForcedDrops DEF ReadStatusRegister, ReadStatus
  <2> QED BY <1>1, <2>1, ThenQuiet, QuietResult DEF Access
<1>6. ASSUME NEW p, NEW d, SelectDrive(d, p) PROVE Result
  <2>1. Same(fdc, fdc') /\ phase # "rom"
    BY <1>1, <1>6, SetDriveSideSame DEF SelectDrive, Program, Good
  <2> QED BY <1>1, <2>1, SameQuiet, QuietResult
<1> QED BY <1>3, <1>4, <1>5, <1>6 DEF Registers

LEMMA OthersResult == ASSUME IInv, DMA \/ HardDisk \/ User \/ ResetInstruction \/ Rotate PROVE Result
<1>1. Good(fdc) /\ Shape(fdc)
  BY DEF IInv, Good
<1>2. ASSUME DMA \/ Rotate PROVE Result
  <2>1. Same(fdc, fdc') /\ phase # "rom"
    BY <1>1, <1>2, RegistersSame, ModeSame, TurnSame DEF DMA, WriteCount, WriteMode, Rotate, Program
  <2> QED BY <1>1, <2>1, SameQuiet, QuietResult
<1>3. ASSUME HardDisk PROVE Result
  <2>1. Quiet(fdc, fdc') /\ phase # "rom"
    BY <1>1, <1>3, HardDiskQuiet, ClearHdcDrops, DroppedQuiet
       DEF HardDisk, HardDiskCommand, HardDiskReady, Program
  <2> QED BY <2>1, QuietResult
<1>4. ASSUME NEW d, NEW prot, NEW p, InsertFloppy(d, prot, p) \/ EjectFloppy(d) PROVE Result
  <2>1. Same(fdc, fdc') /\ phase # "rom"
    BY <1>1, <1>4, InsertSame, EjectSame DEF InsertFloppy, EjectFloppy, Program
  <2> QED BY <1>1, <2>1, SameQuiet, QuietResult
<1>5. ASSUME NEW cold, Reset_ST(cold) PROVE Result
  <2>1. Good(fdc') /\ fdc'.IRQ \subseteq fdc.IRQ /\ phase' = "rom"
    BY <1>1, <1>5, ResetSTGood DEF Reset_ST
  <2> QED BY <2>1 DEF Result, IInv, Good, Edge
<1>6. ASSUME ResetInstruction PROVE Result
  <2>1. Good(fdc') /\ Released(fdc') /\ fdc'.IRQ = {}
    BY <1>1, <1>6, ResetGood DEF ResetInstruction
  <2> QED BY <2>1 DEF Result, IInv, Good, Edge
<1> QED BY <1>2, <1>3, <1>4, <1>5, <1>6 DEF User

LEMMA HandlerResult == ASSUME IInv, Handler PROVE Result
<1>1. PICK p, out, old : InterruptHandler_Update(p, out, old)
  BY DEF Handler
<1>2. Good(fdc) /\ Released(fdc)
  BY <1>1 DEF IInv, Good, InterruptHandler_Update
<1>3. Good(fdc') /\ Released(fdc') /\ Edge(fdc, fdc')
  BY <1>1, <1>2, PassGood DEF InterruptHandler_Update
<1> QED BY <1>3 DEF Result, IInv, Good

LEMMA StepResult == IInv /\ [Next]_vars => Result
<1> SUFFICES ASSUME IInv, [Next]_vars PROVE Result
  OBVIOUS
<1>1. CASE Next
  BY <1>1, RegistersResult, OthersResult, HandlerResult DEF Next
<1>2. CASE UNCHANGED vars
  BY <1>2 DEF vars, Result, IInv, Edge, Released
<1> QED BY <1>1, <1>2

(* The request line of the MFP follows the requests of the controller and  *)
(* of the hard disk (FDC_SetIRQ, FDC_ClearIRQ, FDC_ClearHdcIRQ): no order  *)
(* of commands, forced interrupts, hard disk requests and resets leaves a  *)
(* request off the line, or the line low after the last was answered.      *)
THEOREM LineAlwaysFollows == Spec => []IrqOnLine
<1>1. Init => IInv
  BY InitInv
<1>2. IInv /\ [Next]_vars => IInv'
  BY StepResult DEF Result
<1>3. IInv => IrqOnLine
  BY DEF IInv, LineFollows, Released, IrqOnLine
<1> QED BY <1>1, <1>2, <1>3, PTL DEF Spec

(* The end of a command (FDC_CmdCompleteCommon) drives the line from high  *)
(* to low, the edge that the MFP needs, unless a request was already       *)
(* there: no command ends with a line that a reset left low.               *)
THEOREM CompletionAlwaysSeen == Spec => CompletionSeen
<1>1. Init => IInv
  BY InitInv
<1>2. IInv /\ [Next]_vars => IInv'
  BY StepResult DEF Result
<1>3. IInv /\ [Next]_vars => [Edge(fdc, fdc')]_vars
  BY StepResult DEF Result
<1>4. [Edge(fdc, fdc')]_vars
       => [ "COMPLETE" \in fdc'.IRQ \ fdc.IRQ
              => (fdc.line = "HIGH" /\ fdc'.line = "LOW") \/ fdc.IRQ # {} ]_vars
  BY DEF Edge
<1> QED BY <1>1, <1>2, <1>3, <1>4, PTL DEF Spec, CompletionSeen

-----------------------------------------------------------------------------
(* The DMA and the command: what has to hold of the controller. *)

HeldFields == {"STR", "Command", "CommandState", "timer", "drives", "DriveSel",
               "SectorCount", "BytesInSector", "room"}

(* The DMA has room for all the sectors it has still to store, the current *)
(* one in multiples of a FIFO.                                             *)
DmaFits(count, left, room) ==
  /\ count \in Nat /\ left \in 0 .. SectorBytes /\ room \in Nat
  /\ left % FifoBytes = 0
  /\ count > 0 => /\ room >= (count - 1) * SectorBytes + FifoBytes
                  /\ room >= (count - 1) * SectorBytes + left

Dma(s) == DmaFits(s.SectorCount, s.BytesInSector, s.room)

(* BUSY, the motor, the command and the timer belong together. *)
Driven(s) ==
  /\ DOMAIN s.drives = Drives /\ \A d \in Drives : "timed" \in DOMAIN s.drives[d]
  /\ s.DriveSel \in Drives \cup {NoDrive}
  /\ "BUSY" \in s.STR <=> s.Command \notin {"NULL", "MOTOR_STOP"}
  /\ "MOTOR_ON" \in s.STR => s.Command # "NULL"
  /\ s.timer > 0 => Timed(s)

Held(s) == HeldFields \subseteq DOMAIN s /\ Dma(s) /\ Driven(s)

(* What happens outside of the handler keeps a running timer. *)
Steady(s, t) ==
  Held(t) /\ t.Command = s.Command /\ (t.timer = OFF => s.timer = OFF)

-----------------------------------------------------------------------------
(* The DMA. *)

LEMMA Multiples ==
  /\ SectorBytes \in Nat /\ FifoBytes \in Nat \ {0} /\ FifoBytes < SectorBytes
  /\ SectorBytes % FifoBytes = 0
  BY BytesAssumption

LEMMA LessOne ==
  ASSUME NEW n \in Nat, n > 0, NEW m \in Nat
  PROVE  /\ (n - 1) * m \in Nat /\ (n - 1) * m = n * m - m /\ n * m \in Nat
         /\ n > 1 => (n - 1 - 1) * m = (n - 1) * m - m
  OBVIOUS

LEMMA MultipleSteps ==
  ASSUME NEW left \in Nat, left % FifoBytes = 0
  PROVE  /\ left >= FifoBytes => (left - FifoBytes) % FifoBytes = 0
         /\ left > 0 => left >= FifoBytes
<1>1. ASSUME NEW x \in Nat, NEW y \in Nat \ {0}, x % y = 0
      PROVE  (x >= y => (x - y) % y = 0) /\ (x > 0 => x >= y)
  <2>1. PICK k \in Nat : k = x \div y
    OBVIOUS
  <2>2. x = k * y
    BY <1>1, <2>1
  <2>3. x > 0 => x >= y
    BY <2>2
  <2>4. x >= y => (x - y) % y = 0
    <3>1. x - y = (k - 1) * y
      BY <2>2
    <3>2. x >= y => k - 1 \in Nat
      BY <2>2
    <3>3. ASSUME NEW j \in Nat PROVE (j * y) % y = 0
      OBVIOUS
    <3> QED BY <3>1, <3>2, <3>3
  <2> QED BY <2>3, <2>4
<1> QED BY <1>1, Multiples

LEMMA PushFits ==
  ASSUME NEW count, NEW left, NEW room, DmaFits(count, left, room), count # 0
  PROVE  IF left - FifoBytes <= 0 THEN DmaFits(count - 1, SectorBytes, room - FifoBytes)
         ELSE DmaFits(count, left - FifoBytes, room - FifoBytes)
<1> DEFINE rest == (count - 1) * SectorBytes
           next == (count - 1 - 1) * SectorBytes
<1>1. /\ count \in Nat /\ count > 0 /\ left \in 0 .. SectorBytes /\ left % FifoBytes = 0
      /\ room \in Nat /\ room >= rest + FifoBytes /\ room >= rest + left
  BY DEF DmaFits
<1>2. rest \in Nat /\ (count > 1 => next = rest - SectorBytes)
  BY <1>1, LessOne, Multiples
<1> HIDE DEF rest, next
<1>3. CASE left - FifoBytes <= 0
  <2>1. count - 1 \in Nat /\ SectorBytes \in 0 .. SectorBytes /\ room - FifoBytes \in Nat
    BY <1>1, <1>2, Multiples
  <2>2. count - 1 > 0 => /\ room - FifoBytes >= next + FifoBytes
                         /\ room - FifoBytes >= next + SectorBytes
    BY <1>1, <1>2, Multiples
  <2> QED BY <1>3, <2>1, <2>2, Multiples DEF DmaFits, next
<1>4. CASE left - FifoBytes > 0
  <2>1. left - FifoBytes \in 0 .. SectorBytes /\ (left - FifoBytes) % FifoBytes = 0
    BY <1>1, <1>4, MultipleSteps, Multiples
  <2>2. left - FifoBytes >= FifoBytes
    BY <1>4, <2>1, MultipleSteps, Multiples
  <2>3. room - FifoBytes \in Nat /\ room - FifoBytes >= rest + (left - FifoBytes)
    BY <1>1, <1>2, <1>4, Multiples
  <2>4. room - FifoBytes >= rest + FifoBytes
    BY <1>1, <1>2, <2>1, <2>2, <2>3, Multiples
  <2> QED BY <1>1, <1>4, <2>1, <2>3, <2>4, Multiples DEF DmaFits, rest
<1> QED BY <1>1, <1>3, <1>4, Multiples

LEMMA PullFits ==
  ASSUME NEW count, NEW left, NEW room, DmaFits(count, left, room), count # 0
  PROVE  IF left - FifoBytes < 0 THEN DmaFits(count - 1, SectorBytes, room)
         ELSE DmaFits(count, left - FifoBytes, room)
<1> DEFINE rest == (count - 1) * SectorBytes
           next == (count - 1 - 1) * SectorBytes
<1>1. /\ count \in Nat /\ count > 0 /\ left \in 0 .. SectorBytes /\ left % FifoBytes = 0
      /\ room \in Nat /\ room >= rest + FifoBytes /\ room >= rest + left
  BY DEF DmaFits
<1>2. rest \in Nat /\ (count > 1 => next = rest - SectorBytes)
  BY <1>1, LessOne, Multiples
<1> HIDE DEF rest, next
<1>3. CASE left - FifoBytes < 0
  <2>1. count - 1 \in Nat /\ SectorBytes \in 0 .. SectorBytes
    BY <1>1, Multiples
  <2>2. count - 1 > 0 => room >= next + FifoBytes /\ room >= next + SectorBytes
    BY <1>1, <1>2, Multiples
  <2> QED BY <1>1, <1>3, <2>1, <2>2, Multiples DEF DmaFits, next
<1>4. CASE left - FifoBytes >= 0
  <2>1. left - FifoBytes \in 0 .. SectorBytes /\ (left - FifoBytes) % FifoBytes = 0
    BY <1>1, <1>4, MultipleSteps, Multiples
  <2>2. room >= rest + (left - FifoBytes)
    BY <1>1, <1>2, <1>4, Multiples
  <2> QED BY <1>1, <1>4, <2>1, <2>2, Multiples DEF DmaFits, rest
<1> QED BY <1>1, <1>3, <1>4, Multiples

LEMMA LoadFits ==
  ASSUME NEW n \in Nat, NEW left \in 0 .. SectorBytes, left % FifoBytes = 0
  PROVE  DmaFits(n, left, n * SectorBytes)
<1> DEFINE all == n * SectorBytes
           rest == (n - 1) * SectorBytes
<1>1. all \in Nat
  <2>1. n = 0 => all = 0
    BY Multiples
  <2>2. n > 0 => all \in Nat
    BY LessOne, Multiples
  <2> QED BY <2>1, <2>2
<1>2. n > 0 => rest = all - SectorBytes
  BY LessOne, Multiples
<1> HIDE DEF all, rest
<1>3. n > 0 => all >= rest + FifoBytes /\ all >= rest + left
  BY <1>1, <1>2, Multiples
<1> QED BY <1>1, <1>3 DEF DmaFits, all, rest

LEMMA EmptyFits == DmaFits(0, SectorBytes, 0)
  BY Multiples DEF DmaFits

-----------------------------------------------------------------------------
(* Operators that change nothing that Held speaks of. *)

Alike(s, t) ==
  /\ HeldFields \subseteq DOMAIN t
  /\ t.Command = s.Command /\ t.timer = s.timer /\ t.DriveSel = s.DriveSel
  /\ t.SectorCount = s.SectorCount /\ t.BytesInSector = s.BytesInSector /\ t.room = s.room
  /\ "BUSY" \in t.STR <=> "BUSY" \in s.STR
  /\ "MOTOR_ON" \in t.STR <=> "MOTOR_ON" \in s.STR
  /\ DOMAIN t.drives = DOMAIN s.drives
  /\ \A d \in Drives : /\ DOMAIN t.drives[d] = DOMAIN s.drives[d]
                       /\ t.drives[d].timed = s.drives[d].timed

LEMMA AlikeSteady == ASSUME NEW s, NEW t, Held(s), Alike(s, t) PROVE Steady(s, t)
<1>1. Timed(t) = Timed(s)
  BY DEF Alike, Held, Driven, Timed, Selected, NoDrive
<1>2. Dma(t)
  BY DEF Alike, Held, Dma
<1>3. Driven(t)
  BY <1>1 DEF Alike, Held, Driven
<1> QED BY <1>2, <1>3 DEF Alike, Steady, Held

LEMMA SteadyTwice ==
  ASSUME NEW s, NEW t, NEW u, Steady(s, t), Steady(t, u) PROVE Steady(s, u)
  BY DEF Steady

LEMMA SteadySelf == ASSUME NEW s, Held(s) PROVE Steady(s, s)
  BY DEF Steady

LEMMA SteadyHeld == ASSUME NEW s, NEW t, Steady(s, t) PROVE Held(t)
  BY DEF Steady

LEMMA DataSteady ==
  ASSUME NEW s, Held(s)
  PROVE  /\ Steady(s, Turn(s)) /\ Steady(s, NotFound(s))
         /\ Steady(s, NotReplaceable(s)) /\ Steady(s, StopForced(s))
         /\ Steady(s, MFP_Reset(s))
         /\ \A v : /\ Steady(s, FDC_WriteTrackRegister(s, v))
                   /\ Steady(s, FDC_WriteSectorRegister(s, v))
                   /\ Steady(s, FDC_WriteDataRegister(s, v))
                   /\ Steady(s, [s EXCEPT !.IndexPulse_Counter = v])
                   /\ Steady(s, [s EXCEPT !.Buffer = v])
                   /\ Steady(s, [s EXCEPT !.BytesToTransfer = v])
                   /\ Steady(s, [s EXCEPT !.STR = @ \ {"RNF"}])
<1>0. HeldFields \subseteq DOMAIN s
  BY DEF Held
<1>1. /\ Alike(s, Turn(s)) /\ Alike(s, NotFound(s)) /\ Alike(s, NotReplaceable(s))
      /\ Alike(s, StopForced(s)) /\ Alike(s, MFP_Reset(s))
  BY <1>0 DEF Alike, HeldFields, Turn, NotFound, NotReplaceable, StopForced, MFP_Reset
<1>2. ASSUME NEW v
      PROVE  /\ Alike(s, FDC_WriteTrackRegister(s, v)) /\ Alike(s, FDC_WriteSectorRegister(s, v))
             /\ Alike(s, FDC_WriteDataRegister(s, v)) /\ Alike(s, [s EXCEPT !.IndexPulse_Counter = v])
             /\ Alike(s, [s EXCEPT !.Buffer = v]) /\ Alike(s, [s EXCEPT !.BytesToTransfer = v])
             /\ Alike(s, [s EXCEPT !.STR = @ \ {"RNF"}])
  BY <1>0 DEF Alike, HeldFields, FDC_WriteTrackRegister, FDC_WriteSectorRegister, FDC_WriteDataRegister
<1> QED BY <1>1, <1>2, AlikeSteady

LEMMA RequestsSteady ==
  ASSUME NEW s, Held(s)
  PROVE  /\ \A source : Steady(s, FDC_SetIRQ(s, source))
         /\ Steady(s, FDC_ClearIRQ(s)) /\ Steady(s, FDC_ClearHdcIRQ(s))
<1>0. HeldFields \subseteq DOMAIN s
  BY DEF Held
<1>1. ASSUME NEW source PROVE Alike(s, FDC_SetIRQ(s, source))
  BY <1>0 DEF Alike, HeldFields, FDC_SetIRQ
<1>2. Alike(s, FDC_ClearIRQ(s)) /\ Alike(s, FDC_ClearHdcIRQ(s))
  BY <1>0 DEF Alike, HeldFields, FDC_ClearIRQ, FDC_ClearHdcIRQ
<1> QED BY <1>1, <1>2, AlikeSteady

-----------------------------------------------------------------------------
(* Drives. *)

(* A timer that waits for a header runs only while a position is known. *)
LEMMA SetPositionSteady ==
  ASSUME NEW s, Held(s), NEW d \in Drives, NEW known, NEW p
  PROVE  /\ Steady(s, SetPosition(s, d, known, p))
         /\ d = s.DriveSel => ~(SetPosition(s, d, known, p).timer > 0)
<1> DEFINE t == [s EXCEPT !.drives[d].timed = known]
           x == IF t.timer > 0 THEN SOON ELSE t.timer
           u == [t EXCEPT !.pos = p, !.pulse = FALSE, !.timer = x]
<1>0. /\ HeldFields \subseteq DOMAIN s /\ DOMAIN s.drives = Drives
      /\ \A e \in Drives : "timed" \in DOMAIN s.drives[e]
  BY DEF Held, Driven
<1>1. /\ HeldFields \subseteq DOMAIN t
      /\ t.Command = s.Command /\ t.timer = s.timer /\ t.DriveSel = s.DriveSel
      /\ t.SectorCount = s.SectorCount /\ t.BytesInSector = s.BytesInSector /\ t.room = s.room
      /\ t.STR = s.STR /\ DOMAIN t.drives = Drives
      /\ \A e \in Drives : /\ "timed" \in DOMAIN t.drives[e]
                           /\ t.drives[e].timed = IF e = d THEN known ELSE s.drives[e].timed
  BY <1>0 DEF HeldFields
<1> HIDE DEF t, x
<1>2. /\ HeldFields \subseteq DOMAIN u
      /\ u.Command = s.Command /\ u.timer = x /\ u.DriveSel = s.DriveSel
      /\ u.SectorCount = s.SectorCount /\ u.BytesInSector = s.BytesInSector /\ u.room = s.room
      /\ u.STR = s.STR /\ u.drives = t.drives
  BY <1>1 DEF HeldFields
<1> HIDE DEF u
<1>3. ~(x > 0) /\ (x = OFF => s.timer = OFF)
  BY <1>1 DEF x, SOON, OFF
<1>4. Dma(t) /\ Dma(u)
  BY <1>1, <1>2 DEF Held, Dma
<1>5. Driven(u)
  BY <1>1, <1>2, <1>3 DEF Held, Driven
<1>6. CASE d # s.DriveSel
  <2>1. Timed(t) = Timed(s)
    BY <1>1, <1>6 DEF Held, Driven, Timed, Selected, NoDrive
  <2>2. Driven(t)
    BY <1>1, <2>1 DEF Held, Driven
  <2>3. SetPosition(s, d, known, p) = t
    BY <1>6 DEF SetPosition, t
  <2> QED BY <1>1, <1>4, <1>6, <2>2, <2>3 DEF Steady, Held
<1>7. CASE d = s.DriveSel
  <2>1. SetPosition(s, d, known, p) = u
    BY <1>7 DEF SetPosition, t, u, x
  <2> QED BY <1>2, <1>3, <1>4, <1>5, <2>1 DEF Steady, Held
<1> QED BY <1>6, <1>7

LEMMA PositionSteady ==
  ASSUME NEW s, Held(s), NEW d \in Drives, NEW p
  PROVE  /\ Steady(s, FDC_IndexPulse_Init(s, d, p)) /\ Steady(s, ForgetPosition(s, d))
         /\ d = s.DriveSel => ~(ForgetPosition(s, d).timer > 0)
  BY SetPositionSteady DEF FDC_IndexPulse_Init, ForgetPosition

LEMMA SelectedDrive == ASSUME NEW s, Held(s), Selected(s) PROVE s.DriveSel \in Drives
  BY DEF Held, Driven, Selected

LEMMA AccessSteady == ASSUME NEW s, Held(s), NEW p PROVE Steady(s, FDC_IndexPulse_Update(s, p))
<1> DEFINE t == [s EXCEPT !.pulse = FALSE, !.IndexPulse_Counter = Min({@ + 1, MaxPulses})]
<1>1. Alike(s, t)
  BY DEF Alike, Held, HeldFields
<1> HIDE DEF t
<1>2. Steady(s, t) /\ Held(t)
  BY <1>1, AlikeSteady, SteadyHeld
<1>3. Steady(s, FDC_SetIRQ(t, "INDEX"))
  BY <1>2, RequestsSteady, SteadyTwice
<1>4. DriveReady(s) => Steady(s, FDC_IndexPulse_Init(s, s.DriveSel, p))
  BY SelectedDrive, PositionSteady DEF DriveReady
<1> QED BY <1>2, <1>3, <1>4, SteadySelf DEF FDC_IndexPulse_Update, t

LEMMA SetDriveSideSteady ==
  ASSUME NEW s, Held(s), NEW d \in Drives \cup {NoDrive}, NEW p
  PROVE  Steady(s, FDC_SetDriveSide(s, d, p))
<1> DEFINE old == IF Selected(s) THEN ForgetPosition(s, s.DriveSel) ELSE s
           new == [old EXCEPT !.DriveSel = d]
<1>1. Steady(s, old) /\ ~(old.timer > 0)
  <2>1. CASE Selected(s)
    BY <2>1, SelectedDrive, PositionSteady
  <2>2. CASE ~Selected(s)
    BY <2>2, SteadySelf DEF Held, Driven, Timed
  <2> QED BY <2>1, <2>2
<1> HIDE DEF old
<1>2. /\ HeldFields \subseteq DOMAIN new /\ new.DriveSel = d
      /\ new.Command = old.Command /\ new.timer = old.timer /\ new.STR = old.STR
      /\ new.SectorCount = old.SectorCount /\ new.BytesInSector = old.BytesInSector
      /\ new.room = old.room /\ new.drives = old.drives
  BY <1>1 DEF Steady, Held, HeldFields
<1> HIDE DEF new
<1>3. Held(new)
  BY <1>1, <1>2 DEF Steady, Held, Dma, Driven
<1>4. Steady(s, new)
  BY <1>1, <1>2, <1>3 DEF Steady
<1>5. d # NoDrive => Steady(s, FDC_IndexPulse_Init(new, d, p)) /\ Steady(s, ForgetPosition(new, d))
  BY <1>3, <1>4, PositionSteady, SteadyTwice
<1> QED BY <1>4, <1>5, SteadySelf DEF FDC_SetDriveSide, new, old

LEMMA DisksSteady ==
  ASSUME NEW s, Held(s), NEW d \in Drives, NEW prot, NEW p
  PROVE  Steady(s, FDC_InsertFloppy(s, d, prot, p)) /\ Steady(s, FDC_EjectFloppy(s, d))
<1> DEFINE t == [s EXCEPT !.drives[d].inserted = TRUE, !.drives[d].protected = prot]
           u == [s EXCEPT !.drives[d].inserted = FALSE]
<1>0. /\ HeldFields \subseteq DOMAIN s /\ DOMAIN s.drives = Drives
  BY DEF Held, Driven
<1>1. Alike(s, t)
  BY <1>0 DEF Alike, HeldFields
<1>2. Alike(s, u)
  BY <1>0 DEF Alike, HeldFields
<1> HIDE DEF t, u
<1>3. Steady(s, t) /\ Steady(s, u) /\ Held(t) /\ Held(u)
  BY <1>1, <1>2, AlikeSteady, SteadyHeld
<1>4. /\ Steady(s, FDC_IndexPulse_Init(t, d, p)) /\ Steady(s, ForgetPosition(t, d))
      /\ Steady(s, ForgetPosition(u, d))
  BY <1>3, PositionSteady, SteadyTwice
<1> QED BY <1>4 DEF FDC_InsertFloppy, FDC_EjectFloppy, t, u

LEMMA MoveHeadSteady ==
  ASSUME NEW s, Held(s), NEW dir PROVE Steady(s, MoveHead(s, dir))
<1>0. /\ HeldFields \subseteq DOMAIN s /\ DOMAIN s.drives = Drives
  BY DEF Held, Driven
<1>1. Alike(s, MoveHead(s, dir))
  BY <1>0 DEF Alike, HeldFields, MoveHead
<1> QED BY <1>1, AlikeSteady

-----------------------------------------------------------------------------
(* The DMA of the controller. *)

(* Nothing but the DMA changes. *)
Counted(s, t) ==
  /\ HeldFields \subseteq DOMAIN t /\ Dma(t)
  /\ t.Command = s.Command /\ t.timer = s.timer /\ t.DriveSel = s.DriveSel
  /\ t.STR = s.STR /\ t.drives = s.drives

LEMMA CountedSteady == ASSUME NEW s, NEW t, Held(s), Counted(s, t) PROVE Steady(s, t)
<1>1. Timed(t) = Timed(s)
  BY DEF Counted, Timed, Selected
<1>2. Driven(t)
  BY <1>1 DEF Counted, Held, Driven
<1> QED BY <1>2 DEF Counted, Steady, Held

LEMMA PushSteady == ASSUME NEW s, Held(s) PROVE Steady(s, FDC_DMA_FIFO_Push(s))
<1> DEFINE f == [s EXCEPT !.FIFO_Size = @ + 1]
           t == [s EXCEPT !.FIFO_Size = 0, !.room = @ - FifoBytes]
           left == t.BytesInSector - FifoBytes
           more == [t EXCEPT !.SectorCount = @ - 1, !.BytesInSector = SectorBytes]
           less == [t EXCEPT !.BytesInSector = left]
<1>0. HeldFields \subseteq DOMAIN s
  BY DEF Held
<1>1. Steady(s, f)
  <2>1. Alike(s, f)
    BY <1>0 DEF Alike, HeldFields
  <2> QED BY <2>1, AlikeSteady
<1>2. CASE s.SectorCount # 0
  <2>1. /\ HeldFields \subseteq DOMAIN t
        /\ t.Command = s.Command /\ t.timer = s.timer /\ t.DriveSel = s.DriveSel
        /\ t.STR = s.STR /\ t.drives = s.drives
        /\ t.SectorCount = s.SectorCount /\ t.BytesInSector = s.BytesInSector
        /\ t.room = s.room - FifoBytes
    BY <1>0 DEF HeldFields
  <2>2. left = s.BytesInSector - FifoBytes
    BY <2>1
  <2> HIDE DEF t, left
  <2>3. IF left <= 0 THEN DmaFits(s.SectorCount - 1, SectorBytes, s.room - FifoBytes)
        ELSE DmaFits(s.SectorCount, left, s.room - FifoBytes)
    BY <1>2, <2>2, PushFits DEF Held, Dma
  <2>4. left <= 0 => Counted(s, more)
    BY <2>1, <2>3 DEF Counted, HeldFields, Dma
  <2>5. ~(left <= 0) => Counted(s, less)
    BY <2>1, <2>3 DEF Counted, HeldFields, Dma
  <2>6. CountRead(t) = IF left <= 0 THEN more ELSE less
    BY DEF CountRead, left
  <2> HIDE DEF more, less
  <2>7. Steady(s, CountRead(t))
    BY <2>4, <2>5, <2>6, CountedSteady
  <2> QED BY <1>1, <1>2, <2>7 DEF FDC_DMA_FIFO_Push, t
<1>3. CASE s.SectorCount = 0
  BY <1>3, SteadySelf DEF FDC_DMA_FIFO_Push
<1> QED BY <1>2, <1>3

LEMMA PullSteady == ASSUME NEW s, Held(s) PROVE Steady(s, FDC_DMA_FIFO_Pull(s))
<1> DEFINE f == [s EXCEPT !.FIFO_Size = @ - 1]
           t == [s EXCEPT !.FIFO_Size = FifoBytes - 1]
           left == t.BytesInSector - FifoBytes
           more == [t EXCEPT !.SectorCount = @ - 1, !.BytesInSector = SectorBytes]
           less == [t EXCEPT !.BytesInSector = left]
<1>0. HeldFields \subseteq DOMAIN s
  BY DEF Held
<1>1. Steady(s, f)
  <2>1. Alike(s, f)
    BY <1>0 DEF Alike, HeldFields
  <2> QED BY <2>1, AlikeSteady
<1>2. CASE s.SectorCount # 0
  <2>1. /\ HeldFields \subseteq DOMAIN t
        /\ t.Command = s.Command /\ t.timer = s.timer /\ t.DriveSel = s.DriveSel
        /\ t.STR = s.STR /\ t.drives = s.drives
        /\ t.SectorCount = s.SectorCount /\ t.BytesInSector = s.BytesInSector
        /\ t.room = s.room
    BY <1>0 DEF HeldFields
  <2>2. left = s.BytesInSector - FifoBytes
    BY <2>1
  <2> HIDE DEF t, left
  <2>3. IF left < 0 THEN DmaFits(s.SectorCount - 1, SectorBytes, s.room)
        ELSE DmaFits(s.SectorCount, left, s.room)
    BY <1>2, <2>2, PullFits DEF Held, Dma
  <2>4. left < 0 => Counted(s, more)
    BY <2>1, <2>3 DEF Counted, HeldFields, Dma
  <2>5. ~(left < 0) => Counted(s, less)
    BY <2>1, <2>3 DEF Counted, HeldFields, Dma
  <2>6. CountWrite(t) = IF left < 0 THEN more ELSE less
    BY DEF CountWrite, left
  <2> HIDE DEF more, less
  <2>7. Steady(s, CountWrite(t))
    BY <2>4, <2>5, <2>6, CountedSteady
  <2> QED BY <1>1, <1>2, <2>7 DEF FDC_DMA_FIFO_Pull, t
<1>3. CASE s.SectorCount = 0
  BY <1>3, SteadySelf DEF FDC_DMA_FIFO_Pull
<1> QED BY <1>2, <1>3

LEMMA ResetDMASteady == ASSUME NEW s, Held(s) PROVE Steady(s, FDC_ResetDMA(s))
<1>1. Counted(s, FDC_ResetDMA(s))
  BY EmptyFits DEF Counted, Held, HeldFields, Dma, FDC_ResetDMA
<1> QED BY <1>1, CountedSteady

LEMMA CountSteady ==
  ASSUME NEW s, Held(s), NEW n \in Nat
  PROVE  Steady(s, FDC_WriteSectorCountRegister(s, n))
<1>1. s.BytesInSector \in 0 .. SectorBytes /\ s.BytesInSector % FifoBytes = 0
  BY DEF Held, Dma, DmaFits
<1>2. DmaFits(n, s.BytesInSector, n * SectorBytes)
  BY <1>1, LoadFits
<1> DEFINE all == n * SectorBytes
<1> HIDE DEF all
<1>3. Counted(s, [s EXCEPT !.SectorCount = n, !.room = all])
  BY <1>2 DEF Counted, Held, HeldFields, Dma, all
<1> QED BY <1>3, CountedSteady DEF FDC_WriteSectorCountRegister, all

LEMMA ModeSteady ==
  ASSUME NEW s, Held(s), NEW write
  PROVE  Steady(s, FDC_DmaModeControl_WriteWord(s, write))
<1> DEFINE t == [s EXCEPT !.writeMode = write]
<1>1. Alike(s, t)
  BY DEF Alike, Held, HeldFields
<1> HIDE DEF t
<1>2. Steady(s, FDC_ResetDMA(t))
  BY <1>1, AlikeSteady, SteadyHeld, ResetDMASteady, SteadyTwice
<1> QED BY <1>2, SteadySelf DEF FDC_DmaModeControl_WriteWord, t

-----------------------------------------------------------------------------
(* Steps of the commands. *)

(* A pass of a command that goes on. *)
Goes(s, t) == Held(t) /\ t.Command = s.Command

LEMMA SteadyGoes == ASSUME NEW s, NEW t, Steady(s, t) PROVE Goes(s, t)
  BY DEF Steady, Goes

LEMMA GoesTwice == ASSUME NEW s, NEW t, NEW u, Goes(s, t), Goes(t, u) PROVE Goes(s, u)
  BY DEF Goes

LEMMA AtGoes ==
  ASSUME NEW s, Held(s), NEW st, NEW delay, delay > 0 => Timed(s)
  PROVE  Goes(s, At(s, st, delay))
<1> DEFINE t == At(s, st, delay)
<1>1. /\ HeldFields \subseteq DOMAIN t
      /\ t.Command = s.Command /\ t.timer = delay /\ t.DriveSel = s.DriveSel
      /\ t.SectorCount = s.SectorCount /\ t.BytesInSector = s.BytesInSector
      /\ t.room = s.room /\ t.STR = s.STR /\ t.drives = s.drives
  BY DEF Held, HeldFields, At
<1> HIDE DEF t
<1>2. Timed(t) = Timed(s)
  BY <1>1 DEF Timed, Selected
<1>3. Dma(t) /\ Driven(t)
  BY <1>1, <1>2 DEF Held, Dma, Driven
<1> QED BY <1>1, <1>3 DEF Held, Goes, t

LEMMA LaterGoes ==
  ASSUME NEW s, Held(s), NEW st PROVE Goes(s, Later(s, st)) /\ Goes(s, Immediately(s, st))
  BY AtGoes DEF Later, Immediately, SOON, OFF

(* A change of the data, then of the state. *)
LEMMA ThenGoes ==
  ASSUME NEW s, NEW t, Steady(s, t), NEW st
  PROVE  Goes(s, Later(t, st)) /\ Goes(s, Immediately(t, st))
  BY SteadyGoes, SteadyHeld, LaterGoes, GoesTwice

LEMMA NextSectorGoes ==
  ASSUME NEW s, Held(s), HeaderComes(s), NEW st PROVE Goes(s, FDC_NextSectorID(s, st))
<1> DEFINE h == IF s.pos < Sectors THEN s.pos + 1 ELSE 1
           t == [s EXCEPT !.NextTR = Head(s), !.NextSR = h]
<1> HIDE DEF h
<1>1. Alike(s, t) /\ t.drives = s.drives
  BY DEF Alike, Held, HeldFields
<1> HIDE DEF t
<1>2. Timed(t)
  BY <1>1 DEF Alike, HeaderComes, Timed, Selected
<1>3. Goes(s, t) /\ Goes(t, At(t, st, h))
  BY <1>1, <1>2, AlikeSteady, SteadyGoes, SteadyHeld, AtGoes
<1> QED BY <1>3, GoesTwice DEF FDC_NextSectorID, t, h

(* The fields and the drives are there, whatever the command. *)
Bare(s) ==
  /\ HeldFields \subseteq DOMAIN s
  /\ DOMAIN s.drives = Drives /\ \A d \in Drives : "timed" \in DOMAIN s.drives[d]
  /\ s.DriveSel \in Drives \cup {NoDrive}

(* A command is stopped, and the wait for the motor starts. *)
LEMMA StoppedHeld ==
  ASSUME NEW s, Bare(s), Dma(s)
  PROVE  LET t == Immediately([s EXCEPT !.STR = @ \ {"BUSY"}, !.Command = "MOTOR_STOP"], "STOP")
         IN Held(t) /\ t.Command = "MOTOR_STOP"
<1> DEFINE t == Immediately([s EXCEPT !.STR = @ \ {"BUSY"}, !.Command = "MOTOR_STOP"], "STOP")
<1>1. /\ HeldFields \subseteq DOMAIN t
      /\ t.Command = "MOTOR_STOP" /\ t.timer = OFF /\ t.DriveSel = s.DriveSel
      /\ t.SectorCount = s.SectorCount /\ t.BytesInSector = s.BytesInSector
      /\ t.room = s.room /\ t.STR = s.STR \ {"BUSY"} /\ t.drives = s.drives
  BY DEF Bare, HeldFields, Immediately, At
<1> HIDE DEF t
<1>2. Dma(t) /\ Driven(t)
  BY <1>1 DEF Bare, Dma, Driven, OFF
<1> QED BY <1>1, <1>2 DEF Held, t

(* The end of a command. *)
LEMMA CompleteHeld ==
  ASSUME NEW s, Held(s), NEW doInt PROVE Held(FDC_CmdCompleteCommon(s, doInt))
<1> DEFINE t == IF doInt THEN FDC_SetIRQ(s, "COMPLETE") ELSE s
<1>1. Held(t)
  BY RequestsSteady, SteadyHeld
<1> HIDE DEF t
<1>2. Bare(t) /\ Dma(t)
  BY <1>1 DEF Held, Driven, Bare
<1> QED BY <1>2, StoppedHeld DEF FDC_CmdCompleteCommon, t

LEMMA EndedHeld == ASSUME NEW s, Held(s) PROVE Held(Ended(s))
  BY DataSteady, SteadyHeld, CompleteHeld DEF Ended

LEMMA SetMotorSteady ==
  ASSUME NEW s, Held(s), s.Command # "NULL", NEW p PROVE Steady(s, FDC_Set_MotorON(s, p))
<1> DEFINE t == [s EXCEPT !.STR = @ \cup {"MOTOR_ON"}]
<1>1. /\ HeldFields \subseteq DOMAIN t
      /\ t.Command = s.Command /\ t.timer = s.timer /\ t.DriveSel = s.DriveSel
      /\ t.SectorCount = s.SectorCount /\ t.BytesInSector = s.BytesInSector
      /\ t.room = s.room /\ t.STR = s.STR \cup {"MOTOR_ON"} /\ t.drives = s.drives
  BY DEF Held, HeldFields
<1> HIDE DEF t
<1>2. Timed(t) = Timed(s)
  BY <1>1 DEF Timed, Selected
<1>3. Steady(s, t)
  BY <1>1, <1>2 DEF Steady, Held, Dma, Driven
<1>4. DriveReady(s) => Steady(s, FDC_IndexPulse_Init(t, s.DriveSel, p))
  BY <1>3, SteadyHeld, SelectedDrive, PositionSteady, SteadyTwice DEF DriveReady
<1> QED BY <1>3, <1>4 DEF FDC_Set_MotorON, t

LEMMA StartMotorGoes ==
  ASSUME NEW s, Held(s), s.Command # "NULL", NEW next, NEW p PROVE Goes(s, StartMotor(s, next, p))
<1> DEFINE t == FDC_Set_MotorON(s, p)
           u == [t EXCEPT !.IndexPulse_Counter = 0]
<1>1. Steady(s, t)
  BY SetMotorSteady
<1> HIDE DEF t
<1>2. Steady(s, u)
  BY <1>1, SteadyHeld, DataSteady, SteadyTwice
<1> HIDE DEF u
<1> QED BY <1>1, <1>2, ThenGoes DEF StartMotor, t, u

-----------------------------------------------------------------------------
(* Commands of type I. *)

LEMMA VerifyHeaderHeld == ASSUME NEW s, Held(s) PROVE Held(VerifyNextHeader(s))
<1>1. Held(Later(NotFound(s), "COMPLETE"))
  BY DataSteady, ThenGoes DEF Goes
<1>2. Held(Later(s, "NEXT_HEADER"))
  BY LaterGoes DEF Goes
<1>3. HeaderComes(s) => Held(FDC_NextSectorID(s, "CHECK_HEADER"))
  BY NextSectorGoes DEF Goes
<1> QED BY <1>1, <1>2, <1>3 DEF VerifyNextHeader

LEMMA VerifyHeld ==
  ASSUME NEW s, Held(s), s.CommandState \in Verifying PROVE Held(Verify(s))
<1>1. CASE s.CommandState = "VERIFY"
  BY <1>1, LaterGoes DEF Verify, Goes
<1>2. CASE s.CommandState = "HEAD_OK"
  <2> DEFINE t == [s EXCEPT !.IndexPulse_Counter = 0]
  <2>1. Held(t)
    BY DataSteady, SteadyHeld
  <2>2. Verify(s) = VerifyNextHeader(t)
    BY <1>2 DEF Verify
  <2> QED BY <2>1, <2>2, VerifyHeaderHeld
<1>3. CASE s.CommandState = "NEXT_HEADER"
  BY <1>3, VerifyHeaderHeld DEF Verify
<1>4. CASE s.CommandState = "CHECK_HEADER"
  <2> DEFINE t == [s EXCEPT !.STR = @ \ {"RNF"}]
  <2>1. Verify(s) = Later(t, "COMPLETE") \/ Verify(s) = Immediately(s, "NEXT_HEADER")
    BY <1>4 DEF Verify
  <2>2. Held(Later(t, "COMPLETE")) /\ Held(Immediately(s, "NEXT_HEADER"))
    BY DataSteady, ThenGoes, LaterGoes DEF Goes
  <2> QED BY <2>1, <2>2
<1>5. CASE s.CommandState = "COMPLETE"
  BY <1>5, CompleteHeld DEF Verify
<1> QED BY <1>1, <1>2, <1>3, <1>4, <1>5 DEF Verifying

LEMMA RestoreLoopHeld == ASSUME NEW s, Held(s) PROVE Held(RestoreLoop(s))
<1> DEFINE u == [s EXCEPT !.TR = @ - 1]
           v == IF Selected(s) THEN MoveHead(u, -1) ELSE u
           w == [s EXCEPT !.TR = 0]
<1>1. Steady(s, u) /\ Steady(s, w)
  BY DataSteady DEF FDC_WriteTrackRegister
<1> HIDE DEF u, w
<1>2. Steady(s, v)
  BY <1>1, SteadyHeld, MoveHeadSteady, SteadyTwice
<1> HIDE DEF v
<1>3. Held(Later(v, "LOOP")) /\ Held(Immediately(w, "VERIFY"))
  BY <1>1, <1>2, ThenGoes DEF Goes
<1>4. Held(FDC_CmdCompleteCommon(NotFound(s), TRUE))
  BY DataSteady, SteadyHeld, CompleteHeld
<1> QED BY <1>3, <1>4 DEF RestoreLoop, u, v, w

LEMMA SeekTrackHeld == ASSUME NEW s, Held(s) PROVE Held(SeekTrack(s))
<1> DEFINE dir == IF s.DR < s.TR THEN -1 ELSE 1
           u == [s EXCEPT !.StepDirection = dir, !.TR = Wrap(@ + dir)]
           v == MoveHead(u, dir)
           w == IF dir = -1 THEN [u EXCEPT !.TR = 0] ELSE u
<1> HIDE DEF dir
<1>1. Steady(s, u)
  <2>1. Alike(s, u)
    BY DEF Alike, Held, HeldFields
  <2> QED BY <2>1, AlikeSteady
<1> HIDE DEF u
<1>2. Steady(s, v)
  BY <1>1, SteadyHeld, MoveHeadSteady, SteadyTwice
<1>3. Steady(s, w)
  <2>1. Steady(u, [u EXCEPT !.TR = 0])
    BY <1>1, SteadyHeld, DataSteady DEF FDC_WriteTrackRegister
  <2> QED BY <1>1, <2>1, SteadyTwice
<1> HIDE DEF v, w
<1>4. \A st : /\ Held(Later(u, st)) /\ Held(Later(v, st))
              /\ Held(Immediately(w, st)) /\ Held(Immediately(s, st))
  BY <1>1, <1>2, <1>3, SteadySelf, ThenGoes DEF Goes
<1> QED BY <1>4 DEF SeekTrack, dir, u, v, w

LEMMA StepOnceHeld == ASSUME NEW s, Held(s) PROVE Held(StepOnce(s))
<1> DEFINE dir == s.StepDirection
           u == IF s.CR.multi THEN [s EXCEPT !.TR = Wrap(@ + dir)] ELSE s
           v == MoveHead(u, dir)
<1>1. Steady(s, u)
  <2>1. Steady(s, [s EXCEPT !.TR = Wrap(@ + dir)])
    BY DataSteady DEF FDC_WriteTrackRegister
  <2> QED BY <2>1, SteadySelf
<1> HIDE DEF u
<1>2. Steady(s, v)
  BY <1>1, SteadyHeld, MoveHeadSteady, SteadyTwice
<1> HIDE DEF v, dir
<1>3. Held(Later(u, "VERIFY")) /\ Held(Immediately(u, "VERIFY")) /\ Held(Later(v, "VERIFY"))
  BY <1>1, <1>2, ThenGoes DEF Goes
<1> QED BY <1>3 DEF StepOnce, dir, u, v

LEMMA RestoreHeld ==
  ASSUME NEW s, Held(s), Proper(s), s.Command = "RESTORE", NEW p
  PROVE  Held(FDC_UpdateRestoreCmd(s, p))
<1> DEFINE t == FDC_UpdateRestoreCmd(s, p)
           u == [NotReplaceable(s) EXCEPT !.TR = RegMax]
<1>1. s.CommandState \in Positioning \cup {"LOOP"}
  BY StateSets DEF Proper
<1>2. Held(u)
  BY DataSteady, SteadyHeld DEF FDC_WriteTrackRegister
<1>3. CASE s.CommandState = "START"
  <2>1. t = StartMotor(s, "MOTOR_ON", p)
    BY <1>3 DEF FDC_UpdateRestoreCmd, SpunUp, SpinningUp
  <2> QED BY <2>1, StartMotorGoes DEF Goes
<1>4. CASE SpinningUp(s)
  <2>1. t = Later(s, "SPIN_UP")
    BY <1>4 DEF FDC_UpdateRestoreCmd, SpunUp, SpinningUp
  <2> QED BY <2>1, LaterGoes DEF Goes
<1>5. CASE SpunUp(s)
  <2>1. t = RestoreLoop(u)
    BY <1>5 DEF FDC_UpdateRestoreCmd, SpunUp, SpinningUp
  <2> QED BY <2>1, <1>2, RestoreLoopHeld
<1>6. CASE s.CommandState = "LOOP"
  <2>1. t = RestoreLoop(s)
    BY <1>6 DEF FDC_UpdateRestoreCmd, SpunUp, SpinningUp
  <2> QED BY <2>1, RestoreLoopHeld
<1>7. CASE s.CommandState \in Verifying
  <2>1. t = Verify(s)
    BY <1>7 DEF FDC_UpdateRestoreCmd, SpunUp, SpinningUp, Verifying
  <2> QED BY <2>1, <1>7, VerifyHeld
<1> QED BY <1>1, <1>3, <1>4, <1>5, <1>6, <1>7 DEF Positioning, SpunUp, SpinningUp, Verifying

LEMMA SeekHeld ==
  ASSUME NEW s, Held(s), Proper(s), s.Command = "SEEK", NEW p
  PROVE  Held(FDC_UpdateSeekCmd(s, p))
<1> DEFINE t == FDC_UpdateSeekCmd(s, p)
<1>1. s.CommandState \in Positioning
  BY StateSets DEF Proper
<1>2. Held(NotReplaceable(s))
  BY DataSteady, SteadyHeld
<1>3. CASE s.CommandState = "START"
  <2>1. t = StartMotor(s, "MOTOR_ON", p)
    BY <1>3 DEF FDC_UpdateSeekCmd, SpunUp, SpinningUp
  <2> QED BY <2>1, StartMotorGoes DEF Goes
<1>4. CASE SpinningUp(s)
  <2>1. t = Later(s, "SPIN_UP")
    BY <1>4 DEF FDC_UpdateSeekCmd, SpunUp, SpinningUp
  <2> QED BY <2>1, LaterGoes DEF Goes
<1>5. CASE SpunUp(s)
  <2>1. t = SeekTrack(NotReplaceable(s))
    BY <1>5 DEF FDC_UpdateSeekCmd, SpunUp, SpinningUp
  <2> QED BY <2>1, <1>2, SeekTrackHeld
<1>6. CASE s.CommandState \in Verifying
  <2>1. t = Verify(s)
    BY <1>6 DEF FDC_UpdateSeekCmd, SpunUp, SpinningUp, Verifying
  <2> QED BY <2>1, <1>6, VerifyHeld
<1> QED BY <1>1, <1>3, <1>4, <1>5, <1>6 DEF Positioning, SpunUp, SpinningUp, Verifying

LEMMA StepHeld ==
  ASSUME NEW s, Held(s), Proper(s), s.Command = "STEP", NEW p
  PROVE  Held(FDC_UpdateStepCmd(s, p))
<1> DEFINE t == FDC_UpdateStepCmd(s, p)
<1>1. s.CommandState \in Positioning
  BY StateSets DEF Proper
<1>2. Held(NotReplaceable(s))
  BY DataSteady, SteadyHeld
<1>3. CASE s.CommandState = "START"
  <2>1. t = StartMotor(s, "MOTOR_ON", p)
    BY <1>3 DEF FDC_UpdateStepCmd, SpunUp, SpinningUp
  <2> QED BY <2>1, StartMotorGoes DEF Goes
<1>4. CASE SpinningUp(s)
  <2>1. t = Later(s, "SPIN_UP")
    BY <1>4 DEF FDC_UpdateStepCmd, SpunUp, SpinningUp
  <2> QED BY <2>1, LaterGoes DEF Goes
<1>5. CASE SpunUp(s)
  <2>1. t = StepOnce(NotReplaceable(s))
    BY <1>5 DEF FDC_UpdateStepCmd, SpunUp, SpinningUp
  <2> QED BY <2>1, <1>2, StepOnceHeld
<1>6. CASE s.CommandState \in Verifying
  <2>1. t = Verify(s)
    BY <1>6 DEF FDC_UpdateStepCmd, SpunUp, SpinningUp, Verifying
  <2> QED BY <2>1, <1>6, VerifyHeld
<1> QED BY <1>1, <1>3, <1>4, <1>5, <1>6 DEF Positioning, SpunUp, SpinningUp, Verifying

-----------------------------------------------------------------------------
(* Commands of types II and III. *)

LEMMA ResetSearchSteady == ASSUME NEW s, Held(s) PROVE Steady(s, ResetSearch(s))
<1>1. Steady(s, NotReplaceable(s))
  BY DataSteady
<1>2. Steady(NotReplaceable(s), ResetSearch(s))
  BY <1>1, SteadyHeld, DataSteady DEF ResetSearch
<1> QED BY <1>1, <1>2, SteadyTwice

(* The usual changes of the data, then of the state. *)
LEMMA PreparedHeld ==
  ASSUME NEW s, Held(s), NEW st, NEW n
  PROVE  /\ Held(Later(NotReplaceable(s), st))
         /\ Held(Later([s EXCEPT !.Buffer = n], st))
         /\ Held(Immediately([s EXCEPT !.Buffer = n], st))
<1>1. Steady(s, NotReplaceable(s)) /\ Steady(s, [s EXCEPT !.Buffer = n])
  BY DataSteady
<1> QED BY <1>1, ThenGoes DEF Goes

LEMMA AwaitHeld ==
  ASSUME NEW s, Held(s) PROVE Held(AwaitIndex(s)) /\ Held(AwaitIndex(NotReplaceable(s)))
<1>1. Held(NotReplaceable(s))
  BY DataSteady, SteadyHeld
<1> QED BY <1>1, LaterGoes DEF AwaitIndex, Goes

LEMMA SearchHeld == ASSUME NEW s, Held(s) PROVE Held(SearchSector(s))
<1>1. HeaderComes(s) => Held(FDC_NextSectorID(s, "CHECK_HEADER"))
  BY NextSectorGoes DEF Goes
<1> QED BY <1>1, LaterGoes DEF SearchSector, Goes

LEMMA TransferReadHeld == ASSUME NEW s, Held(s), NEW last PROVE Held(TransferRead(s, last))
<1> DEFINE v == FDC_DMA_FIFO_Push(s)
           t == [v EXCEPT !.Buffer = Max({@ - 1, 0})]
<1>1. Held(v)
  BY PushSteady, SteadyHeld
<1> HIDE DEF v
<1>2. Held(t)
  BY <1>1, DataSteady, SteadyHeld
<1> HIDE DEF t
<1>3. \A st : Held(Later(t, st))
  BY <1>2, LaterGoes DEF Goes
<1> QED BY <1>3 DEF TransferRead, t, v

LEMMA TransferWriteHeld ==
  ASSUME NEW s, Held(s), NEW t, Held(t) PROVE Held(TransferWrite(s, t))
<1> DEFINE v == FDC_DMA_FIFO_Pull(s)
           w == [v EXCEPT !.Buffer = @ + 1, !.BytesToTransfer = @ - 1]
           x == [t EXCEPT !.BytesToTransfer = @ - 1]
<1>1. Held(v)
  BY PullSteady, SteadyHeld
<1> HIDE DEF v
<1>2. Held(w)
  <2>1. Alike(v, w)
    BY <1>1 DEF Alike, Held, HeldFields
  <2> QED BY <1>1, <2>1, AlikeSteady, SteadyHeld
<1> HIDE DEF w
<1>3. Held(Later(w, "TRANSFER_LOOP"))
  BY <1>2, LaterGoes DEF Goes
<1>4. Held(x)
  BY DataSteady, SteadyHeld
<1> QED BY <1>3, <1>4 DEF TransferWrite, v, w, x

LEMMA StartWriteHeld == ASSUME NEW s, Held(s), NEW n PROVE Held(StartWrite(s, n))
<1> DEFINE t == [s EXCEPT !.Buffer = 0, !.BytesToTransfer = n]
<1>1. Alike(s, t)
  BY DEF Alike, Held, HeldFields
<1> HIDE DEF t
<1> QED BY <1>1, AlikeSteady, ThenGoes DEF StartWrite, Goes, t

LEMMA NextSectorHeld == ASSUME NEW s, Held(s) PROVE Held(NextSector(s))
<1> DEFINE t == [s EXCEPT !.SR = Wrap(@ + 1)]
<1>1. Steady(s, t)
  BY DataSteady DEF FDC_WriteSectorRegister
<1> HIDE DEF t
<1> QED BY <1>1, ThenGoes, LaterGoes DEF NextSector, Goes, t

LEMMA ReadAddressGoes == ASSUME NEW s, Held(s), NEW old PROVE Goes(s, ReadAddress(s, old))
<1> DEFINE u == [s EXCEPT !.SR = Head(s), !.Buffer = IdBytes]
           v == [s EXCEPT !.SR = old, !.Buffer = 0]
<1>1. Alike(s, u) /\ Alike(s, v)
  BY DEF Alike, Held, HeldFields
<1> HIDE DEF u, v
<1> QED BY <1>1, AlikeSteady, ThenGoes DEF ReadAddress, u, v

LEMMA ReadSectorsHeld ==
  ASSUME NEW s, Held(s), Proper(s), s.Command = "READSECTORS", NEW p, NEW out
  PROVE  Held(FDC_UpdateReadSectorsCmd(s, p, out))
<1> DEFINE t == FDC_UpdateReadSectorsCmd(s, p, out)
<1> USE DEF SpinningUp, HeadLoading, HeadLoaded, NoSpinUpLeft, Goes
<1>1. s.CommandState \in Starting \cup
                         {"NEXT_HEADER", "CHECK_HEADER", "TRANSFER_START", "TRANSFER_LOOP",
                          "CRC", "MULTI", "RNF", "COMPLETE"}
  BY StateSets DEF Proper, TypeII
<1>2. CASE s.CommandState = "START"
  <2>1. t = StartMotor(s, "HEAD_LOAD", p)
    BY <1>2 DEF FDC_UpdateReadSectorsCmd
  <2> QED BY <2>1, StartMotorGoes
<1>3. CASE SpinningUp(s)
  <2>1. t = Later(s, "SPIN_UP")
    BY <1>3 DEF FDC_UpdateReadSectorsCmd
  <2> QED BY <2>1, LaterGoes
<1>4. CASE HeadLoading(s)
  <2>1. t = Later(s, "MOTOR_ON")
    BY <1>4 DEF FDC_UpdateReadSectorsCmd
  <2> QED BY <2>1, LaterGoes
<1>5. CASE HeadLoaded(s) \/ s.CommandState = "MOTOR_ON"
  <2>1. t = Immediately(ResetSearch(s), "NEXT_HEADER")
    BY <1>5 DEF FDC_UpdateReadSectorsCmd
  <2> QED BY <2>1, ResetSearchSteady, ThenGoes
<1>6. CASE s.CommandState = "NEXT_HEADER"
  <2>1. t = SearchSector(s)
    BY <1>6 DEF FDC_UpdateReadSectorsCmd
  <2> QED BY <2>1, SearchHeld
<1>7. CASE s.CommandState = "CHECK_HEADER"
  <2>1. t = CheckHeader(s, out)
    BY <1>7 DEF FDC_UpdateReadSectorsCmd
  <2> QED BY <2>1, LaterGoes DEF CheckHeader
<1>8. CASE s.CommandState = "TRANSFER_START"
  <2>1. \/ t = Later([s EXCEPT !.Buffer = SectorBytes], "TRANSFER_LOOP")
        \/ t = Immediately([s EXCEPT !.Buffer = 0], "RNF")
    BY <1>8 DEF FDC_UpdateReadSectorsCmd
  <2> QED BY <2>1, PreparedHeld
<1>9. CASE s.CommandState = "TRANSFER_LOOP"
  <2>1. t = TransferRead(s, "CRC")
    BY <1>9 DEF FDC_UpdateReadSectorsCmd
  <2> QED BY <2>1, TransferReadHeld
<1>10. CASE s.CommandState = "CRC"
  <2>1. t = Immediately(s, "MULTI")
    BY <1>10 DEF FDC_UpdateReadSectorsCmd
  <2> QED BY <2>1, LaterGoes
<1>11. CASE s.CommandState = "MULTI"
  <2>1. t = NextSector(s)
    BY <1>11 DEF FDC_UpdateReadSectorsCmd
  <2> QED BY <2>1, NextSectorHeld
<1>12. CASE s.CommandState \in {"RNF", "COMPLETE"}
  <2>1. t = Ended(s)
    BY <1>12 DEF FDC_UpdateReadSectorsCmd
  <2> QED BY <2>1, EndedHeld
<1>13. s.CommandState \in Starting => \/ s.CommandState \in {"START", "MOTOR_ON"}
                                     \/ SpinningUp(s) \/ HeadLoading(s) \/ HeadLoaded(s)
  BY StartingCases
<1> QED BY <1>1, <1>2, <1>3, <1>4, <1>5, <1>6, <1>7, <1>8, <1>9, <1>10, <1>11, <1>12, <1>13

LEMMA UnprotectedHeld ==
  ASSUME NEW s, Held(s), Proper(s), s.Command = "WRITESECTORS", NEW p, NEW out
  PROVE  Held(UnprotectedWrite(s, p, out))
<1> DEFINE t == UnprotectedWrite(s, p, out)
<1> USE DEF SpinningUp, HeadLoading, HeadLoaded, NoSpinUpLeft, Goes
<1>1. s.CommandState \in Starting \cup
                         {"NEXT_HEADER", "CHECK_HEADER", "TRANSFER_START", "TRANSFER_LOOP",
                          "CRC", "MULTI", "RNF", "COMPLETE"}
  BY StateSets DEF Proper, TypeII
<1>2. CASE s.CommandState = "START"
  <2>1. t = StartMotor(s, "HEAD_LOAD", p)
    BY <1>2 DEF UnprotectedWrite
  <2> QED BY <2>1, StartMotorGoes
<1>3. CASE SpinningUp(s)
  <2>1. t = Later(s, "SPIN_UP")
    BY <1>3 DEF UnprotectedWrite
  <2> QED BY <2>1, LaterGoes
<1>4. CASE HeadLoading(s)
  <2>1. t = Later(s, "MOTOR_ON")
    BY <1>4 DEF UnprotectedWrite
  <2> QED BY <2>1, LaterGoes
<1>5. CASE HeadLoaded(s) \/ s.CommandState = "MOTOR_ON"
  <2>1. t = SearchSector(ResetSearch(s))
    BY <1>5 DEF UnprotectedWrite, FirstSearch
  <2> QED BY <2>1, ResetSearchSteady, SteadyHeld, SearchHeld
<1>6. CASE s.CommandState = "NEXT_HEADER"
  <2>1. t = SearchSector(s)
    BY <1>6 DEF UnprotectedWrite
  <2> QED BY <2>1, SearchHeld
<1>7. CASE s.CommandState = "CHECK_HEADER"
  <2>1. t = CheckHeader(s, out)
    BY <1>7 DEF UnprotectedWrite
  <2> QED BY <2>1, LaterGoes DEF CheckHeader
<1>8. CASE s.CommandState = "TRANSFER_START"
  <2>1. t = StartWrite(s, SectorBytes)
    BY <1>8 DEF UnprotectedWrite
  <2> QED BY <2>1, StartWriteHeld
<1>9. CASE s.CommandState = "TRANSFER_LOOP"
  <2>1. t = TransferWrite(s, Later(s, "CRC"))
    BY <1>9 DEF UnprotectedWrite
  <2> QED BY <2>1, LaterGoes, TransferWriteHeld
<1>10. CASE s.CommandState = "CRC"
  <2>1. t = Immediately(s, "MULTI") \/ t = Immediately(s, "RNF")
    BY <1>10 DEF UnprotectedWrite
  <2> QED BY <2>1, LaterGoes
<1>11. CASE s.CommandState = "MULTI"
  <2>1. t = NextSector(s)
    BY <1>11 DEF UnprotectedWrite
  <2> QED BY <2>1, NextSectorHeld
<1>12. CASE s.CommandState \in {"RNF", "COMPLETE"}
  <2>1. t = Ended(s)
    BY <1>12 DEF UnprotectedWrite
  <2> QED BY <2>1, EndedHeld
<1>13. s.CommandState \in Starting => \/ s.CommandState \in {"START", "MOTOR_ON"}
                                     \/ SpinningUp(s) \/ HeadLoading(s) \/ HeadLoaded(s)
  BY StartingCases
<1> QED BY <1>1, <1>2, <1>3, <1>4, <1>5, <1>6, <1>7, <1>8, <1>9, <1>10, <1>11, <1>12, <1>13

LEMMA WriteSectorsHeld ==
  ASSUME NEW s, Held(s), Proper(s), s.Command = "WRITESECTORS", NEW p, NEW out
  PROVE  Held(FDC_UpdateWriteSectorsCmd(s, p, out))
  BY CompleteHeld, UnprotectedHeld DEF FDC_UpdateWriteSectorsCmd

LEMMA ReadAddressHeld ==
  ASSUME NEW s, Held(s), Proper(s), s.Command = "READADDRESS", NEW p, NEW old
  PROVE  Held(FDC_UpdateReadAddressCmd(s, p, old))
<1> DEFINE t == FDC_UpdateReadAddressCmd(s, p, old)
<1> USE DEF SpinningUp, HeadLoading, HeadLoaded, NoSpinUpLeft, Goes
<1>1. s.CommandState \in Starting \cup
                         {"NEXT_HEADER", "TRANSFER_START", "TRANSFER_LOOP", "RNF", "COMPLETE"}
  BY StateSets DEF Proper, TypeII
<1>2. CASE s.CommandState = "START"
  <2>1. t = StartMotor(s, "HEAD_LOAD", p)
    BY <1>2 DEF FDC_UpdateReadAddressCmd
  <2> QED BY <2>1, StartMotorGoes
<1>3. CASE SpinningUp(s)
  <2>1. t = Later(s, "SPIN_UP")
    BY <1>3 DEF FDC_UpdateReadAddressCmd
  <2> QED BY <2>1, LaterGoes
<1>4. CASE HeadLoading(s)
  <2>1. t = Later(NotReplaceable(s), "MOTOR_ON")
    BY <1>4 DEF FDC_UpdateReadAddressCmd
  <2> QED BY <2>1, PreparedHeld
<1>5. CASE HeadLoaded(s) \/ s.CommandState = "MOTOR_ON"
  <2>1. t = Immediately(ResetSearch(s), "NEXT_HEADER")
    BY <1>5 DEF FDC_UpdateReadAddressCmd
  <2> QED BY <2>1, ResetSearchSteady, ThenGoes
<1>6. CASE s.CommandState = "NEXT_HEADER"
  <2>1. \/ t = Immediately(s, "RNF") \/ t = Later(s, "NEXT_HEADER")
        \/ HeaderComes(s) /\ t = FDC_NextSectorID(s, "TRANSFER_START")
    BY <1>6 DEF FDC_UpdateReadAddressCmd
  <2> QED BY <2>1, LaterGoes, NextSectorGoes
<1>7. CASE s.CommandState = "TRANSFER_START"
  <2>1. t = ReadAddress(s, old)
    BY <1>7 DEF FDC_UpdateReadAddressCmd
  <2> QED BY <2>1, ReadAddressGoes
<1>8. CASE s.CommandState = "TRANSFER_LOOP"
  <2>1. t = TransferRead(s, "COMPLETE")
    BY <1>8 DEF FDC_UpdateReadAddressCmd
  <2> QED BY <2>1, TransferReadHeld
<1>9. CASE s.CommandState \in {"RNF", "COMPLETE"}
  <2>1. t = Ended(s)
    BY <1>9 DEF FDC_UpdateReadAddressCmd
  <2> QED BY <2>1, EndedHeld
<1>10. s.CommandState \in Starting => \/ s.CommandState \in {"START", "MOTOR_ON"}
                                     \/ SpinningUp(s) \/ HeadLoading(s) \/ HeadLoaded(s)
  BY StartingCases
<1> QED BY <1>1, <1>2, <1>3, <1>4, <1>5, <1>6, <1>7, <1>8, <1>9, <1>10

LEMMA ReadTrackHeld ==
  ASSUME NEW s, Held(s), Proper(s), s.Command = "READTRACK", NEW p
  PROVE  Held(FDC_UpdateReadTrackCmd(s, p))
<1> DEFINE t == FDC_UpdateReadTrackCmd(s, p)
<1> USE DEF SpinningUp, HeadLoading, HeadLoaded, NoSpinUpLeft, Goes
<1>1. s.CommandState \in Starting \cup
                         {"INDEX", "TRANSFER_LOOP", "COMPLETE"}
  BY StateSets DEF Proper, TypeII
<1>2. CASE s.CommandState = "START"
  <2>1. t = StartMotor(s, "HEAD_LOAD", p)
    BY <1>2 DEF FDC_UpdateReadTrackCmd
  <2> QED BY <2>1, StartMotorGoes
<1>3. CASE SpinningUp(s)
  <2>1. t = Later(s, "SPIN_UP")
    BY <1>3 DEF FDC_UpdateReadTrackCmd
  <2> QED BY <2>1, LaterGoes
<1>4. CASE HeadLoading(s)
  <2>1. t = Later(NotReplaceable(s), "MOTOR_ON")
    BY <1>4 DEF FDC_UpdateReadTrackCmd
  <2> QED BY <2>1, PreparedHeld
<1>5. CASE HeadLoaded(s)
  <2>1. t = AwaitIndex(NotReplaceable(s))
    BY <1>5 DEF FDC_UpdateReadTrackCmd
  <2> QED BY <2>1, AwaitHeld
<1>6. CASE s.CommandState = "MOTOR_ON"
  <2>1. t = AwaitIndex(s)
    BY <1>6 DEF FDC_UpdateReadTrackCmd
  <2> QED BY <2>1, AwaitHeld
<1>7. CASE s.CommandState = "INDEX"
  <2>1. t = Later([s EXCEPT !.Buffer = TrackBytes], "TRANSFER_LOOP")
    BY <1>7 DEF FDC_UpdateReadTrackCmd
  <2> QED BY <2>1, PreparedHeld
<1>8. CASE s.CommandState = "TRANSFER_LOOP"
  <2>1. t = TransferRead(s, "COMPLETE")
    BY <1>8 DEF FDC_UpdateReadTrackCmd
  <2> QED BY <2>1, TransferReadHeld
<1>9. CASE s.CommandState = "COMPLETE"
  <2>1. t = Ended(s)
    BY <1>9 DEF FDC_UpdateReadTrackCmd
  <2> QED BY <2>1, EndedHeld
<1>10. s.CommandState \in Starting => \/ s.CommandState \in {"START", "MOTOR_ON"}
                                     \/ SpinningUp(s) \/ HeadLoading(s) \/ HeadLoaded(s)
  BY StartingCases
<1> QED BY <1>1, <1>2, <1>3, <1>4, <1>5, <1>6, <1>7, <1>8, <1>9, <1>10

LEMMA WriteTrackHeld ==
  ASSUME NEW s, Held(s), Proper(s), s.Command = "WRITETRACK", NEW p, NEW out
  PROVE  Held(FDC_UpdateWriteTrackCmd(s, p, out))
<1> DEFINE t == FDC_UpdateWriteTrackCmd(s, p, out)
<1> USE DEF SpinningUp, HeadLoading, HeadLoaded, NoSpinUpLeft, Goes
<1>1. s.CommandState \in Starting \cup
                         {"INDEX", "TRANSFER_LOOP", "COMPLETE"}
  BY StateSets DEF Proper, TypeII
<1>2. CASE s.CommandState = "START"
  <2>1. t = StartMotor(s, "HEAD_LOAD", p)
    BY <1>2 DEF FDC_UpdateWriteTrackCmd
  <2> QED BY <2>1, StartMotorGoes
<1>3. CASE SpinningUp(s)
  <2>1. t = Later(s, "SPIN_UP")
    BY <1>3 DEF FDC_UpdateWriteTrackCmd
  <2> QED BY <2>1, LaterGoes
<1>4. CASE HeadLoading(s)
  <2>1. t = Later(NotReplaceable(s), "MOTOR_ON")
    BY <1>4 DEF FDC_UpdateWriteTrackCmd
  <2> QED BY <2>1, PreparedHeld
<1>5. CASE HeadLoaded(s)
  <2>1. t = AwaitIndex(NotReplaceable(s))
    BY <1>5 DEF FDC_UpdateWriteTrackCmd
  <2> QED BY <2>1, AwaitHeld
<1>6. CASE s.CommandState = "MOTOR_ON"
  <2>1. t = AwaitIndex(s)
    BY <1>6 DEF FDC_UpdateWriteTrackCmd
  <2> QED BY <2>1, AwaitHeld
<1>7. CASE s.CommandState = "INDEX"
  <2>1. t = FDC_CmdCompleteCommon(s, TRUE) \/ t = StartWrite(s, TrackBytes)
    BY <1>7 DEF FDC_UpdateWriteTrackCmd
  <2> QED BY <2>1, CompleteHeld, StartWriteHeld
<1>8. CASE s.CommandState = "TRANSFER_LOOP"
  <2>1. t = TransferWrite(s, Immediately(s, "COMPLETE"))
    BY <1>8 DEF FDC_UpdateWriteTrackCmd
  <2> QED BY <2>1, LaterGoes, TransferWriteHeld
<1>9. CASE s.CommandState = "COMPLETE"
  <2>1. t = Ended(s)
    BY <1>9 DEF FDC_UpdateWriteTrackCmd
  <2> QED BY <2>1, EndedHeld
<1>10. s.CommandState \in Starting => \/ s.CommandState \in {"START", "MOTOR_ON"}
                                     \/ SpinningUp(s) \/ HeadLoading(s) \/ HeadLoaded(s)
  BY StartingCases
<1> QED BY <1>1, <1>2, <1>3, <1>4, <1>5, <1>6, <1>7, <1>8, <1>9, <1>10


(* The motor is turned off when no command uses it any more. *)
LEMMA MotorStopHeld ==
  ASSUME NEW s, Held(s), s.Command = "MOTOR_STOP" PROVE Held(FDC_UpdateMotorStop(s))
<1> DEFINE t == IF s.CommandState = "STOP" THEN [s EXCEPT !.IndexPulse_Counter = 0] ELSE s
           off == [t EXCEPT !.IndexPulse_Counter = 0, !.STR = @ \ {"MOTOR_ON"},
                            !.Command = "NULL", !.CommandState = "NULL"]
<1>1. Steady(s, t)
  BY DataSteady, SteadySelf
<1> HIDE DEF t
<1>2. /\ HeldFields \subseteq DOMAIN off
      /\ off.Command = "NULL" /\ off.timer = t.timer /\ off.DriveSel = t.DriveSel
      /\ off.SectorCount = t.SectorCount /\ off.BytesInSector = t.BytesInSector
      /\ off.room = t.room /\ off.STR = t.STR \ {"MOTOR_ON"} /\ off.drives = t.drives
  BY <1>1 DEF Steady, Held, HeldFields
<1> HIDE DEF off
<1>3. Timed(off) = Timed(t)
  BY <1>2 DEF Timed, Selected
<1>4. Held(off)
  BY <1>1, <1>2, <1>3 DEF Steady, Held, Dma, Driven
<1>5. Selected(t) => Held(ForgetPosition(off, t.DriveSel))
  BY <1>1, <1>4, SelectedDrive, PositionSteady, SteadyHeld
<1>6. Held(Later(t, "STOP_WAIT"))
  BY <1>1, ThenGoes DEF Goes
<1> QED BY <1>4, <1>5, <1>6 DEF FDC_UpdateMotorStop, t, off

LEMMA CommandHeld ==
  ASSUME NEW s, Held(s), Proper(s), NEW p, NEW out, NEW old
  PROVE  Held(UpdateCommand(s, p, out, old))
<1>1. CASE s.Command = "NULL"
  BY <1>1 DEF UpdateCommand
<1>2. CASE s.Command \in {"RESTORE", "SEEK", "STEP", "MOTOR_STOP"}
  BY <1>2, RestoreHeld, SeekHeld, StepHeld, MotorStopHeld DEF UpdateCommand
<1>3. CASE s.Command \in TypeII
  BY <1>3, ReadSectorsHeld, WriteSectorsHeld DEF UpdateCommand, TypeII
<1>4. CASE s.Command \in TypeIII
  BY <1>4, ReadAddressHeld, ReadTrackHeld, WriteTrackHeld DEF UpdateCommand, TypeIII
<1> QED BY <1>1, <1>2, <1>3, <1>4 DEF Proper, CommandNames

(* A pass of the loop of the handler, which starts with a stopped timer. *)
LEMMA PassHeld ==
  ASSUME NEW s, Good(s), Held(s), NEW p, NEW out, NEW old
  PROVE  Held(UpdatePass(s, p, out, old))
<1> DEFINE v == [s EXCEPT !.timer = OFF]
           w == FDC_IndexPulse_Update(v, p)
<1>1. Same(s, v)
  BY DEF Good, Same, Moved, Shape, Fields
<1>2. Held(v)
  <2>1. /\ HeldFields \subseteq DOMAIN v
        /\ v.Command = s.Command /\ v.timer = OFF /\ v.DriveSel = s.DriveSel
        /\ v.SectorCount = s.SectorCount /\ v.BytesInSector = s.BytesInSector
        /\ v.room = s.room /\ v.STR = s.STR /\ v.drives = s.drives
    BY DEF Held, HeldFields
  <2> HIDE DEF v
  <2> QED BY <2>1 DEF Held, Dma, Driven, OFF
<1> HIDE DEF v
<1>3. Kept(v, w) /\ Held(w)
  BY <1>1, <1>2, AccessKeeps, AccessSteady, SteadyHeld, SameShape
<1>4. Proper(w)
  BY <1>1, <1>3 DEF Good, Kept, Same, Moved, Proper
<1> HIDE DEF w
<1> QED BY <1>3, <1>4, CommandHeld DEF UpdatePass, v, w

-----------------------------------------------------------------------------
(* The command register and the resets. *)

LEMMA StartCommandHeld ==
  ASSUME NEW s, Held(s), NEW cr \in CommandRegister, FDC_GetCmdType(cr) # 4
  PROVE  Held(StartCommand(s, cr))
<1> DEFINE c == IF cr.cmd \in {"STEPIN", "STEPOUT"} THEN "STEP" ELSE cr.cmd
           dir == CASE cr.cmd = "STEPIN" -> 1 [] cr.cmd = "STEPOUT" -> -1 [] OTHER -> s.StepDirection
           t == [s EXCEPT !.Command = c, !.CommandState = "START",
                          !.STR = (@ \ {"RNF"}) \cup {"BUSY"}, !.StepDirection = dir]
<1>1. c \notin {"NULL", "MOTOR_STOP"}
  BY DEF CommandRegister, FDC_GetCmdType, TypeI, TypeII, TypeIII
<1>2. t = StartCommand(s, cr)
  BY DEF StartCommand
<1> HIDE DEF c, dir
<1>3. /\ HeldFields \subseteq DOMAIN t
      /\ t.Command = c /\ t.timer = s.timer /\ t.DriveSel = s.DriveSel
      /\ t.SectorCount = s.SectorCount /\ t.BytesInSector = s.BytesInSector
      /\ t.room = s.room /\ t.STR = (s.STR \ {"RNF"}) \cup {"BUSY"} /\ t.drives = s.drives
  BY DEF Held, HeldFields
<1> HIDE DEF t
<1>4. Timed(t) = Timed(s)
  BY <1>3 DEF Timed, Selected
<1>5. Dma(t) /\ Driven(t)
  BY <1>1, <1>3, <1>4 DEF Held, Dma, Driven
<1> QED BY <1>2, <1>3, <1>5 DEF Held

LEMMA RequestsBare ==
  ASSUME NEW s, Bare(s), Dma(s)
  PROVE  /\ Bare(FDC_SetIRQ(s, "FORCED")) /\ Dma(FDC_SetIRQ(s, "FORCED"))
         /\ Bare(FDC_ClearIRQ(s)) /\ Dma(FDC_ClearIRQ(s))
<1>1. Bare(FDC_SetIRQ(s, "FORCED")) /\ Dma(FDC_SetIRQ(s, "FORCED"))
  BY DEF Bare, Dma, HeldFields, FDC_SetIRQ
<1>2. Bare(FDC_ClearIRQ(s)) /\ Dma(FDC_ClearIRQ(s))
  BY DEF Bare, Dma, HeldFields, FDC_ClearIRQ
<1> QED BY <1>1, <1>2

LEMMA ForceInterruptHeld ==
  ASSUME NEW s, Held(s), NEW cr
  PROVE  LET t == FDC_TypeIV_ForceInterrupt(s, cr) IN Held(t) /\ t.Command # "NULL"
<1> DEFINE idle == IF "BUSY" \in s.STR THEN s ELSE [s EXCEPT !.STR = @ \cup {"MOTOR_ON"}]
           t == [idle EXCEPT !.Cond = cr.cond]
           u == IF "IMMEDIATE" \in cr.cond THEN FDC_SetIRQ(t, "FORCED") ELSE FDC_ClearIRQ(t)
<1>1. Bare(idle) /\ Dma(idle)
  BY DEF Held, Driven, Bare, Dma, HeldFields
<1> HIDE DEF idle
<1>2. Bare(t) /\ Dma(t)
  BY <1>1 DEF Bare, Dma, HeldFields
<1> HIDE DEF t
<1>3. Bare(u) /\ Dma(u)
  BY <1>2, RequestsBare
<1> HIDE DEF u
<1>4. LET v == FDC_CmdCompleteCommon(u, FALSE) IN Held(v) /\ v.Command = "MOTOR_STOP"
  BY <1>3, StoppedHeld DEF FDC_CmdCompleteCommon
<1> QED BY <1>4 DEF FDC_TypeIV_ForceInterrupt, idle, t, u

(* Outside of the handler a command has a running timer. *)
Alive(s) == s.Command # "NULL" => s.timer # OFF

LEMMA SteadyAlive == ASSUME NEW s, NEW t, Steady(s, t), Alive(s) PROVE Held(t) /\ Alive(t)
  BY DEF Steady, Alive

LEMMA ExecuteHeld ==
  ASSUME NEW s, Held(s), NEW cr \in CommandRegister
  PROVE  LET t == FDC_ExecuteCommand(s, cr) IN Held(t) /\ Alive(t)
<1> DEFINE type == FDC_GetCmdType(cr)
           cleared == IF type = 4 THEN StopForced(s) ELSE FDC_ClearIRQ(StopForced(s))
           t == [cleared EXCEPT !.Cond = {}, !.CR = cr, !.CommandType = type]
           run == IF type = 4 THEN FDC_TypeIV_ForceInterrupt(t, cr) ELSE StartCommand(t, cr)
           u == [run EXCEPT !.Replace = TRUE, !.timer = SOON]
<1>1. u = FDC_ExecuteCommand(s, cr)
  BY DEF FDC_ExecuteCommand
<1>2. Held(cleared)
  BY DataSteady, RequestsSteady, SteadyHeld
<1> HIDE DEF cleared
<1>3. Held(t)
  <2> HIDE DEF type
  <2>1. Alike(cleared, t)
    BY <1>2 DEF Alike, Held, HeldFields
  <2> QED BY <1>2, <2>1, AlikeSteady, SteadyHeld
<1> HIDE DEF t
<1>4. Held(run)
  BY <1>3, StartCommandHeld, ForceInterruptHeld
<1> HIDE DEF run
<1>5. /\ HeldFields \subseteq DOMAIN u
      /\ u.Command = run.Command /\ u.timer = SOON /\ u.DriveSel = run.DriveSel
      /\ u.SectorCount = run.SectorCount /\ u.BytesInSector = run.BytesInSector
      /\ u.room = run.room /\ u.STR = run.STR /\ u.drives = run.drives
  BY <1>4 DEF Held, HeldFields
<1> HIDE DEF u
<1>6. Held(u) /\ Alive(u)
  BY <1>4, <1>5 DEF Held, Dma, Driven, Alive, SOON, OFF
<1> QED BY <1>1, <1>6

LEMMA CommandRegisterHeld ==
  ASSUME NEW s, Held(s), Alive(s), NEW cr \in CommandRegister
  PROVE  LET t == FDC_WriteCommandRegister(s, cr) IN Held(t) /\ Alive(t)
  BY ExecuteHeld DEF FDC_WriteCommandRegister

(* A reset of the controller needs nothing of the state before. *)
LEMMA ResetHeld ==
  ASSUME NEW s, Bare(s), NEW cold
  PROVE  LET t == FDC_Reset(MFP_Reset(s), cold) IN Held(t) /\ Alive(t)
<1> DEFINE m == [s EXCEPT !.line = "LOW"]
           timed == [d \in Drives |-> [m.drives[d] EXCEPT !.timed = FALSE]]
           x == IF m.timer > 0 THEN SOON ELSE m.timer
           r == [m EXCEPT
                  !.STR = {}, !.SR = 1, !.TR = IF cold THEN 0 ELSE @, !.DR = IF cold THEN 0 ELSE @,
                  !.CR = [cmd |-> "RESTORE", spin |-> TRUE, delay |-> FALSE, multi |-> FALSE,
                          cond |-> {}],
                  !.StepDirection = 1, !.Command = "NULL", !.CommandState = "NULL",
                  !.CommandType = 0, !.Cond = {}, !.IRQ = {}, !.IndexPulse_Counter = 0,
                  !.drives = timed,
                  !.pos = 0, !.pulse = FALSE, !.timer = x,
                  !.writeMode = FALSE, !.Buffer = 0]
           t == [r EXCEPT !.FIFO_Size = 0, !.BytesInSector = SectorBytes, !.SectorCount = 0,
                          !.BytesToTransfer = 0, !.room = 0]
<1>1. t = FDC_Reset(MFP_Reset(s), cold)
  BY DEF FDC_Reset, MFP_Reset, FDC_ResetDMA
<1>2. Bare(m)
  BY DEF Bare, HeldFields
<1> HIDE DEF m
<1>3. DOMAIN timed = Drives /\ \A d \in Drives : "timed" \in DOMAIN timed[d]
  BY <1>2 DEF Bare
<1>4. ~(x > 0)
  BY DEF SOON
<1> HIDE DEF timed, x
<1>5. /\ HeldFields \subseteq DOMAIN r
      /\ r.Command = "NULL" /\ r.timer = x /\ r.DriveSel = m.DriveSel
      /\ r.STR = {} /\ r.drives = timed
  BY <1>2 DEF Bare, HeldFields
<1> HIDE DEF r
<1>6. /\ HeldFields \subseteq DOMAIN t
      /\ t.Command = "NULL" /\ t.timer = x /\ t.DriveSel = m.DriveSel
      /\ t.SectorCount = 0 /\ t.BytesInSector = SectorBytes
      /\ t.room = 0 /\ t.STR = {} /\ t.drives = timed
  BY <1>5 DEF HeldFields
<1> HIDE DEF t
<1>7. Dma(t) /\ Driven(t) /\ Alive(t)
  BY <1>2, <1>3, <1>4, <1>6, EmptyFits DEF Bare, Dma, Driven, Alive
<1> QED BY <1>1, <1>6, <1>7 DEF Held

(* The scheduler forgets the timer in a reset of the machine. *)
LEMMA ResetSTHeld ==
  ASSUME NEW s, Held(s), NEW cold
  PROVE  LET m == MFP_Reset(CycInt_Reset(s)) IN Held(IF cold THEN FDC_Reset(m, TRUE) ELSE m)
<1> DEFINE c == [s EXCEPT !.timer = OFF]
<1>1. Held(c)
  <2>1. /\ HeldFields \subseteq DOMAIN c
        /\ c.Command = s.Command /\ c.timer = OFF /\ c.DriveSel = s.DriveSel
        /\ c.SectorCount = s.SectorCount /\ c.BytesInSector = s.BytesInSector
        /\ c.room = s.room /\ c.STR = s.STR /\ c.drives = s.drives
    BY DEF Held, HeldFields
  <2> HIDE DEF c
  <2> QED BY <2>1 DEF Held, Dma, Driven, OFF
<1>2. c = CycInt_Reset(s)
  BY DEF CycInt_Reset
<1> HIDE DEF c
<1>3. Bare(c)
  BY <1>1 DEF Held, Driven, Bare
<1>4. Held(MFP_Reset(c)) /\ Held(FDC_Reset(MFP_Reset(c), TRUE))
  BY <1>1, <1>3, DataSteady, SteadyHeld, ResetHeld
<1> QED BY <1>2, <1>4

-----------------------------------------------------------------------------
(* The invariant. *)

(* Only the handler, or a reset that RESET has not followed yet, leaves a  *)
(* command without a timer.                                                *)
StateInv ==
  /\ IInv /\ Held(fdc)
  /\ phase = "cpu" => Alive(fdc)
  /\ phase \in {"cpu", "handler", "rom"}

LEMMA InitState == Init => StateInv
<1> SUFFICES ASSUME Init PROVE StateInv
  OBVIOUS
<1>1. PICK ins, prot \in [Drives -> BOOLEAN] :
        fdc = FDC_Reset(MFP_Reset(
            [Blank EXCEPT !.drives = [d \in Drives |-> [Blank.drives[d] EXCEPT
                             !.inserted = ins[d], !.protected = prot[d]]]]), TRUE)
  BY DEF Init
<1> DEFINE disks == [d \in Drives |-> [Blank.drives[d] EXCEPT
                             !.inserted = ins[d], !.protected = prot[d]]]
           b == [Blank EXCEPT !.drives = disks]
<1>2. DOMAIN disks = Drives /\ \A d \in Drives : "timed" \in DOMAIN disks[d]
  BY DEF Blank
<1>3. fdc = FDC_Reset(MFP_Reset(b), TRUE)
  BY <1>1
<1> HIDE DEF disks
<1>4. Bare(b)
  BY <1>2 DEF Bare, HeldFields, Blank
<1> HIDE DEF b
<1> QED BY <1>3, <1>4, ResetHeld, InitInv DEF StateInv, Init

LEMMA RegistersState ==
  ASSUME StateInv, Registers PROVE Held(fdc') /\ phase' = "cpu" /\ Alive(fdc')
<1>1. ASSUME phase = "cpu" PROVE \A p : Held(Access(p)) /\ Alive(Access(p))
  BY <1>1, AccessSteady, SteadyAlive DEF StateInv, Access
<1>2. ASSUME NEW p, NEW cr \in Commands, WriteCommand(cr, p)
      PROVE  Held(fdc') /\ phase' = "cpu" /\ Alive(fdc')
  <2>1. cr \in CommandRegister
    BY ProgramAssumption
  <2> QED BY <1>1, <1>2, <2>1, CommandRegisterHeld DEF WriteCommand, Program
<1>3. ASSUME NEW p, NEW v, WriteTrack(v, p) \/ WriteSector(v, p) \/ WriteData(v, p)
      PROVE  Held(fdc') /\ phase' = "cpu" /\ Alive(fdc')
  <2>1. phase = "cpu" /\ phase' = "cpu"
    BY <1>3 DEF WriteTrack, WriteSector, WriteData, Program
  <2> DEFINE a == Access(p)
  <2>2. Held(a) /\ Alive(a)
    BY <1>1, <2>1
  <2>3. \/ fdc' = FDC_WriteTrackRegister(a, v) \/ fdc' = FDC_WriteSectorRegister(a, v)
        \/ fdc' = FDC_WriteDataRegister(a, v)
    BY <1>3 DEF WriteTrack, WriteSector, WriteData
  <2> HIDE DEF a
  <2>4. Steady(a, fdc')
    <3>1. /\ Steady(a, FDC_WriteTrackRegister(a, v)) /\ Steady(a, FDC_WriteSectorRegister(a, v))
          /\ Steady(a, FDC_WriteDataRegister(a, v))
      BY <2>2, DataSteady
    <3> QED BY <2>3, <3>1
  <2> QED BY <2>1, <2>2, <2>4, SteadyAlive
<1>4. ASSUME NEW p, ReadStatusRegister(p) PROVE Held(fdc') /\ phase' = "cpu" /\ Alive(fdc')
  <2>1. phase = "cpu" /\ phase' = "cpu" /\ fdc' = FDC_ClearIRQ(StopForced(Access(p)))
    BY <1>4 DEF ReadStatusRegister, ReadStatus
  <2>2. Steady(Access(p), StopForced(Access(p)))
    BY <1>1, <2>1, DataSteady
  <2> QED BY <1>1, <2>1, <2>2, RequestsSteady, SteadyAlive
<1>5. ASSUME NEW p, NEW d \in Drives \cup {NoDrive}, SelectDrive(d, p)
      PROVE  Held(fdc') /\ phase' = "cpu" /\ Alive(fdc')
  <2>1. phase = "cpu" /\ phase' = "cpu" /\ fdc' = FDC_SetDriveSide(fdc, d, p)
    BY <1>5 DEF SelectDrive, Program
  <2> QED BY <2>1, SetDriveSideSteady, SteadyAlive DEF StateInv
<1> QED BY <1>2, <1>3, <1>4, <1>5 DEF Registers

LEMMA OthersState ==
  ASSUME StateInv, DMA \/ HardDisk \/ User \/ ResetInstruction \/ Rotate
  PROVE  Held(fdc') /\ phase' \in {"cpu", "rom"} /\ (phase' = "cpu" => Alive(fdc'))
<1>1. Held(fdc)
  BY DEF StateInv
<1>2. ASSUME phase = "cpu", phase' = "cpu", Steady(fdc, fdc')
      PROVE  Held(fdc') /\ phase' \in {"cpu", "rom"} /\ (phase' = "cpu" => Alive(fdc'))
  BY <1>2, SteadyAlive DEF StateInv
<1>3. ASSUME DMA \/ Rotate PROVE phase = "cpu" /\ phase' = "cpu" /\ Steady(fdc, fdc')
  <2>1. Counts \subseteq Nat
    BY ProgramAssumption
  <2> QED BY <1>1, <1>3, <2>1, CountSteady, ModeSteady, DataSteady
          DEF DMA, WriteCount, WriteMode, Rotate, Program
<1>4. ASSUME HardDisk PROVE phase = "cpu" /\ phase' = "cpu" /\ Steady(fdc, fdc')
  <2>1. Steady(fdc, FDC_ClearHdcIRQ(fdc))
    BY <1>1, RequestsSteady
  <2>2. Steady(fdc, FDC_SetIRQ(FDC_ClearHdcIRQ(fdc), "HDC"))
    BY <2>1, RequestsSteady, SteadyHeld, SteadyTwice
  <2> QED BY <1>4, <2>1, <2>2 DEF HardDisk, HardDiskCommand, HardDiskReady, Program
<1>5. ASSUME NEW d \in Drives, NEW prot, NEW p, InsertFloppy(d, prot, p) \/ EjectFloppy(d)
      PROVE  phase = "cpu" /\ phase' = "cpu" /\ Steady(fdc, fdc')
  BY <1>1, <1>5, DisksSteady DEF InsertFloppy, EjectFloppy, Program
<1>6. ASSUME NEW cold, Reset_ST(cold) PROVE Held(fdc') /\ phase' = "rom"
  BY <1>1, <1>6, ResetSTHeld DEF Reset_ST
<1>7. ASSUME ResetInstruction PROVE Held(fdc') /\ phase' = "cpu" /\ Alive(fdc')
  <2>1. Bare(fdc)
    BY <1>1 DEF Held, Driven, Bare
  <2> QED BY <1>7, <2>1, ResetHeld DEF ResetInstruction
<1> QED BY <1>2, <1>3, <1>4, <1>5, <1>6, <1>7 DEF User

LEMMA HandlerState ==
  ASSUME StateInv, Handler
  PROVE  Held(fdc') /\ phase' \in {"cpu", "handler"} /\ (phase' = "cpu" => Alive(fdc'))
<1>1. PICK p, out, old : InterruptHandler_Update(p, out, old)
  BY DEF Handler
<1>2. Held(fdc')
  BY <1>1, PassHeld DEF StateInv, IInv, Good, InterruptHandler_Update
<1> QED BY <1>1, <1>2 DEF InterruptHandler_Update, Alive

LEMMA StateStep == StateInv /\ [Next]_vars => StateInv'
<1> SUFFICES ASSUME StateInv, [Next]_vars PROVE StateInv'
  OBVIOUS
<1>1. IInv'
  BY StepResult DEF StateInv, Result
<1>2. CASE Next
  BY <1>1, <1>2, RegistersState, OthersState, HandlerState DEF Next, StateInv
<1>3. CASE UNCHANGED vars
  BY <1>1, <1>3 DEF vars, StateInv
<1> QED BY <1>2, <1>3

LEMMA StateInvariant == Spec => []StateInv
  BY InitState, StateStep, PTL DEF Spec

(* FDC_DMA_FIFO_Push stores nothing beyond the sectors that the program    *)
(* wrote to the DMA sector count (FDC_WriteSectorCountRegister), in        *)
(* whatever order reads, writes, changes of the direction and of the count *)
(* follow, for every size of the sectors and of the FIFO that divides it.  *)
THEOREM DmaAlwaysStops == Spec => []DmaStopsAtCount
<1>1. StateInv => DmaStopsAtCount
  BY DEF StateInv, Held, Dma, DmaFits, DmaStopsAtCount
<1> QED BY <1>1, StateInvariant, PTL

(* A busy controller, and one with its motor on, is driven by a command    *)
(* with a running timer, and waits for a header only where the position of *)
(* the disk is known: FDC_Reset, forced interrupts, changes of the drive   *)
(* and of its disk never leave BUSY or the motor on behind.                *)
THEOREM NothingIsForgotten == Spec => []NothingForgotten
<1>1. StateInv => NothingForgotten
  BY DEF StateInv, Held, Driven, Alive, NothingForgotten
<1> QED BY <1>1, StateInvariant, PTL

-----------------------------------------------------------------------------
(* A search that nobody disturbs finds its sector.  The fields it depends  *)
(* on:                                                                     *)
SearchFields == {"TR", "SR", "NextTR", "NextSR", "timer", "pos", "pulse", "IndexPulse_Counter",
                 "DriveSel", "drives", "STR", "Command", "CommandState", "Replace"}

Located(s) ==
  /\ SearchFields \subseteq DOMAIN s
  /\ s.pos \in Pos /\ s.pulse \in BOOLEAN /\ s.IndexPulse_Counter \in Nat

(* A command of type II that is past its first state has the motor on.     *)
MotorRuns(s) == s.CommandState = "START" \/ "MOTOR_ON" \in s.STR
Spinning(s) == s.Command \in TypeII => MotorRuns(s)

(* A step of a command goes on with it, and leaves the motor on, or ends   *)
(* it.                                                                     *)
Carries(s, t) ==
  /\ Located(t)
  /\ t.Command \in TypeII =>
       t.Command = s.Command /\ ("MOTOR_ON" \in s.STR => "MOTOR_ON" \in t.STR)

(* A step that the search does not see. *)
Unseen(s, t) ==
  /\ SearchFields \subseteq DOMAIN t
  /\ t.TR = s.TR /\ t.SR = s.SR /\ t.NextTR = s.NextTR /\ t.NextSR = s.NextSR
  /\ t.timer = s.timer /\ t.pos = s.pos /\ t.pulse = s.pulse
  /\ t.IndexPulse_Counter = s.IndexPulse_Counter
  /\ t.DriveSel = s.DriveSel /\ t.drives = s.drives
  /\ t.Command = s.Command /\ t.CommandState = s.CommandState
  /\ "MOTOR_ON" \in t.STR <=> "MOTOR_ON" \in s.STR

LEMMA UnseenCarries == ASSUME NEW s, Located(s), NEW t, Unseen(s, t) PROVE Carries(s, t)
  BY DEF Unseen, Carries, Located

LEMMA CarriesTwice ==
  ASSUME NEW s, NEW t, NEW u, Carries(s, t), Carries(t, u) PROVE Carries(s, u)
  BY DEF Carries

LEMMA CarriesLocated == ASSUME NEW s, NEW t, Carries(s, t) PROVE Located(t)
  BY DEF Carries

LEMMA UnseenTwice ==
  ASSUME NEW s, NEW t, NEW u, Unseen(s, t), Unseen(t, u) PROVE Unseen(s, u)
  BY DEF Unseen

(* Requests, the DMA and the data register. *)
LEMMA DataUnseen ==
  ASSUME NEW s, Located(s)
  PROVE  /\ Unseen(s, s) /\ Unseen(s, NotFound(s)) /\ Unseen(s, NotReplaceable(s))
         /\ Unseen(s, StopForced(s)) /\ Unseen(s, MFP_Reset(s)) /\ Unseen(s, FDC_ResetDMA(s))
         /\ Unseen(s, FDC_ClearIRQ(s)) /\ Unseen(s, FDC_ClearHdcIRQ(s))
         /\ \A v : /\ Unseen(s, FDC_WriteDataRegister(s, v))
                   /\ Unseen(s, FDC_WriteSectorCountRegister(s, v))
                   /\ Unseen(s, FDC_SetIRQ(s, v))
                   /\ Unseen(s, [s EXCEPT !.Buffer = v])
                   /\ Unseen(s, [s EXCEPT !.BytesToTransfer = v])
<1>0. SearchFields \subseteq DOMAIN s
  BY DEF Located
<1>1. /\ Unseen(s, s) /\ Unseen(s, NotFound(s)) /\ Unseen(s, NotReplaceable(s))
      /\ Unseen(s, StopForced(s)) /\ Unseen(s, MFP_Reset(s))
  BY <1>0 DEF Unseen, SearchFields, NotFound, NotReplaceable, StopForced, MFP_Reset
<1>2. Unseen(s, FDC_ResetDMA(s)) /\ Unseen(s, FDC_ClearIRQ(s)) /\ Unseen(s, FDC_ClearHdcIRQ(s))
  BY <1>0 DEF Unseen, SearchFields, FDC_ResetDMA, FDC_ClearIRQ, FDC_ClearHdcIRQ
<1>3. ASSUME NEW v
      PROVE  /\ Unseen(s, FDC_WriteDataRegister(s, v)) /\ Unseen(s, FDC_WriteSectorCountRegister(s, v))
             /\ Unseen(s, FDC_SetIRQ(s, v))
             /\ Unseen(s, [s EXCEPT !.Buffer = v]) /\ Unseen(s, [s EXCEPT !.BytesToTransfer = v])
  BY <1>0 DEF Unseen, SearchFields, FDC_WriteDataRegister, FDC_WriteSectorCountRegister, FDC_SetIRQ
<1> QED BY <1>1, <1>2, <1>3

LEMMA RequestUnseen ==
  ASSUME NEW s, Located(s), NEW source
  PROVE  Unseen(s, FDC_SetIRQ(s, source)) /\ Carries(s, FDC_SetIRQ(s, source))
         /\ FDC_SetIRQ(s, source).STR = s.STR
<1>1. Unseen(s, FDC_SetIRQ(s, source)) /\ FDC_SetIRQ(s, source).STR = s.STR
  BY DEF Unseen, FDC_SetIRQ, Located, SearchFields
<1> QED BY <1>1, UnseenCarries

LEMMA DmaUnseen ==
  ASSUME NEW s, Located(s)
  PROVE  /\ Unseen(s, FDC_DMA_FIFO_Push(s)) /\ Unseen(s, FDC_DMA_FIFO_Pull(s))
         /\ \A v : Unseen(s, FDC_DmaModeControl_WriteWord(s, v))
<1>0. SearchFields \subseteq DOMAIN s
  BY DEF Located
<1>1. Unseen(s, FDC_DMA_FIFO_Push(s))
  BY <1>0 DEF Unseen, SearchFields, FDC_DMA_FIFO_Push, CountRead
<1>2. Unseen(s, FDC_DMA_FIFO_Pull(s))
  BY <1>0 DEF Unseen, SearchFields, FDC_DMA_FIFO_Pull, CountWrite
<1>3. ASSUME NEW v PROVE Unseen(s, FDC_DmaModeControl_WriteWord(s, v))
  <2> DEFINE t == [s EXCEPT !.writeMode = v]
  <2>1. Unseen(s, t)
    BY <1>0 DEF Unseen, SearchFields
  <2> HIDE DEF t
  <2>2. Located(t)
    BY <2>1, UnseenCarries DEF Carries
  <2>3. Unseen(s, FDC_ResetDMA(t))
    BY <2>1, <2>2, DataUnseen, UnseenTwice
  <2> QED BY <2>3, DataUnseen DEF FDC_DmaModeControl_WriteWord, t
<1> QED BY <1>1, <1>2, <1>3

(* The other small steps. *)
LEMMA DataCarries ==
  ASSUME NEW s, Located(s)
  PROVE  /\ Carries(s, s) /\ Carries(s, Turn(s)) /\ Carries(s, CycInt_Reset(s))
         /\ Carries(s, NotFound(s)) /\ Carries(s, NotReplaceable(s)) /\ Carries(s, ResetSearch(s))
         /\ \A v : /\ Carries(s, FDC_WriteTrackRegister(s, v))
                   /\ Carries(s, FDC_WriteSectorRegister(s, v))
                   /\ Carries(s, [s EXCEPT !.IndexPulse_Counter = 0])
                   /\ Carries(s, [s EXCEPT !.StepDirection = v, !.TR = Wrap(@ + v)])
                   /\ Carries(s, MoveHead(s, v))
                   /\ Carries(s, [s EXCEPT !.Buffer = v])
                   /\ Carries(s, [s EXCEPT !.STR = @ \ {"RNF"}])
                   /\ Carries(s, [s EXCEPT !.STR = @ \cup {"MOTOR_ON"}])
<1>0. SearchFields \subseteq DOMAIN s
  BY DEF Located
<1>1. Carries(s, s) /\ Carries(s, NotFound(s)) /\ Carries(s, NotReplaceable(s))
  BY DataUnseen, UnseenCarries
<1>2. Carries(s, Turn(s))
  <2> DEFINE t == Turn(s)
  <2>1. /\ SearchFields \subseteq DOMAIN t /\ t.Command = s.Command /\ t.STR = s.STR
        /\ t.IndexPulse_Counter = s.IndexPulse_Counter
        /\ t.pos = (IF s.pos = Sectors THEN 0 ELSE s.pos + 1)
        /\ t.pulse = (s.pulse \/ s.pos = Sectors)
    BY <1>0 DEF SearchFields, Turn
  <2> HIDE DEF t
  <2>2. t.pos \in Pos
    BY <2>1, DiskAssumption DEF Located, Pos
  <2> QED BY <2>1, <2>2 DEF Carries, Located, t
<1>3. Carries(s, CycInt_Reset(s))
  BY <1>0 DEF Carries, Located, SearchFields, CycInt_Reset
<1>4. Carries(s, ResetSearch(s))
  BY <1>0 DEF Carries, Located, SearchFields, ResetSearch, NotReplaceable
<1>5. ASSUME NEW v
      PROVE  /\ Carries(s, FDC_WriteTrackRegister(s, v)) /\ Carries(s, FDC_WriteSectorRegister(s, v))
             /\ Carries(s, [s EXCEPT !.IndexPulse_Counter = 0])
             /\ Carries(s, [s EXCEPT !.StepDirection = v, !.TR = Wrap(@ + v)])
             /\ Carries(s, MoveHead(s, v)) /\ Carries(s, [s EXCEPT !.Buffer = v])
             /\ Carries(s, [s EXCEPT !.STR = @ \ {"RNF"}])
             /\ Carries(s, [s EXCEPT !.STR = @ \cup {"MOTOR_ON"}])
  BY <1>0 DEF Carries, Located, SearchFields, FDC_WriteTrackRegister, FDC_WriteSectorRegister, MoveHead
<1> QED BY <1>1, <1>2, <1>3, <1>4, <1>5

LEMMA AtCarries ==
  ASSUME NEW s, Located(s), NEW st, NEW delay
  PROVE  /\ Carries(s, At(s, st, delay)) /\ At(s, st, delay).CommandState = st
         /\ Carries(s, Later(s, st)) /\ Later(s, st).CommandState = st
         /\ Carries(s, Immediately(s, st)) /\ Immediately(s, st).CommandState = st
<1>1. ASSUME NEW x PROVE Carries(s, At(s, st, x)) /\ At(s, st, x).CommandState = st
  BY DEF Carries, Located, SearchFields, At
<1> QED BY <1>1 DEF Later, Immediately

LEMMA ThenAt ==
  ASSUME NEW s, NEW t, Carries(s, t), NEW st
  PROVE  /\ Carries(s, Later(t, st)) /\ Later(t, st).CommandState = st
         /\ Carries(s, Immediately(t, st)) /\ Immediately(t, st).CommandState = st
  BY CarriesLocated, AtCarries, CarriesTwice

LEMMA SetPositionCarries ==
  ASSUME NEW s, Located(s), NEW d, NEW known, NEW p \in Pos
  PROVE  Carries(s, SetPosition(s, d, known, p))
<1> DEFINE t == [s EXCEPT !.drives[d].timed = known]
           x == IF t.timer > 0 THEN SOON ELSE t.timer
           u == [t EXCEPT !.pos = p, !.pulse = FALSE, !.timer = x]
<1>1. Carries(s, t) /\ SearchFields \subseteq DOMAIN t
  BY DEF Carries, Located, SearchFields
<1> HIDE DEF t, x
<1>2. Carries(t, u)
  BY <1>1 DEF Carries, Located, SearchFields
<1> HIDE DEF u
<1>3. SetPosition(s, d, known, p) = t \/ SetPosition(s, d, known, p) = u
  BY DEF SetPosition, t, u, x
<1> QED BY <1>1, <1>2, <1>3, CarriesTwice

LEMMA PositionCarries ==
  ASSUME NEW s, Located(s), NEW d, NEW p \in Pos
  PROVE  Carries(s, FDC_IndexPulse_Init(s, d, p)) /\ Carries(s, ForgetPosition(s, d))
<1>1. 0 \in Pos
  BY DiskAssumption DEF Pos
<1> QED BY <1>1, SetPositionCarries DEF FDC_IndexPulse_Init, ForgetPosition

(* The counter of index pulses saturates above the limits. *)
LEMMA MinOfTwo ==
  ASSUME NEW a \in Nat, NEW b \in Nat
  PROVE  Min({a, b}) = IF a <= b THEN a ELSE b
<1> DEFINE m == IF a <= b THEN a ELSE b
<1>1. m \in {a, b} /\ \A y \in {a, b} : m <= y
  OBVIOUS
<1>2. \A x \in {a, b} : (\A y \in {a, b} : x <= y) => x = m
  OBVIOUS
<1> HIDE DEF m
<1>3. Min({a, b}) = m
  BY <1>1, <1>2 DEF Min
<1> QED BY <1>3 DEF m

LEMMA Limits ==
  /\ MaxPulses \in Nat \ {0} /\ AddressIP \in Nat \ {0} /\ AddressIP <= MaxPulses
<1> DEFINE S == {SpinUpIP, MotorOffIP, AddressIP}
<1>1. SpinUpIP \in Nat \ {0} /\ MotorOffIP \in Nat \ {0} /\ AddressIP \in Nat \ {0}
  BY PulseAssumption
<1>2. \E x \in S : \A y \in S : x >= y
  <2>1. CASE SpinUpIP >= MotorOffIP /\ SpinUpIP >= AddressIP
    BY <1>1, <2>1
  <2>2. CASE MotorOffIP >= SpinUpIP /\ MotorOffIP >= AddressIP
    BY <1>1, <2>2
  <2>3. CASE AddressIP >= SpinUpIP /\ AddressIP >= MotorOffIP
    BY <1>1, <2>3
  <2> QED BY <1>1, <2>1, <2>2, <2>3
<1>3. Max(S) = CHOOSE x \in S : \A y \in S : x >= y
  BY DEF Max
<1>4. MaxPulses \in S /\ \A y \in S : MaxPulses >= y
  BY <1>2, <1>3 DEF MaxPulses
<1> QED BY <1>1, <1>4

(* FDC_IndexPulse_Update notices a pulse, or finds the position of a disk  *)
(* that turns.                                                             *)
LEMMA AccessCarries ==
  ASSUME NEW s, Located(s), NEW p \in Pos
  PROVE  LET t == FDC_IndexPulse_Update(s, p)
         IN Carries(s, t) /\ ("MOTOR_ON" \in t.STR <=> "MOTOR_ON" \in s.STR)
              /\ t.Command = s.Command /\ t.CommandState = s.CommandState
<1> DEFINE c == Min({s.IndexPulse_Counter + 1, MaxPulses})
           t == [s EXCEPT !.pulse = FALSE, !.IndexPulse_Counter = c]
           i == FDC_IndexPulse_Init(s, s.DriveSel, p)
<1>1. c \in Nat
  BY Limits, MinOfTwo DEF Located
<1> HIDE DEF c
<1>2. /\ Carries(s, t) /\ t.STR = s.STR /\ t.Command = s.Command
      /\ t.CommandState = s.CommandState
  BY <1>1 DEF Carries, Located, SearchFields
<1> HIDE DEF t
<1>3. Unseen(t, FDC_SetIRQ(t, "INDEX")) /\ Carries(s, FDC_SetIRQ(t, "INDEX"))
  BY <1>2, CarriesLocated, RequestUnseen, CarriesTwice
<1>4. Carries(s, i) /\ i.STR = s.STR /\ i.Command = s.Command /\ i.CommandState = s.CommandState
  <2>1. Carries(s, i)
    BY PositionCarries
  <2>2. i.STR = s.STR /\ i.Command = s.Command /\ i.CommandState = s.CommandState
    BY DEF FDC_IndexPulse_Init, SetPosition, Located, SearchFields
  <2> QED BY <2>1, <2>2
<1> HIDE DEF i
<1>5. Carries(s, s)
  BY DataCarries
<1>6. \/ FDC_IndexPulse_Update(s, p) = s \/ FDC_IndexPulse_Update(s, p) = t
      \/ FDC_IndexPulse_Update(s, p) = i \/ FDC_IndexPulse_Update(s, p) = FDC_SetIRQ(t, "INDEX")
  BY DEF FDC_IndexPulse_Update, t, i, c
<1> QED BY <1>2, <1>3, <1>4, <1>5, <1>6 DEF Unseen

LEMMA CompleteCarries ==
  ASSUME NEW s, Located(s), NEW doInt
  PROVE  LET t == FDC_CmdCompleteCommon(s, doInt) IN Carries(s, t) /\ t.CommandState = "STOP"
<1> DEFINE t == IF doInt THEN FDC_SetIRQ(s, "COMPLETE") ELSE s
           u == [t EXCEPT !.STR = @ \ {"BUSY"}, !.Command = "MOTOR_STOP"]
<1>1. Carries(s, t)
  <2>1. Carries(s, FDC_SetIRQ(s, "COMPLETE")) /\ Carries(s, s)
    BY RequestUnseen, DataCarries
  <2> QED BY <2>1
<1> HIDE DEF t
<1>2. Carries(t, u)
  BY <1>1 DEF Carries, Located, SearchFields, TypeII
<1> HIDE DEF u
<1>3. Carries(s, u)
  BY <1>1, <1>2, CarriesTwice
<1> QED BY <1>3, ThenAt DEF FDC_CmdCompleteCommon, t, u

LEMMA CompleteStops ==
  ASSUME NEW s, Located(s), NEW doInt
  PROVE  FDC_CmdCompleteCommon(s, doInt).Command = "MOTOR_STOP"
<1> DEFINE t == IF doInt THEN FDC_SetIRQ(s, "COMPLETE") ELSE s
           u == [t EXCEPT !.STR = @ \ {"BUSY"}, !.Command = "MOTOR_STOP"]
<1>1. Located(t)
  BY RequestUnseen, CarriesLocated
<1> HIDE DEF t
<1>2. u.Command = "MOTOR_STOP" /\ "Command" \in DOMAIN u
  BY <1>1 DEF Located, SearchFields
<1> HIDE DEF u
<1>3. Immediately(u, "STOP").Command = "MOTOR_STOP"
  BY <1>2 DEF Immediately, At
<1> QED BY <1>3 DEF FDC_CmdCompleteCommon, t, u

LEMMA EndedCarries ==
  ASSUME NEW s, Located(s) PROVE Carries(s, Ended(s)) /\ Ended(s).CommandState = "STOP"
<1>1. Carries(s, NotFound(s)) /\ Located(NotFound(s))
  BY DataCarries, CarriesLocated
<1> QED BY <1>1, CompleteCarries, CarriesTwice DEF Ended

(* The first state turns the motor on. *)
LEMMA StartMotorCarries ==
  ASSUME NEW s, Located(s), NEW next, NEW p \in Pos
  PROVE  LET t == StartMotor(s, next, p) IN
         Carries(s, t) /\ "MOTOR_ON" \in t.STR /\ t.CommandState \in {"SPIN_UP", next}
<1> DEFINE on == [s EXCEPT !.STR = @ \cup {"MOTOR_ON"}]
           i == FDC_IndexPulse_Init(on, s.DriveSel, p)
           m == FDC_Set_MotorON(s, p)
           z == [m EXCEPT !.IndexPulse_Counter = 0]
<1>1. Carries(s, on) /\ Located(on) /\ on.STR = s.STR \cup {"MOTOR_ON"}
  <2>1. Carries(s, on)
    BY DataCarries
  <2>2. on.STR = s.STR \cup {"MOTOR_ON"}
    BY DEF Located, SearchFields
  <2> QED BY <2>1, <2>2, CarriesLocated
<1> HIDE DEF on
<1>2. Carries(s, i) /\ i.STR = on.STR
  <2>1. Carries(s, i)
    BY <1>1, PositionCarries, CarriesTwice
  <2>2. i.STR = on.STR
    BY <1>1 DEF FDC_IndexPulse_Init, SetPosition, Located, SearchFields
  <2> QED BY <2>1, <2>2
<1> HIDE DEF i
<1>3. Carries(s, m) /\ Located(m) /\ "MOTOR_ON" \in m.STR
  <2>1. m = on \/ m = i
    BY DEF FDC_Set_MotorON, on, i
  <2> QED BY <1>1, <1>2, <2>1, CarriesLocated
<1> HIDE DEF m
<1>4. Carries(s, z) /\ "MOTOR_ON" \in z.STR /\ Located(z)
  <2>1. Carries(s, z)
    BY <1>3, DataCarries, CarriesTwice
  <2>2. z.STR = m.STR
    BY <1>3 DEF Located, SearchFields
  <2> QED BY <1>3, <2>1, <2>2, CarriesLocated
<1> HIDE DEF z
<1>5. Carries(s, Later(z, "SPIN_UP")) /\ Later(z, "SPIN_UP").CommandState = "SPIN_UP"
      /\ "MOTOR_ON" \in Later(z, "SPIN_UP").STR
  <2>1. Later(z, "SPIN_UP").STR = z.STR
    BY <1>4 DEF Later, At, Located, SearchFields
  <2> QED BY <1>4, <2>1, ThenAt
<1>6. Carries(s, Immediately(m, next)) /\ Immediately(m, next).CommandState = next
      /\ "MOTOR_ON" \in Immediately(m, next).STR
  <2>1. Immediately(m, next).STR = m.STR
    BY <1>3 DEF Immediately, At, Located, SearchFields
  <2> QED BY <1>3, <2>1, ThenAt
<1>7. StartMotor(s, next, p) = Later(z, "SPIN_UP") \/ StartMotor(s, next, p) = Immediately(m, next)
  BY DEF StartMotor, z, m
<1> QED BY <1>5, <1>6, <1>7

LEMMA NextSectorCarries ==
  ASSUME NEW s, Located(s), NEW st PROVE Carries(s, FDC_NextSectorID(s, st))
<1> DEFINE h == IF s.pos < Sectors THEN s.pos + 1 ELSE 1
           t == [s EXCEPT !.NextTR = Head(s), !.NextSR = h]
<1> HIDE DEF h
<1>1. Carries(s, t)
  BY DEF Carries, Located, SearchFields
<1> HIDE DEF t
<1>2. Carries(s, At(t, st, h))
  BY <1>1, CarriesLocated, AtCarries, CarriesTwice
<1> QED BY <1>2 DEF FDC_NextSectorID, t, h

-----------------------------------------------------------------------------
(* The commands of type I. *)

LEMMA VerifyHeaderCarries == ASSUME NEW s, Located(s) PROVE Carries(s, VerifyNextHeader(s))
  BY DataCarries, ThenAt, NextSectorCarries DEF VerifyNextHeader

LEMMA VerifyCarries ==
  ASSUME NEW s, Located(s), s.CommandState \in Verifying PROVE Carries(s, Verify(s))
<1>1. CASE s.CommandState = "VERIFY"
  BY <1>1, AtCarries DEF Verify
<1>2. CASE s.CommandState = "HEAD_OK"
  <2>1. Carries(s, [s EXCEPT !.IndexPulse_Counter = 0])
    BY DataCarries
  <2>2. Carries(s, VerifyNextHeader([s EXCEPT !.IndexPulse_Counter = 0]))
    BY <2>1, VerifyHeaderCarries, CarriesLocated, CarriesTwice
  <2> QED BY <1>2, <2>2 DEF Verify
<1>3. CASE s.CommandState = "NEXT_HEADER"
  BY <1>3, VerifyHeaderCarries DEF Verify
<1>4. CASE s.CommandState = "CHECK_HEADER"
  <2>1. Carries(s, [s EXCEPT !.STR = @ \ {"RNF"}])
    BY DataCarries
  <2> QED BY <1>4, <2>1, AtCarries, ThenAt DEF Verify
<1>5. CASE s.CommandState = "COMPLETE"
  BY <1>5, CompleteCarries DEF Verify
<1> QED BY <1>1, <1>2, <1>3, <1>4, <1>5 DEF Verifying

LEMMA RegisterCarries ==
  ASSUME NEW s, Located(s), NEW v PROVE Carries(s, [s EXCEPT !.TR = v])
  BY DEF Carries, Located, SearchFields

LEMMA MoveHeadCarries ==
  ASSUME NEW s, NEW t, Carries(s, t), NEW dir PROVE Carries(s, MoveHead(t, dir))
  BY DataCarries, CarriesLocated, CarriesTwice

LEMMA RestoreLoopCarries == ASSUME NEW s, Located(s) PROVE Carries(s, RestoreLoop(s))
<1>1. CASE s.TR = 0
  <2>1. Carries(s, NotFound(s)) /\ Located(NotFound(s))
    BY DataCarries, CarriesLocated
  <2> QED BY <1>1, <2>1, CompleteCarries, CarriesTwice DEF RestoreLoop
<1>2. CASE s.TR # 0 /\ Selected(s) /\ Head(s) = 0
  BY <1>2, RegisterCarries, ThenAt DEF RestoreLoop
<1>3. CASE s.TR # 0 /\ ~(Selected(s) /\ Head(s) = 0)
  <2> DEFINE t == [s EXCEPT !.TR = @ - 1]
             u == IF Selected(s) THEN MoveHead(t, -1) ELSE t
  <2>1. Carries(s, t)
    BY RegisterCarries
  <2> HIDE DEF t
  <2>2. Carries(s, u)
    BY <2>1, MoveHeadCarries
  <2>3. RestoreLoop(s) = Later(u, "LOOP")
    BY <1>3 DEF RestoreLoop, t
  <2> HIDE DEF u
  <2> QED BY <2>2, <2>3, ThenAt
<1> QED BY <1>1, <1>2, <1>3

LEMMA SeekTrackCarries == ASSUME NEW s, Located(s) PROVE Carries(s, SeekTrack(s))
<1> DEFINE dir == IF s.DR < s.TR THEN -1 ELSE 1
           t == [s EXCEPT !.StepDirection = dir, !.TR = Wrap(@ + dir)]
           u == IF dir = -1 THEN [t EXCEPT !.TR = 0] ELSE t
<1>0. \/ SeekTrack(s) = Immediately(s, "VERIFY") \/ SeekTrack(s) = Later(t, s.CommandState)
      \/ SeekTrack(s) = Later(MoveHead(t, dir), s.CommandState)
      \/ SeekTrack(s) = Immediately(u, "VERIFY")
  BY DEF SeekTrack
<1> HIDE DEF dir
<1>1. Carries(s, t)
  BY DataCarries
<1> HIDE DEF t
<1>2. Carries(s, u) /\ Carries(s, MoveHead(t, dir))
  BY <1>1, RegisterCarries, CarriesLocated, CarriesTwice, MoveHeadCarries
<1> HIDE DEF u
<1> QED BY <1>0, <1>1, <1>2, AtCarries, ThenAt

LEMMA StepOnceCarries == ASSUME NEW s, Located(s) PROVE Carries(s, StepOnce(s))
<1> DEFINE dir == s.StepDirection
           t == IF s.CR.multi THEN [s EXCEPT !.TR = Wrap(@ + dir)] ELSE s
<1>0. \/ StepOnce(s) = Later(t, "VERIFY") \/ StepOnce(s) = Immediately(t, "VERIFY")
      \/ StepOnce(s) = Later(MoveHead(t, dir), "VERIFY")
  BY DEF StepOnce
<1>1. Carries(s, t)
  BY RegisterCarries, DataCarries
<1> HIDE DEF t, dir
<1>2. Carries(s, MoveHead(t, dir))
  BY <1>1, MoveHeadCarries
<1> QED BY <1>0, <1>1, <1>2, ThenAt

LEMMA RestoreCarries ==
  ASSUME NEW s, Located(s), Proper(s), s.Command = "RESTORE", NEW p \in Pos
  PROVE  Carries(s, FDC_UpdateRestoreCmd(s, p))
<1> DEFINE t == FDC_UpdateRestoreCmd(s, p)
           u == [NotReplaceable(s) EXCEPT !.TR = RegMax]
<1>1. s.CommandState \in Positioning \cup {"LOOP"}
  BY StateSets DEF Proper
<1>2. Carries(s, u) /\ Located(u)
  BY DataCarries, RegisterCarries, CarriesTwice, CarriesLocated
<1>3. CASE s.CommandState = "START"
  <2>1. t = StartMotor(s, "MOTOR_ON", p)
    BY <1>3 DEF FDC_UpdateRestoreCmd, SpunUp, SpinningUp
  <2> QED BY <2>1, StartMotorCarries
<1>4. CASE SpinningUp(s)
  <2>1. t = Later(s, "SPIN_UP")
    BY <1>4 DEF FDC_UpdateRestoreCmd, SpunUp, SpinningUp
  <2> QED BY <2>1, AtCarries
<1>5. CASE SpunUp(s)
  <2>1. t = RestoreLoop(u)
    BY <1>5 DEF FDC_UpdateRestoreCmd, SpunUp, SpinningUp
  <2> QED BY <2>1, <1>2, RestoreLoopCarries, CarriesTwice
<1>6. CASE s.CommandState = "LOOP"
  <2>1. t = RestoreLoop(s)
    BY <1>6 DEF FDC_UpdateRestoreCmd, SpunUp, SpinningUp
  <2> QED BY <2>1, RestoreLoopCarries
<1>7. CASE s.CommandState \in Verifying
  <2>1. t = Verify(s)
    BY <1>7 DEF FDC_UpdateRestoreCmd, SpunUp, SpinningUp, Verifying
  <2> QED BY <2>1, <1>7, VerifyCarries
<1> QED BY <1>1, <1>3, <1>4, <1>5, <1>6, <1>7 DEF Positioning, SpunUp, SpinningUp, Verifying

LEMMA SeekCarries ==
  ASSUME NEW s, Located(s), Proper(s), s.Command = "SEEK", NEW p \in Pos
  PROVE  Carries(s, FDC_UpdateSeekCmd(s, p))
<1> DEFINE t == FDC_UpdateSeekCmd(s, p)
<1>1. s.CommandState \in Positioning
  BY StateSets DEF Proper
<1>2. Carries(s, NotReplaceable(s)) /\ Located(NotReplaceable(s))
  BY DataCarries, RegisterCarries, CarriesTwice, CarriesLocated
<1>3. CASE s.CommandState = "START"
  <2>1. t = StartMotor(s, "MOTOR_ON", p)
    BY <1>3 DEF FDC_UpdateSeekCmd, SpunUp, SpinningUp
  <2> QED BY <2>1, StartMotorCarries
<1>4. CASE SpinningUp(s)
  <2>1. t = Later(s, "SPIN_UP")
    BY <1>4 DEF FDC_UpdateSeekCmd, SpunUp, SpinningUp
  <2> QED BY <2>1, AtCarries
<1>5. CASE SpunUp(s)
  <2>1. t = SeekTrack(NotReplaceable(s))
    BY <1>5 DEF FDC_UpdateSeekCmd, SpunUp, SpinningUp
  <2> QED BY <2>1, <1>2, SeekTrackCarries, CarriesTwice
<1>6. CASE s.CommandState \in Verifying
  <2>1. t = Verify(s)
    BY <1>6 DEF FDC_UpdateSeekCmd, SpunUp, SpinningUp, Verifying
  <2> QED BY <2>1, <1>6, VerifyCarries
<1> QED BY <1>1, <1>3, <1>4, <1>5, <1>6 DEF Positioning, SpunUp, SpinningUp, Verifying

LEMMA StepCarries ==
  ASSUME NEW s, Located(s), Proper(s), s.Command = "STEP", NEW p \in Pos
  PROVE  Carries(s, FDC_UpdateStepCmd(s, p))
<1> DEFINE t == FDC_UpdateStepCmd(s, p)
<1>1. s.CommandState \in Positioning
  BY StateSets DEF Proper
<1>2. Carries(s, NotReplaceable(s)) /\ Located(NotReplaceable(s))
  BY DataCarries, RegisterCarries, CarriesTwice, CarriesLocated
<1>3. CASE s.CommandState = "START"
  <2>1. t = StartMotor(s, "MOTOR_ON", p)
    BY <1>3 DEF FDC_UpdateStepCmd, SpunUp, SpinningUp
  <2> QED BY <2>1, StartMotorCarries
<1>4. CASE SpinningUp(s)
  <2>1. t = Later(s, "SPIN_UP")
    BY <1>4 DEF FDC_UpdateStepCmd, SpunUp, SpinningUp
  <2> QED BY <2>1, AtCarries
<1>5. CASE SpunUp(s)
  <2>1. t = StepOnce(NotReplaceable(s))
    BY <1>5 DEF FDC_UpdateStepCmd, SpunUp, SpinningUp
  <2> QED BY <2>1, <1>2, StepOnceCarries, CarriesTwice
<1>6. CASE s.CommandState \in Verifying
  <2>1. t = Verify(s)
    BY <1>6 DEF FDC_UpdateStepCmd, SpunUp, SpinningUp, Verifying
  <2> QED BY <2>1, <1>6, VerifyCarries
<1> QED BY <1>1, <1>3, <1>4, <1>5, <1>6 DEF Positioning, SpunUp, SpinningUp, Verifying

-----------------------------------------------------------------------------
(* The commands of types II and III. *)

LEMMA LoadedCarries ==
  ASSUME NEW s, Located(s), NEW st
  PROVE  Carries(s, Later(NotReplaceable(s), st))
BY DataCarries, ThenAt

LEMMA PreparedCarries ==
  ASSUME NEW s, Located(s), NEW st, NEW n
  PROVE  /\ Carries(s, Later(NotReplaceable(s), st))
         /\ Carries(s, Later([s EXCEPT !.Buffer = n], st))
         /\ Later([s EXCEPT !.Buffer = n], st).CommandState = st
         /\ Carries(s, Immediately([s EXCEPT !.Buffer = n], st))
         /\ Immediately([s EXCEPT !.Buffer = n], st).CommandState = st
<1> DEFINE t == [s EXCEPT !.Buffer = n]
<1>1. Carries(s, t) /\ Carries(s, NotReplaceable(s))
  BY DataCarries
<1> HIDE DEF t
<1>2. /\ Carries(s, Later(t, st)) /\ Later(t, st).CommandState = st
      /\ Carries(s, Immediately(t, st)) /\ Immediately(t, st).CommandState = st
      /\ Carries(s, Later(NotReplaceable(s), st))
  BY <1>1, ThenAt
<1> QED BY <1>2 DEF t

LEMMA AwaitCarries ==
  ASSUME NEW s, Located(s)
  PROVE  Carries(s, AwaitIndex(s)) /\ Carries(s, AwaitIndex(NotReplaceable(s)))
<1>1. Carries(s, NotReplaceable(s))
  BY DataCarries
<1> QED BY <1>1, AtCarries, ThenAt DEF AwaitIndex

LEMMA SearchCarries == ASSUME NEW s, Located(s) PROVE Carries(s, SearchSector(s))
  BY AtCarries, NextSectorCarries DEF SearchSector

LEMMA TransferReadCarries ==
  ASSUME NEW s, Located(s), NEW last
  PROVE  LET t == TransferRead(s, last) IN
         Carries(s, t) /\ t.CommandState \in {"TRANSFER_LOOP", last}
<1> DEFINE v == FDC_DMA_FIFO_Push(s)
           n == Max({v.Buffer - 1, 0})
           t == [v EXCEPT !.Buffer = n]
           st == IF t.Buffer > 0 THEN "TRANSFER_LOOP" ELSE last
<1>1. TransferRead(s, last) = Later(t, st)
  BY DEF TransferRead
<1>2. Carries(s, v)
  BY DmaUnseen, UnseenCarries
<1> HIDE DEF v, n
<1>3. Carries(v, t)
  BY <1>2, CarriesLocated, DataCarries
<1> HIDE DEF t
<1>4. st \in {"TRANSFER_LOOP", last}
  OBVIOUS
<1> HIDE DEF st
<1> QED BY <1>1, <1>2, <1>3, <1>4, CarriesTwice, ThenAt

LEMMA TransferWriteCarries ==
  ASSUME NEW s, Located(s), NEW t, Carries(s, t)
  PROVE  LET u == TransferWrite(s, t) IN
         Carries(s, u) /\ u.CommandState \in {"TRANSFER_LOOP", t.CommandState}
<1> DEFINE v == FDC_DMA_FIFO_Pull(s)
           w == [v EXCEPT !.Buffer = @ + 1, !.BytesToTransfer = @ - 1]
           x == [t EXCEPT !.BytesToTransfer = @ - 1]
<1>1. TransferWrite(s, t) = Later(w, "TRANSFER_LOOP") \/ TransferWrite(s, t) = x
  BY DEF TransferWrite
<1>2. Carries(s, v)
  BY DmaUnseen, UnseenCarries
<1> HIDE DEF v
<1>3. Carries(v, w)
  BY <1>2 DEF Carries, Located, SearchFields
<1> HIDE DEF w
<1>4. Carries(t, x) /\ x.CommandState = t.CommandState
  BY DEF Carries, Located, SearchFields
<1> HIDE DEF x
<1> QED BY <1>1, <1>2, <1>3, <1>4, CarriesTwice, ThenAt

LEMMA StartWriteCarries ==
  ASSUME NEW s, Located(s), NEW n
  PROVE  LET t == StartWrite(s, n) IN Carries(s, t) /\ t.CommandState = "TRANSFER_LOOP"
<1> DEFINE t == [s EXCEPT !.Buffer = 0, !.BytesToTransfer = n]
<1>1. Carries(s, t)
  BY DEF Carries, Located, SearchFields
<1> HIDE DEF t
<1> QED BY <1>1, ThenAt DEF StartWrite, t

LEMMA AnotherCarries ==
  ASSUME NEW s, Located(s)
  PROVE  LET t == NextSector(s) IN Carries(s, t) /\ t.CommandState \in {"MOTOR_ON", "COMPLETE"}
<1> DEFINE t == [s EXCEPT !.SR = Wrap(@ + 1)]
<1>1. Carries(s, t)
  BY DEF Carries, Located, SearchFields
<1> HIDE DEF t
<1> QED BY <1>1, ThenAt, AtCarries DEF NextSector, t

LEMMA PickAddressCarries ==
  ASSUME NEW s, Located(s), NEW old PROVE Carries(s, ReadAddress(s, old))
<1> DEFINE u == [s EXCEPT !.SR = Head(s), !.Buffer = IdBytes]
           v == [s EXCEPT !.SR = old, !.Buffer = 0]
<1>1. Carries(s, u) /\ Carries(s, v)
  BY DEF Carries, Located, SearchFields
<1> HIDE DEF u, v
<1> QED BY <1>1, ThenAt DEF ReadAddress, u, v

LEMMA ReadAddressCarries ==
  ASSUME NEW s, Located(s), Proper(s), s.Command = "READADDRESS", NEW p \in Pos, NEW old
  PROVE  Carries(s, FDC_UpdateReadAddressCmd(s, p, old))
<1> DEFINE t == FDC_UpdateReadAddressCmd(s, p, old)
<1> USE DEF SpinningUp, HeadLoading, HeadLoaded, NoSpinUpLeft
<1>1. s.CommandState \in Starting \cup
                         {"NEXT_HEADER", "TRANSFER_START", "TRANSFER_LOOP", "RNF", "COMPLETE"}
  BY StateSets DEF Proper, TypeII
<1>2. CASE s.CommandState = "START"
  <2>1. t = StartMotor(s, "HEAD_LOAD", p)
    BY <1>2 DEF FDC_UpdateReadAddressCmd
  <2> QED BY <2>1, StartMotorCarries
<1>3. CASE SpinningUp(s)
  <2>1. t = Later(s, "SPIN_UP")
    BY <1>3 DEF FDC_UpdateReadAddressCmd
  <2> QED BY <2>1, AtCarries
<1>4. CASE HeadLoading(s)
  <2>1. t = Later(NotReplaceable(s), "MOTOR_ON")
    BY <1>4 DEF FDC_UpdateReadAddressCmd
  <2> QED BY <2>1, LoadedCarries
<1>5. CASE HeadLoaded(s) \/ s.CommandState = "MOTOR_ON"
  <2>1. t = Immediately(ResetSearch(s), "NEXT_HEADER")
    BY <1>5 DEF FDC_UpdateReadAddressCmd
  <2>2. Carries(s, ResetSearch(s))
    BY DataCarries
  <2> QED BY <2>1, <2>2, ThenAt
<1>6. CASE s.CommandState = "NEXT_HEADER"
  <2>1. \/ t = Immediately(s, "RNF") \/ t = Later(s, "NEXT_HEADER")
        \/ HeaderComes(s) /\ t = FDC_NextSectorID(s, "TRANSFER_START")
    BY <1>6 DEF FDC_UpdateReadAddressCmd
  <2> QED BY <2>1, AtCarries, NextSectorCarries
<1>7. CASE s.CommandState = "TRANSFER_START"
  <2>1. t = ReadAddress(s, old)
    BY <1>7 DEF FDC_UpdateReadAddressCmd
  <2> QED BY <2>1, PickAddressCarries
<1>8. CASE s.CommandState = "TRANSFER_LOOP"
  <2>1. t = TransferRead(s, "COMPLETE")
    BY <1>8 DEF FDC_UpdateReadAddressCmd
  <2> QED BY <2>1, TransferReadCarries
<1>9. CASE s.CommandState \in {"RNF", "COMPLETE"}
  <2>1. t = Ended(s)
    BY <1>9 DEF FDC_UpdateReadAddressCmd
  <2> QED BY <2>1, EndedCarries
<1>10. s.CommandState \in Starting => \/ s.CommandState \in {"START", "MOTOR_ON"}
                                     \/ SpinningUp(s) \/ HeadLoading(s) \/ HeadLoaded(s)
  BY StartingCases
<1> QED BY <1>1, <1>2, <1>3, <1>4, <1>5, <1>6, <1>7, <1>8, <1>9, <1>10

LEMMA ReadTrackCarries ==
  ASSUME NEW s, Located(s), Proper(s), s.Command = "READTRACK", NEW p \in Pos
  PROVE  Carries(s, FDC_UpdateReadTrackCmd(s, p))
<1> DEFINE t == FDC_UpdateReadTrackCmd(s, p)
<1> USE DEF SpinningUp, HeadLoading, HeadLoaded, NoSpinUpLeft
<1>1. s.CommandState \in Starting \cup
                         {"INDEX", "TRANSFER_LOOP", "COMPLETE"}
  BY StateSets DEF Proper, TypeII
<1>2. CASE s.CommandState = "START"
  <2>1. t = StartMotor(s, "HEAD_LOAD", p)
    BY <1>2 DEF FDC_UpdateReadTrackCmd
  <2> QED BY <2>1, StartMotorCarries
<1>3. CASE SpinningUp(s)
  <2>1. t = Later(s, "SPIN_UP")
    BY <1>3 DEF FDC_UpdateReadTrackCmd
  <2> QED BY <2>1, AtCarries
<1>4. CASE HeadLoading(s)
  <2>1. t = Later(NotReplaceable(s), "MOTOR_ON")
    BY <1>4 DEF FDC_UpdateReadTrackCmd
  <2> QED BY <2>1, LoadedCarries
<1>5. CASE HeadLoaded(s)
  <2>1. t = AwaitIndex(NotReplaceable(s))
    BY <1>5 DEF FDC_UpdateReadTrackCmd
  <2> QED BY <2>1, AwaitCarries
<1>6. CASE s.CommandState = "MOTOR_ON"
  <2>1. t = AwaitIndex(s)
    BY <1>6 DEF FDC_UpdateReadTrackCmd
  <2> QED BY <2>1, AwaitCarries
<1>7. CASE s.CommandState = "INDEX"
  <2>1. t = Later([s EXCEPT !.Buffer = TrackBytes], "TRANSFER_LOOP")
    BY <1>7 DEF FDC_UpdateReadTrackCmd
  <2> QED BY <2>1, PreparedCarries
<1>8. CASE s.CommandState = "TRANSFER_LOOP"
  <2>1. t = TransferRead(s, "COMPLETE")
    BY <1>8 DEF FDC_UpdateReadTrackCmd
  <2> QED BY <2>1, TransferReadCarries
<1>9. CASE s.CommandState = "COMPLETE"
  <2>1. t = Ended(s)
    BY <1>9 DEF FDC_UpdateReadTrackCmd
  <2> QED BY <2>1, EndedCarries
<1>10. s.CommandState \in Starting => \/ s.CommandState \in {"START", "MOTOR_ON"}
                                     \/ SpinningUp(s) \/ HeadLoading(s) \/ HeadLoaded(s)
  BY StartingCases
<1> QED BY <1>1, <1>2, <1>3, <1>4, <1>5, <1>6, <1>7, <1>8, <1>9, <1>10

LEMMA WriteTrackCarries ==
  ASSUME NEW s, Located(s), Proper(s), s.Command = "WRITETRACK", NEW p \in Pos, NEW out
  PROVE  Carries(s, FDC_UpdateWriteTrackCmd(s, p, out))
<1> DEFINE t == FDC_UpdateWriteTrackCmd(s, p, out)
<1> USE DEF SpinningUp, HeadLoading, HeadLoaded, NoSpinUpLeft
<1>1. s.CommandState \in Starting \cup
                         {"INDEX", "TRANSFER_LOOP", "COMPLETE"}
  BY StateSets DEF Proper, TypeII
<1>2. CASE s.CommandState = "START"
  <2>1. t = StartMotor(s, "HEAD_LOAD", p)
    BY <1>2 DEF FDC_UpdateWriteTrackCmd
  <2> QED BY <2>1, StartMotorCarries
<1>3. CASE SpinningUp(s)
  <2>1. t = Later(s, "SPIN_UP")
    BY <1>3 DEF FDC_UpdateWriteTrackCmd
  <2> QED BY <2>1, AtCarries
<1>4. CASE HeadLoading(s)
  <2>1. t = Later(NotReplaceable(s), "MOTOR_ON")
    BY <1>4 DEF FDC_UpdateWriteTrackCmd
  <2> QED BY <2>1, LoadedCarries
<1>5. CASE HeadLoaded(s)
  <2>1. t = AwaitIndex(NotReplaceable(s))
    BY <1>5 DEF FDC_UpdateWriteTrackCmd
  <2> QED BY <2>1, AwaitCarries
<1>6. CASE s.CommandState = "MOTOR_ON"
  <2>1. t = AwaitIndex(s)
    BY <1>6 DEF FDC_UpdateWriteTrackCmd
  <2> QED BY <2>1, AwaitCarries
<1>7. CASE s.CommandState = "INDEX"
  <2>1. t = FDC_CmdCompleteCommon(s, TRUE) \/ t = StartWrite(s, TrackBytes)
    BY <1>7 DEF FDC_UpdateWriteTrackCmd
  <2> QED BY <2>1, CompleteCarries, StartWriteCarries
<1>8. CASE s.CommandState = "TRANSFER_LOOP"
  <2>1. t = TransferWrite(s, Immediately(s, "COMPLETE"))
    BY <1>8 DEF FDC_UpdateWriteTrackCmd
  <2> QED BY <2>1, AtCarries, TransferWriteCarries
<1>9. CASE s.CommandState = "COMPLETE"
  <2>1. t = Ended(s)
    BY <1>9 DEF FDC_UpdateWriteTrackCmd
  <2> QED BY <2>1, EndedCarries
<1>10. s.CommandState \in Starting => \/ s.CommandState \in {"START", "MOTOR_ON"}
                                     \/ SpinningUp(s) \/ HeadLoading(s) \/ HeadLoaded(s)
  BY StartingCases
<1> QED BY <1>1, <1>2, <1>3, <1>4, <1>5, <1>6, <1>7, <1>8, <1>9, <1>10

LEMMA StoppingCarries ==
  ASSUME NEW s, Located(s), s.Command = "MOTOR_STOP"
  PROVE  Carries(s, FDC_UpdateMotorStop(s))
<1> DEFINE t == IF s.CommandState = "STOP" THEN [s EXCEPT !.IndexPulse_Counter = 0] ELSE s
           off == [t EXCEPT !.IndexPulse_Counter = 0, !.STR = @ \ {"MOTOR_ON"},
                            !.Command = "NULL", !.CommandState = "NULL"]
<1>0. \/ FDC_UpdateMotorStop(s) = Later(t, "STOP_WAIT")
      \/ FDC_UpdateMotorStop(s) = off \/ FDC_UpdateMotorStop(s) = ForgetPosition(off, t.DriveSel)
  BY DEF FDC_UpdateMotorStop
<1>1. Carries(s, t)
  <2>1. Carries(s, [s EXCEPT !.IndexPulse_Counter = 0]) /\ Carries(s, s)
    BY DataCarries
  <2> QED BY <2>1
<1> HIDE DEF t
<1>2. Carries(t, off)
  BY <1>1 DEF Carries, Located, SearchFields, TypeII
<1> HIDE DEF off
<1>3. Carries(off, ForgetPosition(off, t.DriveSel))
  <2>1. 0 \in Pos
    BY DiskAssumption DEF Pos
  <2> QED BY <1>2, <2>1, CarriesLocated, PositionCarries
<1> QED BY <1>0, <1>1, <1>2, <1>3, ThenAt, CarriesTwice

(* How a search goes on: no step but its own leaves it for RNF, and it     *)
(* begins with a counter of 0.                                             *)
Searching == {"NEXT_HEADER", "CHECK_HEADER"}
Continues(s, t, out) ==
  \/ t.CommandState \notin Searching
     /\ (t.CommandState = "RNF" => s.CommandState \notin Searching)
  \/ s.CommandState \notin Searching
     /\ t \in {Immediately(ResetSearch(s), "NEXT_HEADER"), SearchSector(ResetSearch(s))}
  \/ s.CommandState = "NEXT_HEADER" /\ t = SearchSector(s)
  \/ s.CommandState = "CHECK_HEADER" /\ t = CheckHeader(s, out)

LEMMA CheckCarries == ASSUME NEW s, Located(s), NEW out PROVE Carries(s, CheckHeader(s, out))
  BY AtCarries DEF CheckHeader

LEMMA ReadSectorsCarries ==
  ASSUME NEW s, Located(s), Proper(s), s.Command = "READSECTORS", NEW p \in Pos, NEW out
  PROVE  LET t == FDC_UpdateReadSectorsCmd(s, p, out) IN Carries(s, t) /\ Continues(s, t, out)
<1> DEFINE t == FDC_UpdateReadSectorsCmd(s, p, out)
<1> SUFFICES Carries(s, t) /\ Continues(s, t, out)
  OBVIOUS
<1> USE DEF SpinningUp, HeadLoading, HeadLoaded, NoSpinUpLeft
<1>1. s.CommandState \in Starting \cup
                         {"NEXT_HEADER", "CHECK_HEADER", "TRANSFER_START", "TRANSFER_LOOP",
                          "CRC", "MULTI", "RNF", "COMPLETE"}
  BY StateSets DEF Proper, TypeII
<1>2. CASE s.CommandState = "START"
  <2>1. t = StartMotor(s, "HEAD_LOAD", p)
    BY <1>2 DEF FDC_UpdateReadSectorsCmd
  <2> QED BY <2>1, StartMotorCarries DEF Continues, Searching
<1>3. CASE SpinningUp(s)
  <2>1. t = Later(s, "SPIN_UP")
    BY <1>3 DEF FDC_UpdateReadSectorsCmd
  <2> QED BY <2>1, AtCarries DEF Continues, Searching
<1>4. CASE HeadLoading(s)
  <2>1. t = Later(s, "MOTOR_ON")
    BY <1>4 DEF FDC_UpdateReadSectorsCmd
  <2> QED BY <2>1, AtCarries DEF Continues, Searching
<1>5. CASE HeadLoaded(s) \/ s.CommandState = "MOTOR_ON"
  <2>1. t = Immediately(ResetSearch(s), "NEXT_HEADER")
    BY <1>5 DEF FDC_UpdateReadSectorsCmd
  <2>2. Carries(s, t)
    BY <2>1, DataCarries, ThenAt, SearchCarries, CarriesLocated, CarriesTwice
  <2> HIDE DEF t
  <2> QED BY <1>5, <2>1, <2>2 DEF Continues, Searching
<1>6. CASE s.CommandState = "NEXT_HEADER"
  <2>1. t = SearchSector(s)
    BY <1>6 DEF FDC_UpdateReadSectorsCmd
  <2> HIDE DEF t
  <2> QED BY <1>6, <2>1, SearchCarries DEF Continues
<1>7. CASE s.CommandState = "CHECK_HEADER"
  <2>1. t = CheckHeader(s, out)
    BY <1>7 DEF FDC_UpdateReadSectorsCmd
  <2> HIDE DEF t
  <2> QED BY <1>7, <2>1, CheckCarries DEF Continues
<1>8. CASE s.CommandState = "TRANSFER_START"
  <2>1. \/ t = Later([s EXCEPT !.Buffer = SectorBytes], "TRANSFER_LOOP")
        \/ t = Immediately([s EXCEPT !.Buffer = 0], "RNF")
    BY <1>8 DEF FDC_UpdateReadSectorsCmd
  <2> HIDE DEF t
  <2>2. ASSUME t = Later([s EXCEPT !.Buffer = SectorBytes], "TRANSFER_LOOP")
        PROVE  Carries(s, t) /\ t.CommandState = "TRANSFER_LOOP"
    BY <2>2, PreparedCarries
  <2>3. ASSUME t = Immediately([s EXCEPT !.Buffer = 0], "RNF")
        PROVE  Carries(s, t) /\ t.CommandState = "RNF"
    BY <2>3, PreparedCarries
  <2>4. Carries(s, t) /\ t.CommandState \in {"TRANSFER_LOOP", "RNF"}
    BY <2>1, <2>2, <2>3
  <2> QED BY <1>8, <2>4 DEF Continues, Searching
<1>9. CASE s.CommandState = "TRANSFER_LOOP"
  <2>1. t = TransferRead(s, "CRC")
    BY <1>9 DEF FDC_UpdateReadSectorsCmd
  <2> QED BY <1>9, <2>1, TransferReadCarries DEF Continues, Searching
<1>10. CASE s.CommandState = "CRC"
  <2>1. t = Immediately(s, "MULTI")
    BY <1>10 DEF FDC_UpdateReadSectorsCmd
  <2> QED BY <1>10, <2>1, AtCarries DEF Continues, Searching
<1>11. CASE s.CommandState = "MULTI"
  <2>1. t = NextSector(s)
    BY <1>11 DEF FDC_UpdateReadSectorsCmd
  <2> QED BY <1>11, <2>1, AnotherCarries DEF Continues, Searching
<1>12. CASE s.CommandState \in {"RNF", "COMPLETE"}
  <2>1. t = Ended(s)
    BY <1>12 DEF FDC_UpdateReadSectorsCmd
  <2> QED BY <1>12, <2>1, EndedCarries DEF Continues, Searching
<1>13. s.CommandState \in Starting => \/ s.CommandState \in {"START", "MOTOR_ON"}
                                     \/ SpinningUp(s) \/ HeadLoading(s) \/ HeadLoaded(s)
  BY StartingCases
<1> HIDE DEF t
<1> QED BY <1>1, <1>2, <1>3, <1>4, <1>5, <1>6, <1>7, <1>8, <1>9, <1>10, <1>11, <1>12, <1>13

LEMMA UnprotectedCarries ==
  ASSUME NEW s, Located(s), Proper(s), s.Command = "WRITESECTORS", NEW p \in Pos, NEW out
  PROVE  LET t == UnprotectedWrite(s, p, out) IN Carries(s, t) /\ Continues(s, t, out)
<1> DEFINE t == UnprotectedWrite(s, p, out)
<1> SUFFICES Carries(s, t) /\ Continues(s, t, out)
  OBVIOUS
<1> USE DEF SpinningUp, HeadLoading, HeadLoaded, NoSpinUpLeft
<1>1. s.CommandState \in Starting \cup
                         {"NEXT_HEADER", "CHECK_HEADER", "TRANSFER_START", "TRANSFER_LOOP",
                          "CRC", "MULTI", "RNF", "COMPLETE"}
  BY StateSets DEF Proper, TypeII
<1>2. CASE s.CommandState = "START"
  <2>1. t = StartMotor(s, "HEAD_LOAD", p)
    BY <1>2 DEF UnprotectedWrite
  <2> QED BY <2>1, StartMotorCarries DEF Continues, Searching
<1>3. CASE SpinningUp(s)
  <2>1. t = Later(s, "SPIN_UP")
    BY <1>3 DEF UnprotectedWrite
  <2> QED BY <2>1, AtCarries DEF Continues, Searching
<1>4. CASE HeadLoading(s)
  <2>1. t = Later(s, "MOTOR_ON")
    BY <1>4 DEF UnprotectedWrite
  <2> QED BY <2>1, AtCarries DEF Continues, Searching
<1>5. CASE HeadLoaded(s) \/ s.CommandState = "MOTOR_ON"
  <2>1. t = SearchSector(ResetSearch(s))
    BY <1>5 DEF UnprotectedWrite, FirstSearch
  <2>2. Carries(s, t)
    BY <2>1, DataCarries, ThenAt, SearchCarries, CarriesLocated, CarriesTwice
  <2> HIDE DEF t
  <2> QED BY <1>5, <2>1, <2>2 DEF Continues, Searching
<1>6. CASE s.CommandState = "NEXT_HEADER"
  <2>1. t = SearchSector(s)
    BY <1>6 DEF UnprotectedWrite
  <2> HIDE DEF t
  <2> QED BY <1>6, <2>1, SearchCarries DEF Continues
<1>7. CASE s.CommandState = "CHECK_HEADER"
  <2>1. t = CheckHeader(s, out)
    BY <1>7 DEF UnprotectedWrite
  <2> HIDE DEF t
  <2> QED BY <1>7, <2>1, CheckCarries DEF Continues
<1>8. CASE s.CommandState = "TRANSFER_START"
  <2>1. t = StartWrite(s, SectorBytes)
    BY <1>8 DEF UnprotectedWrite
  <2> QED BY <1>8, <2>1, StartWriteCarries DEF Continues, Searching
<1>9. CASE s.CommandState = "TRANSFER_LOOP"
  <2>1. t = TransferWrite(s, Later(s, "CRC"))
    BY <1>9 DEF UnprotectedWrite
  <2> QED BY <1>9, <2>1, AtCarries, TransferWriteCarries DEF Continues, Searching
<1>10. CASE s.CommandState = "CRC"
  <2>1. t = Immediately(s, "MULTI") \/ t = Immediately(s, "RNF")
    BY <1>10 DEF UnprotectedWrite
  <2> QED BY <1>10, <2>1, AtCarries DEF Continues, Searching
<1>11. CASE s.CommandState = "MULTI"
  <2>1. t = NextSector(s)
    BY <1>11 DEF UnprotectedWrite
  <2> QED BY <1>11, <2>1, AnotherCarries DEF Continues, Searching
<1>12. CASE s.CommandState \in {"RNF", "COMPLETE"}
  <2>1. t = Ended(s)
    BY <1>12 DEF UnprotectedWrite
  <2> QED BY <1>12, <2>1, EndedCarries DEF Continues, Searching
<1>13. s.CommandState \in Starting => \/ s.CommandState \in {"START", "MOTOR_ON"}
                                     \/ SpinningUp(s) \/ HeadLoading(s) \/ HeadLoaded(s)
  BY StartingCases
<1> HIDE DEF t
<1> QED BY <1>1, <1>2, <1>3, <1>4, <1>5, <1>6, <1>7, <1>8, <1>9, <1>10, <1>11, <1>12, <1>13

LEMMA CommandCarries ==
  ASSUME NEW s, Located(s), Proper(s), NEW p \in Pos, NEW out, NEW old
  PROVE  LET t == UpdateCommand(s, p, out, old)
         IN Carries(s, t) /\ (s.Command \in TypeII => Continues(s, t, out))
<1> DEFINE t == UpdateCommand(s, p, out, old)
<1>1. CASE s.Command = "NULL"
  BY <1>1, DataCarries DEF UpdateCommand, TypeII
<1>2. CASE s.Command \in {"RESTORE", "SEEK", "STEP", "MOTOR_STOP"}
  <2>1. Carries(s, t)
    BY <1>2, RestoreCarries, SeekCarries, StepCarries, StoppingCarries DEF UpdateCommand
  <2> QED BY <1>2, <2>1 DEF TypeII
<1>3. CASE s.Command = "READSECTORS"
  BY <1>3, ReadSectorsCarries DEF UpdateCommand
<1>4. CASE s.Command = "WRITESECTORS"
  <2>1. t = FDC_CmdCompleteCommon(s, TRUE) \/ t = UnprotectedWrite(s, p, out)
    BY <1>4 DEF UpdateCommand, FDC_UpdateWriteSectorsCmd
  <2>2. CASE t = FDC_CmdCompleteCommon(s, TRUE)
    BY <2>2, CompleteCarries DEF Continues, Searching
  <2> QED BY <1>4, <2>1, <2>2, UnprotectedCarries
<1>5. CASE s.Command \in TypeIII
  <2>1. Carries(s, t)
    BY <1>5, ReadAddressCarries, ReadTrackCarries, WriteTrackCarries DEF UpdateCommand, TypeIII
  <2> QED BY <1>5, <2>1 DEF TypeII, TypeIII
<1> QED BY <1>1, <1>2, <1>3, <1>4, <1>5 DEF Proper, CommandNames, TypeII

(* The first state of a command starts the motor, or the command ends.     *)
LEMMA StartSpins ==
  ASSUME NEW s, Located(s), s.Command \in TypeII, s.CommandState = "START",
         NEW p \in Pos, NEW out, NEW old
  PROVE  LET t == UpdateCommand(s, p, out, old)
         IN Spinning(t) /\ t.CommandState \in {"SPIN_UP", "HEAD_LOAD", "STOP"}
<1> DEFINE t == UpdateCommand(s, p, out, old)
<1>1. t = FDC_CmdCompleteCommon(s, TRUE) \/ t = StartMotor(s, "HEAD_LOAD", p)
  BY DEF UpdateCommand, FDC_UpdateReadSectorsCmd, FDC_UpdateWriteSectorsCmd, UnprotectedWrite,
         SpinningUp, HeadLoading, HeadLoaded, NoSpinUpLeft, TypeII
<1>2. FDC_CmdCompleteCommon(s, TRUE).Command = "MOTOR_STOP"
  BY CompleteStops
<1> HIDE DEF t
<1>3. ASSUME t = FDC_CmdCompleteCommon(s, TRUE)
      PROVE  Spinning(t) /\ t.CommandState = "STOP"
  BY <1>2, <1>3, CompleteCarries DEF Spinning, TypeII
<1>4. ASSUME t = StartMotor(s, "HEAD_LOAD", p)
      PROVE  Spinning(t) /\ t.CommandState \in {"SPIN_UP", "HEAD_LOAD"}
  BY <1>4, StartMotorCarries DEF Spinning, MotorRuns
<1>5. Spinning(t) /\ t.CommandState \in {"SPIN_UP", "HEAD_LOAD", "STOP"}
  BY <1>1, <1>3, <1>4
<1> QED BY <1>5 DEF t

-----------------------------------------------------------------------------
(* Where a search is.  At most one index pulse has gone by since it began, *)
(* and if one has, the sector has not passed the head since then.          *)
Turns(s) == s.IndexPulse_Counter + (IF s.pulse THEN 1 ELSE 0)
WaitsForHeader(s) ==
  /\ s.NextTR = Head(s) /\ s.NextSR \in 1 .. Sectors /\ s.timer = s.NextSR
  /\ s.pos \in {s.NextSR, s.NextSR - 1} \/ (s.pos = Sectors /\ s.NextSR = 1)
  /\ Turns(s) = 1 => s.NextSR <= s.SR /\ s.pos <= s.NextSR
Underway(s) ==
  /\ Turns(s) <= 1
  /\ s.CommandState = "NEXT_HEADER" => s.timer = OFF /\ (Turns(s) = 1 => s.pos < s.SR)
  /\ s.CommandState = "CHECK_HEADER" => WaitsForHeader(s)
OnCourse(s) == DriveReady(s) /\ Timed(s) /\ (SectorExists(s) => Underway(s))

LEMMA UnseenOnCourse ==
  ASSUME NEW s, NEW t, Unseen(s, t)
  PROVE  /\ OnCourse(s) => OnCourse(t)
         /\ Searches(t) = Searches(s) /\ Spinning(t) = Spinning(s)
         /\ t.CommandState = s.CommandState
<1>1. /\ Turns(t) = Turns(s) /\ Head(t) = Head(s) /\ Timed(t) = Timed(s)
      /\ DriveReady(t) = DriveReady(s) /\ SectorExists(t) = SectorExists(s)
      /\ Searches(t) = Searches(s) /\ Spinning(t) = Spinning(s)
  BY DEF Unseen, Turns, Head, Timed, Selected, DriveReady, SectorExists, Searches, Spinning,
         MotorRuns
<1>2. Underway(s) => Underway(t)
  BY <1>1 DEF Unseen, Underway, WaitsForHeader
<1> QED BY <1>1, <1>2 DEF OnCourse, Unseen

(* FDC_IndexPulse_Update notices the pulses one by one. *)
Noticed(s, t) ==
  /\ Located(t)
  /\ t.TR = s.TR /\ t.SR = s.SR /\ t.NextTR = s.NextTR /\ t.NextSR = s.NextSR
  /\ t.timer = s.timer /\ t.pos = s.pos /\ t.DriveSel = s.DriveSel /\ t.drives = s.drives
  /\ t.Command = s.Command /\ t.CommandState = s.CommandState
  /\ Turns(s) <= 1 => Turns(t) = Turns(s)
  /\ "MOTOR_ON" \in s.STR /\ DriveReady(s) => ~t.pulse

LEMMA AccessNotices ==
  ASSUME NEW s, Located(s), NEW p
  PROVE  LET t == FDC_IndexPulse_Update(s, p)
         IN t.STR = s.STR /\ t.Replace = s.Replace /\ (Timed(s) => Noticed(s, t))
<1> DEFINE c == Min({s.IndexPulse_Counter + 1, MaxPulses})
           t == [s EXCEPT !.pulse = FALSE, !.IndexPulse_Counter = c]
           i == FDC_IndexPulse_Init(s, s.DriveSel, p)
           r == FDC_SetIRQ(t, "INDEX")
           u == FDC_IndexPulse_Update(s, p)
<1>1. c \in Nat /\ (s.IndexPulse_Counter = 0 => c = 1)
  BY Limits, MinOfTwo DEF Located
<1> HIDE DEF c
<1>2. t.STR = s.STR /\ t.Replace = s.Replace /\ (s.pulse => Noticed(s, t)) /\ Located(t)
  <2>1. /\ SearchFields \subseteq DOMAIN t
        /\ t.TR = s.TR /\ t.SR = s.SR /\ t.NextTR = s.NextTR /\ t.NextSR = s.NextSR
        /\ t.timer = s.timer /\ t.pos = s.pos /\ t.DriveSel = s.DriveSel /\ t.drives = s.drives
        /\ t.Command = s.Command /\ t.CommandState = s.CommandState
        /\ t.STR = s.STR /\ t.Replace = s.Replace /\ t.pulse = FALSE /\ t.IndexPulse_Counter = c
    BY DEF Located, SearchFields
  <2> HIDE DEF t
  <2>2. Located(t)
    BY <1>1, <2>1 DEF Located
  <2>3. s.pulse /\ Turns(s) <= 1 => Turns(t) = Turns(s)
    <3> SUFFICES ASSUME s.pulse, Turns(s) <= 1 PROVE Turns(t) = Turns(s)
      OBVIOUS
    <3>1. Turns(s) = s.IndexPulse_Counter + 1 /\ s.IndexPulse_Counter \in Nat
      BY DEF Turns, Located
    <3>2. s.IndexPulse_Counter = 0
      BY <3>1
    <3>3. Turns(t) = c
      BY <1>1, <2>1 DEF Turns
    <3> QED BY <1>1, <3>1, <3>2, <3>3
  <2> QED BY <2>1, <2>2, <2>3 DEF Noticed
<1> HIDE DEF t
<1>3. r.STR = s.STR /\ r.Replace = s.Replace /\ (s.pulse => Noticed(s, r))
  <2>1. Unseen(t, r) /\ r.STR = t.STR /\ Located(r)
    BY <1>2, RequestUnseen, CarriesLocated
  <2>2. r.Replace = t.Replace
    BY <1>2 DEF FDC_SetIRQ, Located, SearchFields
  <2> HIDE DEF r
  <2> QED BY <1>2, <2>1, <2>2 DEF Noticed, Unseen, Turns
<1>4. i.STR = s.STR /\ i.Replace = s.Replace
  BY DEF FDC_IndexPulse_Init, SetPosition, Located, SearchFields
<1> HIDE DEF i, r
<1>5. \/ u = s /\ ("MOTOR_ON" \in s.STR /\ DriveReady(s) => ~s.pulse) 
      \/ u = i /\ ~Timed(s)
      \/ s.pulse /\ u \in {t, r}
  BY DEF FDC_IndexPulse_Update, t, c, i, r
<1> HIDE DEF u
<1>6. CASE u = s /\ ("MOTOR_ON" \in s.STR /\ DriveReady(s) => ~s.pulse)
  BY <1>6 DEF Noticed, u
<1>7. CASE u = i /\ ~Timed(s)
  BY <1>4, <1>7 DEF u
<1>8. CASE s.pulse /\ u \in {t, r}
  BY <1>2, <1>3, <1>8 DEF u
<1> QED BY <1>5, <1>6, <1>7, <1>8

LEMMA NoticedOnCourse ==
  ASSUME NEW s, Located(s), NEW t, Noticed(s, t)
  PROVE  /\ OnCourse(s) => OnCourse(t)
         /\ Searches(t) = Searches(s) /\ SectorExists(t) = SectorExists(s)
         /\ DriveReady(t) = DriveReady(s) /\ Timed(t) = Timed(s) /\ Head(t) = Head(s)
<1>1. /\ Head(t) = Head(s) /\ Timed(t) = Timed(s)
      /\ DriveReady(t) = DriveReady(s) /\ SectorExists(t) = SectorExists(s)
      /\ Searches(t) = Searches(s)
  BY DEF Noticed, Head, Timed, Selected, DriveReady, SectorExists, Searches
<1>2. Underway(s) => Underway(t)
  BY <1>1 DEF Noticed, Underway, WaitsForHeader
<1> QED BY <1>1, <1>2 DEF OnCourse

(* The first access after the motor has started finds out where the disk   *)
(* is.                                                                     *)
LEMMA AccessFinds ==
  ASSUME NEW s, Located(s), Held(s), "MOTOR_ON" \in s.STR, NEW p,
         DriveReady(FDC_IndexPulse_Update(s, p))
  PROVE  LET t == FDC_IndexPulse_Update(s, p) IN Timed(t) /\ ~t.pulse
<1> DEFINE t == FDC_IndexPulse_Update(s, p)
           i == FDC_IndexPulse_Init(s, s.DriveSel, p)
<1>1. DriveReady(s)
  BY DEF FDC_IndexPulse_Update
<1>2. CASE Timed(s)
  <2>1. Noticed(s, t)
    BY <1>2, AccessNotices
  <2> HIDE DEF t
  <2>2. Timed(t) /\ ~t.pulse
    BY <1>1, <1>2, <2>1, NoticedOnCourse DEF Noticed
  <2> QED BY <2>2 DEF t
<1>3. CASE ~Timed(s)
  <2>1. t = i
    BY <1>1, <1>3 DEF FDC_IndexPulse_Update
  <2>2. s.DriveSel \in Drives /\ DOMAIN s.drives = Drives /\ "timed" \in DOMAIN s.drives[s.DriveSel]
    BY <1>1, SelectedDrive DEF Held, Driven, DriveReady
  <2>3. /\ i.DriveSel = s.DriveSel /\ i.pulse = FALSE
        /\ i.drives = [s.drives EXCEPT ![s.DriveSel].timed = TRUE]
    BY DEF FDC_IndexPulse_Init, SetPosition, Located, SearchFields
  <2> HIDE DEF i, t
  <2>4. i.drives[s.DriveSel].timed = TRUE
    BY <2>2, <2>3
  <2>5. Timed(t) /\ ~t.pulse
    BY <1>1, <2>1, <2>3, <2>4 DEF Timed, Selected, DriveReady
  <2> QED BY <2>5 DEF t
<1> QED BY <1>2, <1>3


-----------------------------------------------------------------------------
(* The invariant of a search. *)
SearchInv ==
  /\ Located(fdc) /\ Spinning(fdc)
  /\ phase = "handler" => fdc.timer = OFF
  /\ calm /\ Searches(fdc) => OnCourse(fdc)

(* What is left alone where only the state of a command changes.           *)
SameDisk(s, t) ==
  /\ t.TR = s.TR /\ t.SR = s.SR /\ t.DriveSel = s.DriveSel /\ t.drives = s.drives
  /\ t.pos = s.pos /\ t.pulse = s.pulse

LEMMA SameDiskFacts ==
  ASSUME NEW s, NEW t, SameDisk(s, t)
  PROVE  /\ Head(t) = Head(s) /\ Timed(t) = Timed(s) /\ DriveReady(t) = DriveReady(s)
         /\ SectorExists(t) = SectorExists(s)
  BY DEF SameDisk, Head, Timed, Selected, DriveReady, SectorExists

LEMMA AtSameDisk ==
  ASSUME NEW s, Located(s), NEW st, NEW delay
  PROVE  LET t == At(s, st, delay)
         IN /\ SameDisk(s, t) /\ t.CommandState = st /\ t.timer = delay /\ Turns(t) = Turns(s)
            /\ t.NextTR = s.NextTR /\ t.NextSR = s.NextSR /\ t.Command = s.Command
  BY DEF At, SameDisk, Located, SearchFields, Turns

LEMMA NextSectorSameDisk ==
  ASSUME NEW s, Located(s), NEW st
  PROVE  LET t == FDC_NextSectorID(s, st)
         IN /\ SameDisk(s, t) /\ t.CommandState = st /\ Turns(t) = Turns(s)
            /\ t.NextTR = Head(s) /\ t.NextSR = (IF s.pos < Sectors THEN s.pos + 1 ELSE 1)
            /\ t.timer = t.NextSR
<1> DEFINE h == IF s.pos < Sectors THEN s.pos + 1 ELSE 1
           t == [s EXCEPT !.NextTR = Head(s), !.NextSR = h]
           u == At(t, st, h)
<1>1. u = FDC_NextSectorID(s, st)
  BY DEF FDC_NextSectorID
<1> HIDE DEF h
<1>2. Located(t) /\ SameDisk(s, t) /\ Turns(t) = Turns(s) /\ t.NextTR = Head(s) /\ t.NextSR = h
  BY DEF SameDisk, Located, SearchFields, Turns
<1> HIDE DEF t
<1>3. /\ SameDisk(t, u) /\ u.CommandState = st /\ u.timer = h /\ Turns(u) = Turns(t)
      /\ u.NextTR = t.NextTR /\ u.NextSR = t.NextSR
  BY <1>2, AtSameDisk
<1> HIDE DEF u
<1> QED BY <1>1, <1>2, <1>3 DEF SameDisk, h

(* The search for the next header: the sector is still to come.            *)
LEMMA SearchOnCourse ==
  ASSUME AddressIP > 1, NEW s, Located(s), DriveReady(s), Timed(s),
         SectorExists(s) => Turns(s) <= 1 /\ (Turns(s) = 1 => s.pos < s.SR)
  PROVE  LET t == SearchSector(s)
         IN OnCourse(t) /\ (t.CommandState = "RNF" => ~SectorExists(s))
<1> DEFINE t == SearchSector(s)
<1>1. CASE ~SectorExists(s)
  <2>1. SameDisk(s, t)
    BY AtSameDisk, NextSectorSameDisk DEF SearchSector, Immediately, Later
  <2> HIDE DEF t
  <2>2. OnCourse(t)
    BY <1>1, <2>1, SameDiskFacts DEF OnCourse
  <2> QED BY <1>1, <2>2 DEF t
<1>2. CASE SectorExists(s)
  <2>1. ~(s.IndexPulse_Counter >= AddressIP) /\ HeaderComes(s)
    <3>1. Turns(s) <= 1 /\ s.IndexPulse_Counter \in Nat
      BY <1>2 DEF Located
    <3>2. s.IndexPulse_Counter <= Turns(s)
      BY <3>1 DEF Turns
    <3>3. AddressIP \in Nat
      BY Limits
    <3>4. HeaderComes(s)
      BY <1>2 DEF HeaderComes, SectorExists
    <3>5. Turns(s) \in Int
      BY <3>1 DEF Turns
    <3> QED BY <3>1, <3>2, <3>3, <3>4, <3>5
  <2>2. t = FDC_NextSectorID(s, "CHECK_HEADER")
    BY <2>1 DEF SearchSector
  <2> DEFINE h == IF s.pos < Sectors THEN s.pos + 1 ELSE 1
  <2>3. /\ SameDisk(s, t) /\ t.CommandState = "CHECK_HEADER" /\ Turns(t) = Turns(s)
        /\ t.NextTR = Head(s) /\ t.NextSR = h /\ t.timer = h
    BY <2>2, NextSectorSameDisk
  <2> HIDE DEF t
  <2>4. s.pos \in 0 .. Sectors /\ Sectors \in Nat \ {0} /\ s.SR \in 1 .. Sectors
    BY <1>2, DiskAssumption DEF Located, Pos, SectorExists
  <2>5. h \in 1 .. Sectors /\ (s.pos \in {h, h - 1} \/ (s.pos = Sectors /\ h = 1))
    BY <2>4
  <2>6. Turns(s) = 1 => h <= s.SR /\ s.pos <= h
    BY <1>2, <2>4
  <2> HIDE DEF h
  <2>7. t.TR = s.TR /\ t.SR = s.SR /\ t.pos = s.pos /\ Head(t) = Head(s) /\ Timed(t) /\ DriveReady(t)
    BY <2>3, SameDiskFacts DEF SameDisk
  <2>8. WaitsForHeader(t)
    BY <2>3, <2>5, <2>6, <2>7 DEF WaitsForHeader
  <2>9. OnCourse(t)
    BY <1>2, <2>3, <2>7, <2>8 DEF OnCourse, Underway
  <2> QED BY <2>3, <2>9 DEF t
<1> QED BY <1>1, <1>2

(* A header has been read that is not the one looked for.                  *)
LEMMA CheckOnCourse ==
  ASSUME NEW s, Located(s), DriveReady(s), Timed(s), NEW out,
         SectorExists(s) => /\ Turns(s) <= 1 /\ s.NextTR = Head(s) /\ s.pos = s.NextSR
                            /\ Turns(s) = 1 => s.NextSR <= s.SR
  PROVE  LET t == CheckHeader(s, out) IN OnCourse(t) /\ t.CommandState # "RNF"
<1> DEFINE t == CheckHeader(s, out)
<1>1. \/ t = Later(s, "TRANSFER_START")
      \/ t = Immediately(s, "NEXT_HEADER") /\ ~SectorFits(s)
  BY DEF CheckHeader, DriveReady
<1>2. /\ SameDisk(s, t) /\ Turns(t) = Turns(s)
      /\ \/ t.CommandState = "TRANSFER_START"
         \/ t.CommandState = "NEXT_HEADER" /\ t.timer = OFF /\ ~SectorFits(s)
  BY <1>1, AtSameDisk DEF Later, Immediately
<1> HIDE DEF t
<1>3. Timed(t) /\ DriveReady(t) /\ SectorExists(t) = SectorExists(s) /\ t.pos = s.pos /\ t.SR = s.SR
  BY <1>2, SameDiskFacts DEF SameDisk
<1>4. SectorExists(s) /\ ~SectorFits(s) /\ Turns(s) = 1 => s.pos < s.SR
  <2> SUFFICES ASSUME SectorExists(s), ~SectorFits(s), Turns(s) = 1 PROVE s.pos < s.SR
    OBVIOUS
  <2>1. s.NextTR = s.TR /\ s.NextSR # s.SR
    BY DEF SectorExists, SectorFits
  <2>2. s.SR \in Int /\ s.pos \in Int
    BY DiskAssumption DEF SectorExists, Located, Pos
  <2> QED BY <2>1, <2>2
<1>5. SectorExists(s) => Underway(t)
  BY <1>2, <1>3, <1>4 DEF Underway
<1>6. OnCourse(t) /\ t.CommandState # "RNF"
  BY <1>2, <1>3, <1>5 DEF OnCourse
<1> QED BY <1>6 DEF t

(* What the handler's access to the index pulses leaves of the state.      *)
LEMMA AccessBeforePass ==
  ASSUME NEW s, Located(s), Good(s), Held(s), NEW p \in Pos
  PROVE  LET w == FDC_IndexPulse_Update([s EXCEPT !.timer = OFF], p)
         IN /\ Located(w) /\ Proper(w) /\ w.STR = s.STR
            /\ w.Command = s.Command /\ w.CommandState = s.CommandState
            /\ "MOTOR_ON" \in s.STR /\ DriveReady(w) => Timed(w) /\ ~w.pulse
            /\ Timed(s) => Noticed([s EXCEPT !.timer = OFF], w)
<1> DEFINE v == [s EXCEPT !.timer = OFF]
           w == FDC_IndexPulse_Update(v, p)
<1>1. Located(v) /\ v.STR = s.STR /\ Timed(v) = Timed(s)
  BY DEF Located, SearchFields, Timed, Selected
<1>2. v.Command = s.Command /\ v.CommandState = s.CommandState
  BY DEF Located, SearchFields
<1>3. Held(v)
  <2>1. /\ HeldFields \subseteq DOMAIN v
        /\ v.Command = s.Command /\ v.timer = OFF /\ v.DriveSel = s.DriveSel
        /\ v.SectorCount = s.SectorCount /\ v.BytesInSector = s.BytesInSector
        /\ v.room = s.room /\ v.STR = s.STR /\ v.drives = s.drives
    BY DEF Held, HeldFields
  <2> HIDE DEF v
  <2> QED BY <2>1 DEF Held, Dma, Driven, OFF
<1> HIDE DEF v
<1>4. Located(w) /\ w.Command = v.Command /\ w.CommandState = v.CommandState
  BY <1>1, AccessCarries, CarriesLocated
<1>5. w.STR = v.STR /\ (Timed(v) => Noticed(v, w))
  BY <1>1, AccessNotices
<1>6. "MOTOR_ON" \in v.STR /\ DriveReady(w) => Timed(w) /\ ~w.pulse
  BY <1>1, <1>3, AccessFinds
<1> HIDE DEF w
<1>7. Proper(w)
  BY <1>2, <1>4 DEF Good, Proper
<1> QED BY <1>1, <1>2, <1>4, <1>5, <1>6, <1>7 DEF w, v

(* A search that begins has its sector before it.                          *)
LEMMA BeginOnCourse ==
  ASSUME AddressIP > 1, NEW w, Located(w), DriveReady(w), Timed(w), ~w.pulse,
         NEW u \in {Immediately(ResetSearch(w), "NEXT_HEADER"), SearchSector(ResetSearch(w))}
  PROVE  OnCourse(u)
<1> DEFINE r == ResetSearch(w)
<1>1. Located(r) /\ SameDisk(w, r) /\ Turns(r) = 0
  BY DEF ResetSearch, NotReplaceable, SameDisk, Located, SearchFields, Turns
<1> HIDE DEF r
<1>2. DriveReady(r) /\ Timed(r)
  BY <1>1, SameDiskFacts
<1>3. CASE u = SearchSector(r)
  BY <1>1, <1>2, <1>3, SearchOnCourse
<1>4. CASE u = Immediately(r, "NEXT_HEADER")
  <2>1. /\ SameDisk(r, u) /\ u.CommandState = "NEXT_HEADER" /\ u.timer = OFF
        /\ Turns(u) = 0
    BY <1>1, <1>4, AtSameDisk DEF Immediately
  <2> QED BY <1>2, <2>1, SameDiskFacts DEF OnCourse, Underway
<1> QED BY <1>3, <1>4 DEF r

(* A search that is under way remains so.                                  *)
LEMMA SearchPass ==
  ASSUME AddressIP > 1, NEW s, Located(s), Searches(s), OnCourse(s), "MOTOR_ON" \in s.STR,
         s.CommandState = "CHECK_HEADER" /\ SectorExists(s) => s.pos = s.NextSR,
         NEW w, Noticed([s EXCEPT !.timer = OFF], w),
         NEW u, NEW out, Continues(w, u, out)
  PROVE  /\ Searches(u) => OnCourse(u)
         /\ u.CommandState = "RNF" => ~SectorExists(s)
<1> DEFINE v == [s EXCEPT !.timer = OFF]
<1>0. Noticed(v, w)
  OBVIOUS
<1>1. /\ Located(v) /\ SameDisk(s, v) /\ Turns(v) = Turns(s) /\ v.CommandState = s.CommandState
      /\ v.NextTR = s.NextTR /\ v.NextSR = s.NextSR
  BY DEF SameDisk, Located, SearchFields, Turns
<1> HIDE DEF v
<1>2. /\ Located(w) /\ w.CommandState = s.CommandState /\ w.NextTR = s.NextTR
      /\ w.NextSR = s.NextSR /\ w.pos = s.pos /\ w.SR = s.SR
      /\ Turns(s) <= 1 => Turns(w) = Turns(s)
      /\ SectorExists(w) = SectorExists(s) /\ DriveReady(w) /\ Timed(w) /\ Head(w) = Head(s)
  <2>1. /\ SectorExists(w) = SectorExists(v) /\ DriveReady(w) = DriveReady(v)
        /\ Timed(w) = Timed(v) /\ Head(w) = Head(v)
    BY <1>0, <1>1, NoticedOnCourse
  <2>2. /\ SectorExists(v) = SectorExists(s) /\ DriveReady(v) = DriveReady(s)
        /\ Timed(v) = Timed(s) /\ Head(v) = Head(s)
    BY <1>1, SameDiskFacts
  <2>3. /\ Located(w) /\ w.CommandState = s.CommandState /\ w.NextTR = s.NextTR
        /\ w.NextSR = s.NextSR /\ w.pos = s.pos /\ w.SR = s.SR
        /\ Turns(s) <= 1 => Turns(w) = Turns(s)
    BY <1>0, <1>1 DEF Noticed, SameDisk
  <2> QED BY <2>1, <2>2, <2>3 DEF OnCourse
<1>3. w.CommandState \in Searching
  BY <1>2 DEF Searches, Searching
<1>4. SectorExists(s) => Underway(s)
  BY DEF OnCourse
<1>5. CASE u.CommandState \notin Searching /\ u.CommandState # "RNF"
  BY <1>5 DEF Searches, Searching
<1>6. CASE w.CommandState = "NEXT_HEADER" /\ u = SearchSector(w)
  <2>1. SectorExists(w) => Turns(w) <= 1 /\ (Turns(w) = 1 => w.pos < w.SR)
    BY <1>2, <1>4, <1>6 DEF Underway
  <2> QED BY <1>2, <1>6, <2>1, SearchOnCourse
<1>7. CASE w.CommandState = "CHECK_HEADER" /\ u = CheckHeader(w, out)
  <2>1. SectorExists(w) => /\ Turns(w) <= 1 /\ w.NextTR = Head(w) /\ w.pos = w.NextSR
                           /\ Turns(w) = 1 => w.NextSR <= w.SR
    BY <1>2, <1>4, <1>7 DEF Underway, WaitsForHeader
  <2> QED BY <1>2, <1>7, <2>1, CheckOnCourse
<1> QED BY <1>3, <1>5, <1>6, <1>7 DEF Continues

LEMMA HandlerSearch ==
  ASSUME AddressIP > 1, StateInv, SearchInv, Handler
  PROVE  /\ SearchInv'
         /\ calm /\ Searches(fdc) /\ fdc'.CommandState = "RNF" => ~SectorExists(fdc)
<1>1. PICK p, out, old : p \in Pos /\ InterruptHandler_Update(p, out, old)
  BY DEF Handler, DrawnPos, SearchInv, Located
<1> DEFINE v == [fdc EXCEPT !.timer = OFF]
           w == FDC_IndexPulse_Update(v, p)
           u == UpdateCommand(w, p, out, old)
<1>2. Located(fdc) /\ Spinning(fdc) /\ Good(fdc) /\ Held(fdc)
  BY DEF SearchInv, StateInv, IInv, Good
<1>3. fdc' = u
  BY <1>1 DEF InterruptHandler_Update, UpdatePass
<1>4. /\ Located(w) /\ Proper(w) /\ w.STR = fdc.STR
      /\ w.Command = fdc.Command /\ w.CommandState = fdc.CommandState
      /\ "MOTOR_ON" \in fdc.STR /\ DriveReady(w) => Timed(w) /\ ~w.pulse
      /\ Timed(fdc) => Noticed(v, w)
  BY <1>1, <1>2, AccessBeforePass
<1> HIDE DEF w
<1>5. Carries(w, u) /\ (w.Command \in TypeII => Continues(w, u, out))
  BY <1>1, <1>4, CommandCarries
<1>6. w.Command \in TypeII /\ w.CommandState = "START"
        => Spinning(u) /\ u.CommandState \in {"SPIN_UP", "HEAD_LOAD", "STOP"}
  BY <1>1, <1>4, StartSpins
<1> HIDE DEF u
<1>7. Located(u) /\ Spinning(u)
  BY <1>2, <1>4, <1>5, <1>6 DEF Carries, Spinning, MotorRuns
<1>8. /\ phase' = "handler" => u.timer = OFF
      /\ calm' = IF Searches(fdc) THEN calm ELSE Searches(u) /\ DriveReady(u)
  BY <1>1, <1>3 DEF InterruptHandler_Update
<1>9. CASE ~Searches(fdc)
  <2>1. ASSUME calm', Searches(u) PROVE OnCourse(u)
    <3>1. DriveReady(u) /\ u.Command \in TypeII /\ u.CommandState \in Searching
      BY <1>8, <1>9, <2>1 DEF Searches, Searching
    <3>2. w.Command \in TypeII /\ w.CommandState \notin Searching
      BY <1>4, <1>5, <1>9, <3>1 DEF Carries, Searches, Searching
    <3>3. w.CommandState # "START"
      BY <1>6, <3>1, <3>2 DEF Searching
    <3>4. "MOTOR_ON" \in fdc.STR
      BY <1>2, <1>4, <3>2, <3>3 DEF Spinning, MotorRuns
    <3>5. u \in {Immediately(ResetSearch(w), "NEXT_HEADER"), SearchSector(ResetSearch(w))}
      BY <1>5, <3>1, <3>2 DEF Continues, Searching
    <3>6. DriveReady(w)
      <4>1. Located(ResetSearch(w)) /\ SameDisk(w, ResetSearch(w))
        BY <1>4 DEF ResetSearch, NotReplaceable, SameDisk, Located, SearchFields
      <4>2. SameDisk(ResetSearch(w), u)
        BY <3>5, <4>1, AtSameDisk, NextSectorSameDisk DEF SearchSector, Immediately, Later
      <4> QED BY <3>1, <4>1, <4>2, SameDiskFacts
    <3> QED BY <1>4, <3>4, <3>5, <3>6, BeginOnCourse
  <2> QED BY <1>3, <1>7, <1>8, <1>9, <2>1 DEF SearchInv
<1>10. CASE Searches(fdc) /\ ~calm
  BY <1>3, <1>7, <1>8, <1>10 DEF SearchInv
<1>11. CASE Searches(fdc) /\ calm
  <2>1. OnCourse(fdc) /\ Timed(fdc)
    BY <1>11 DEF SearchInv, OnCourse
  <2>2. "MOTOR_ON" \in fdc.STR
    BY <1>2, <1>11 DEF Searches, Spinning, MotorRuns
  <2>3. fdc.CommandState = "CHECK_HEADER" /\ SectorExists(fdc) => fdc.pos = fdc.NextSR
    <3> SUFFICES ASSUME fdc.CommandState = "CHECK_HEADER", SectorExists(fdc)
                 PROVE  fdc.pos = fdc.NextSR
      OBVIOUS
    <3>1. fdc.timer = fdc.NextSR /\ fdc.NextSR \in 1 .. Sectors
      BY <2>1 DEF OnCourse, Underway, WaitsForHeader
    <3>2. fdc.timer # OFF /\ fdc.timer # SOON
      BY <3>1, DiskAssumption DEF OFF, SOON
    <3> QED BY <1>1, <3>1, <3>2 DEF InterruptHandler_Update, SearchInv, Expires
  <2>4. Continues(w, u, out)
    BY <1>4, <1>5, <1>11 DEF Searches
  <2>5. /\ Searches(u) => OnCourse(u)
        /\ u.CommandState = "RNF" => ~SectorExists(fdc)
    BY <1>2, <1>4, <1>11, <2>1, <2>2, <2>3, <2>4, SearchPass DEF v
  <2> QED BY <1>3, <1>7, <1>8, <1>11, <2>5 DEF SearchInv
<1> QED BY <1>9, <1>10, <1>11

-----------------------------------------------------------------------------
(* The other steps. *)

(* What a step outside of the handler gives: a search goes on as it was,   *)
(* or somebody has changed what it looks for.                              *)
Sound(s, c) == Located(s) /\ Spinning(s) /\ (c /\ Searches(s) => OnCourse(s))
Outside(s) == {s.CommandState, "START", "STOP", "NULL"}

LEMMA UnseenSound ==
  ASSUME NEW s, NEW c, Sound(s, c), NEW t, Unseen(s, t)
  PROVE  Sound(t, c) /\ t.CommandState = s.CommandState
  BY UnseenOnCourse, UnseenCarries, CarriesLocated DEF Sound

LEMMA AccessSound ==
  ASSUME NEW s, NEW c, Sound(s, c), NEW p \in Pos
  PROVE  LET t == FDC_IndexPulse_Update(s, p)
         IN /\ Sound(t, c) /\ t.CommandState = s.CommandState /\ t.Command = s.Command
            /\ t.STR = s.STR /\ t.Replace = s.Replace
<1> DEFINE t == FDC_IndexPulse_Update(s, p)
<1>1. Located(t) /\ t.Command = s.Command /\ t.CommandState = s.CommandState
  BY AccessCarries, CarriesLocated DEF Sound
<1>2. t.STR = s.STR /\ t.Replace = s.Replace /\ (Timed(s) => Noticed(s, t))
  BY AccessNotices DEF Sound
<1> HIDE DEF t
<1>3. Spinning(t) /\ Searches(t) = Searches(s)
  BY <1>1, <1>2 DEF Sound, Spinning, MotorRuns, Searches
<1>4. c /\ Searches(t) => OnCourse(t)
  BY <1>2, <1>3, NoticedOnCourse DEF Sound, OnCourse
<1> QED BY <1>1, <1>2, <1>3, <1>4 DEF Sound, t

(* A step that leaves the command alone, or its state.                     *)
LEMMA CarriesSound ==
  ASSUME NEW s, NEW c, Sound(s, c), NEW t, Carries(s, t), t.CommandState = s.CommandState
  PROVE  Sound(t, FALSE)
  BY DEF Sound, Carries, Spinning, MotorRuns

LEMMA SetDriveSideCarries ==
  ASSUME NEW s, Located(s), NEW d, NEW p \in Pos PROVE Carries(s, FDC_SetDriveSide(s, d, p))
<1> DEFINE old == IF Selected(s) THEN ForgetPosition(s, s.DriveSel) ELSE s
           new == [old EXCEPT !.DriveSel = d]
<1>0. FDC_SetDriveSide(s, d, p) \in {s, new, FDC_IndexPulse_Init(new, d, p), ForgetPosition(new, d)}
  BY DEF FDC_SetDriveSide
<1>1. Carries(s, old) /\ Carries(s, s)
  BY PositionCarries, DataCarries, DiskAssumption
<1> HIDE DEF old
<1>2. Carries(old, new)
  BY <1>1 DEF Carries, Located, SearchFields
<1> HIDE DEF new
<1>3. Carries(s, new) /\ Located(new)
  BY <1>1, <1>2, CarriesTwice, CarriesLocated
<1>4. Carries(s, FDC_IndexPulse_Init(new, d, p)) /\ Carries(s, ForgetPosition(new, d))
  BY <1>3, PositionCarries, CarriesTwice
<1> QED BY <1>0, <1>1, <1>3, <1>4

LEMMA DisksCarries ==
  ASSUME NEW s, Located(s), NEW d, NEW prot, NEW p \in Pos
  PROVE  Carries(s, FDC_InsertFloppy(s, d, prot, p)) /\ Carries(s, FDC_EjectFloppy(s, d))
<1> DEFINE t == [s EXCEPT !.drives[d].inserted = TRUE, !.drives[d].protected = prot]
           u == [s EXCEPT !.drives[d].inserted = FALSE]
<1>1. Carries(s, t) /\ Carries(s, u)
  BY DEF Carries, Located, SearchFields
<1> HIDE DEF t, u
<1>2. /\ Carries(s, FDC_IndexPulse_Init(t, d, p)) /\ Carries(s, ForgetPosition(t, d))
      /\ Carries(s, ForgetPosition(u, d))
  BY <1>1, CarriesLocated, PositionCarries, CarriesTwice
<1> QED BY <1>2 DEF FDC_InsertFloppy, FDC_EjectFloppy, t, u

(* A new command begins in its first state, or stops the one before.       *)
LEMMA ForceInterruptStops ==
  ASSUME NEW s, Located(s), NEW cr
  PROVE  LET t == FDC_TypeIV_ForceInterrupt(s, cr)
         IN Located(t) /\ t.Command = "MOTOR_STOP" /\ t.CommandState = "STOP"
<1> DEFINE idle == IF "BUSY" \in s.STR THEN s ELSE [s EXCEPT !.STR = @ \cup {"MOTOR_ON"}]
           t == [idle EXCEPT !.Cond = cr.cond]
           u == IF "IMMEDIATE" \in cr.cond THEN FDC_SetIRQ(t, "FORCED") ELSE FDC_ClearIRQ(t)
<1>1. Located(idle)
  BY DEF Located, SearchFields
<1> HIDE DEF idle
<1>2. Located(t)
  BY <1>1 DEF Located, SearchFields
<1> HIDE DEF t
<1>3. Located(u)
  <2>1. Unseen(t, FDC_ClearIRQ(t))
    BY <1>2, DataUnseen
  <2> QED BY <1>2, <2>1, RequestUnseen, UnseenCarries, CarriesLocated
<1> HIDE DEF u
<1>4. LET v == FDC_CmdCompleteCommon(u, FALSE)
      IN Located(v) /\ v.Command = "MOTOR_STOP" /\ v.CommandState = "STOP"
  BY <1>3, CompleteCarries, CompleteStops, CarriesLocated
<1> QED BY <1>4 DEF FDC_TypeIV_ForceInterrupt, idle, t, u

LEMMA ExecuteSound ==
  ASSUME NEW s, Located(s), NEW cr \in CommandRegister
  PROVE  LET t == FDC_ExecuteCommand(s, cr)
         IN Sound(t, FALSE) /\ t.CommandState \in {"START", "STOP"}
<1> DEFINE type == FDC_GetCmdType(cr)
           cleared == IF type = 4 THEN StopForced(s) ELSE FDC_ClearIRQ(StopForced(s))
           t == [cleared EXCEPT !.Cond = {}, !.CR = cr, !.CommandType = type]
           run == IF type = 4 THEN FDC_TypeIV_ForceInterrupt(t, cr) ELSE StartCommand(t, cr)
           u == [run EXCEPT !.Replace = TRUE, !.timer = SOON]
<1>1. u = FDC_ExecuteCommand(s, cr)
  BY DEF FDC_ExecuteCommand
<1>2. Located(cleared)
  <2>1. Unseen(s, StopForced(s))
    BY DataUnseen
  <2>2. Located(StopForced(s))
    BY <2>1, UnseenCarries, CarriesLocated
  <2>3. Unseen(StopForced(s), FDC_ClearIRQ(StopForced(s)))
    BY <2>2, DataUnseen
  <2> QED BY <2>2, <2>3, UnseenCarries, CarriesLocated
<1> HIDE DEF cleared
<1>3. Located(t)
  <2> HIDE DEF type
  <2> QED BY <1>2 DEF Located, SearchFields
<1> HIDE DEF t
<1>4. /\ Located(run) /\ run.CommandState \in {"START", "STOP"}
      /\ run.CommandState = "STOP" => run.Command = "MOTOR_STOP"
  <2>1. CASE type = 4
    BY <1>3, <2>1, ForceInterruptStops
  <2>2. CASE type # 4
    <3>1. Located(StartCommand(t, cr)) /\ StartCommand(t, cr).CommandState = "START"
      <4> DEFINE c == IF cr.cmd \in {"STEPIN", "STEPOUT"} THEN "STEP" ELSE cr.cmd
                 dir == CASE cr.cmd = "STEPIN" -> 1 [] cr.cmd = "STEPOUT" -> -1
                          [] OTHER -> t.StepDirection
                 x == [t EXCEPT !.Command = c, !.CommandState = "START",
                                !.STR = (@ \ {"RNF"}) \cup {"BUSY"}, !.StepDirection = dir]
      <4>1. x = StartCommand(t, cr)
        BY DEF StartCommand
      <4> HIDE DEF c, dir
      <4>2. Located(x) /\ x.CommandState = "START"
        BY <1>3 DEF Located, SearchFields
      <4> QED BY <4>1, <4>2
    <3> QED BY <2>2, <3>1
  <2> QED BY <2>1, <2>2
<1> HIDE DEF run
<1>5. Located(u) /\ u.CommandState = run.CommandState /\ u.Command = run.Command
  BY <1>4 DEF Located, SearchFields
<1> HIDE DEF u
<1>6. Sound(u, FALSE) /\ u.CommandState \in {"START", "STOP"}
  BY <1>4, <1>5 DEF Sound, Spinning, MotorRuns, TypeII
<1> QED BY <1>1, <1>6

LEMMA ResetSound ==
  ASSUME NEW s, SearchFields \subseteq DOMAIN s, NEW cold
  PROVE  LET t == FDC_Reset(MFP_Reset(s), cold) IN Sound(t, FALSE) /\ t.CommandState = "NULL"
<1> DEFINE m == [s EXCEPT !.line = "LOW"]
           timed == [d \in Drives |-> [m.drives[d] EXCEPT !.timed = FALSE]]
           x == IF m.timer > 0 THEN SOON ELSE m.timer
           tr == IF cold THEN 0 ELSE m.TR
           dr == IF cold THEN 0 ELSE m.DR
           r == [m EXCEPT
                  !.STR = {}, !.SR = 1, !.TR = tr, !.DR = dr,
                  !.CR = [cmd |-> "RESTORE", spin |-> TRUE, delay |-> FALSE, multi |-> FALSE,
                          cond |-> {}],
                  !.StepDirection = 1, !.Command = "NULL", !.CommandState = "NULL",
                  !.CommandType = 0, !.Cond = {}, !.IRQ = {}, !.IndexPulse_Counter = 0,
                  !.drives = timed,
                  !.pos = 0, !.pulse = FALSE, !.timer = x,
                  !.writeMode = FALSE, !.Buffer = 0]
           t == [r EXCEPT !.FIFO_Size = 0, !.BytesInSector = SectorBytes, !.SectorCount = 0,
                          !.BytesToTransfer = 0, !.room = 0]
<1>1. t = FDC_Reset(MFP_Reset(s), cold)
  BY DEF FDC_Reset, MFP_Reset, FDC_ResetDMA
<1>2. SearchFields \subseteq DOMAIN m
  BY DEF SearchFields
<1> HIDE DEF m
<1> HIDE DEF timed, x, tr, dr
<1>3. /\ SearchFields \subseteq DOMAIN r /\ r.pos = 0 /\ r.pulse = FALSE
      /\ r.IndexPulse_Counter = 0 /\ r.Command = "NULL" /\ r.CommandState = "NULL"
  BY <1>2 DEF SearchFields
<1> HIDE DEF r
<1>4. /\ SearchFields \subseteq DOMAIN t /\ t.pos = 0 /\ t.pulse = FALSE
      /\ t.IndexPulse_Counter = 0 /\ t.Command = "NULL" /\ t.CommandState = "NULL"
  BY <1>3 DEF SearchFields
<1> HIDE DEF t
<1>5. Located(t)
  <2>1. 0 \in Pos
    BY DiskAssumption DEF Pos
  <2>2. t.pos \in Pos /\ t.pulse \in BOOLEAN
    BY <1>4, <2>1, Zenon
  <2>3. t.IndexPulse_Counter \in Nat
    BY <1>4
  <2> QED BY <1>4, <2>2, <2>3 DEF Located
<1>6. Sound(t, FALSE) /\ t.CommandState = "NULL"
  BY <1>4, <1>5 DEF Sound, Spinning, TypeII
<1> QED BY <1>1, <1>6

(* The disk turns towards the header that is awaited.                      *)
LEMMA TurnSound ==
  ASSUME NEW s, NEW c, Sound(s, c), Timed(s), s.timer # OFF,
         s.timer > 0 => s.pos # s.timer, s.pulse => s.pos # Sectors
  PROVE  Sound(Turn(s), c) /\ Turn(s).CommandState = s.CommandState
<1> DEFINE t == Turn(s)
<1>1. /\ SearchFields \subseteq DOMAIN t
      /\ t.TR = s.TR /\ t.SR = s.SR /\ t.NextTR = s.NextTR /\ t.NextSR = s.NextSR
      /\ t.timer = s.timer /\ t.DriveSel = s.DriveSel /\ t.drives = s.drives
      /\ t.STR = s.STR /\ t.Command = s.Command /\ t.CommandState = s.CommandState
      /\ t.IndexPulse_Counter = s.IndexPulse_Counter
      /\ t.pos = (IF s.pos = Sectors THEN 0 ELSE s.pos + 1)
      /\ t.pulse = (s.pulse \/ s.pos = Sectors)
  BY DEF Sound, Located, SearchFields, Turn
<1>2. Located(t)
  BY DataCarries, CarriesLocated DEF Sound
<1> HIDE DEF t
<1>3. /\ Head(t) = Head(s) /\ Timed(t) = Timed(s) /\ DriveReady(t) = DriveReady(s)
      /\ SectorExists(t) = SectorExists(s) /\ Searches(t) = Searches(s) /\ Spinning(t) = Spinning(s)
  BY <1>1 DEF Head, Timed, Selected, DriveReady, SectorExists, Searches, Spinning, MotorRuns
<1>4. ASSUME Searches(s), OnCourse(s), SectorExists(s) PROVE Underway(t)
  <2>1. s.CommandState = "CHECK_HEADER" /\ WaitsForHeader(s) /\ Turns(s) <= 1
    BY <1>4 DEF OnCourse, Underway, Searches
  <2>2. /\ s.NextSR \in 1 .. Sectors /\ s.timer = s.NextSR /\ s.pos # s.NextSR
        /\ s.SR \in 1 .. Sectors /\ s.IndexPulse_Counter \in Nat /\ s.pulse \in BOOLEAN
        /\ Sectors \in Nat
    BY <1>4, <2>1, DiskAssumption DEF WaitsForHeader, SectorExists, Sound, Located
  <2>3. CASE s.pos = s.NextSR - 1
    <3>1. t.pos = t.NextSR /\ t.pulse = s.pulse
      BY <1>1, <2>2, <2>3
    <3>2. Turns(t) = Turns(s)
      BY <1>1, <3>1 DEF Turns
    <3> QED BY <1>1, <1>3, <2>1, <2>2, <3>1, <3>2 DEF Underway, WaitsForHeader
  <2>4. CASE s.pos = Sectors /\ s.NextSR = 1
    <3>1. t.pos = 0 /\ t.pulse = TRUE /\ ~s.pulse
      BY <1>1, <2>4
    <3>2. Turns(s) = s.IndexPulse_Counter /\ Turns(t) = s.IndexPulse_Counter + 1
      BY <1>1, <2>2, <3>1 DEF Turns
    <3>3. Turns(s) # 1
      BY <2>1, <2>2, <2>4 DEF WaitsForHeader
    <3>4. Turns(t) <= 1
      BY <2>1, <2>2, <3>2, <3>3
    <3>5. t.NextSR = 1 /\ t.pos = t.NextSR - 1 /\ t.NextSR <= t.SR /\ t.pos <= t.NextSR
      BY <1>1, <2>2, <2>4, <3>1
    <3> QED BY <1>1, <1>3, <2>1, <2>2, <3>4, <3>5 DEF Underway, WaitsForHeader
  <2> QED BY <2>1, <2>2, <2>3, <2>4 DEF WaitsForHeader
<1>5. c /\ Searches(t) => OnCourse(t)
  BY <1>3, <1>4 DEF Sound, OnCourse
<1>6. Sound(t, c) /\ t.CommandState = s.CommandState
  BY <1>1, <1>2, <1>3, <1>5 DEF Sound
<1> QED BY <1>6 DEF t

(* A step outside of the handler. *)
Elsewhere ==
  /\ Sound(fdc', calm') /\ fdc'.CommandState \in Outside(fdc)
  /\ phase' \in {"cpu", "rom"}

LEMMA RegistersSearch == ASSUME StateInv, SearchInv, Registers PROVE Elsewhere
<1>0. Sound(fdc, calm) /\ DrawnPos \subseteq Pos
  BY DEF SearchInv, Sound, DrawnPos, Located
<1>1. ASSUME NEW p \in DrawnPos
      PROVE  /\ Sound(Access(p), calm) /\ Access(p).CommandState = fdc.CommandState
             /\ Located(Access(p)) /\ Access(p).STR = fdc.STR
             /\ Access(p).Replace = fdc.Replace
  BY <1>0, AccessSound DEF Access, Sound
<1>2. ASSUME NEW p \in DrawnPos, NEW cr \in Commands, WriteCommand(cr, p) PROVE Elsewhere
  <2> DEFINE a == Access(p)
  <2>1. /\ phase' = "cpu" /\ fdc' = FDC_WriteCommandRegister(a, cr)
        /\ calm' = (calm /\ ~Accepts(fdc, cr))
    BY <1>2 DEF WriteCommand, Program
  <2>2. a.CommandType = fdc.CommandType
    BY AccessKeeps DEF Access, StateInv, IInv, Kept
  <2>3. Accepts(a, cr) = Accepts(fdc, cr)
    BY <1>1, <2>2 DEF Accepts
  <2>4. Sound(a, calm) /\ a.CommandState = fdc.CommandState /\ Located(a)
    BY <1>1
  <2> HIDE DEF a
  <2>5. CASE Accepts(fdc, cr)
    <3>1. cr \in CommandRegister
      BY ProgramAssumption
    <3>2. fdc' = FDC_ExecuteCommand(a, cr) /\ calm' = FALSE
      BY <2>1, <2>3, <2>5 DEF FDC_WriteCommandRegister
    <3> QED BY <2>1, <2>4, <3>1, <3>2, ExecuteSound DEF Elsewhere, Outside
  <2>6. CASE ~Accepts(fdc, cr)
    <3>1. fdc' = a /\ (calm' => calm)
      BY <2>1, <2>3, <2>6 DEF FDC_WriteCommandRegister
    <3>2. Sound(a, calm')
      BY <2>4, <3>1 DEF Sound
    <3> QED BY <2>1, <2>4, <3>1, <3>2 DEF Elsewhere, Outside
  <2> QED BY <2>5, <2>6
<1>3. ASSUME NEW p \in DrawnPos, NEW v, WriteTrack(v, p) \/ WriteSector(v, p) PROVE Elsewhere
  <2> DEFINE a == Access(p)
             t == FDC_WriteTrackRegister(a, v)
             u == FDC_WriteSectorRegister(a, v)
  <2>1. phase' = "cpu" /\ fdc' \in {t, u} /\ calm' = FALSE
    BY <1>3 DEF WriteTrack, WriteSector, Program
  <2>2. Sound(a, calm) /\ a.CommandState = fdc.CommandState /\ Located(a)
    BY <1>1
  <2> HIDE DEF a
  <2>3. Carries(a, t) /\ Carries(a, u)
    BY <2>2, DataCarries
  <2>4. t.CommandState = a.CommandState /\ u.CommandState = a.CommandState
    BY <2>2 DEF FDC_WriteTrackRegister, FDC_WriteSectorRegister, Located, SearchFields
  <2> HIDE DEF t, u
  <2>5. Sound(t, FALSE) /\ Sound(u, FALSE)
    BY <2>2, <2>3, <2>4, CarriesSound
  <2> QED BY <2>1, <2>2, <2>4, <2>5 DEF Elsewhere, Outside
<1>4. ASSUME NEW p \in DrawnPos, NEW v, WriteData(v, p) PROVE Elsewhere
  <2>1. Unseen(Access(p), FDC_WriteDataRegister(Access(p), v))
    BY <1>1, DataUnseen
  <2>2. phase' = "cpu" /\ fdc' = FDC_WriteDataRegister(Access(p), v) /\ calm' = calm
    BY <1>4 DEF WriteData, Program
  <2> QED BY <1>1, <2>1, <2>2, UnseenSound DEF Elsewhere, Outside
<1>5. ASSUME NEW p \in DrawnPos, ReadStatusRegister(p) PROVE Elsewhere
  <2> DEFINE a == Access(p)
             t == StopForced(a)
  <2>1. phase' = "cpu" /\ fdc' = FDC_ClearIRQ(t) /\ calm' = calm
    BY <1>5 DEF ReadStatusRegister, ReadStatus
  <2>2. Unseen(a, t) /\ Located(t)
    BY <1>1, DataUnseen, UnseenCarries, CarriesLocated
  <2>3. Unseen(t, FDC_ClearIRQ(t))
    BY <2>2, DataUnseen
  <2>4. Unseen(a, FDC_ClearIRQ(t))
    BY <2>2, <2>3, UnseenTwice
  <2> QED BY <1>1, <2>1, <2>4, UnseenSound DEF Elsewhere, Outside
<1>6. ASSUME NEW d \in Drives \cup {NoDrive}, NEW p \in Pos, SelectDrive(d, p) PROVE Elsewhere
  <2>1. phase' = "cpu" /\ fdc' = FDC_SetDriveSide(fdc, d, p) /\ calm' = FALSE
    BY <1>6 DEF SelectDrive, Program
  <2>2. Carries(fdc, FDC_SetDriveSide(fdc, d, p))
    BY <1>0, SetDriveSideCarries DEF Sound
  <2>3. FDC_SetDriveSide(fdc, d, p).CommandState = fdc.CommandState
    BY SetDriveSideSame DEF StateInv, IInv, Same, Moved
  <2> QED BY <1>0, <2>1, <2>2, <2>3, CarriesSound DEF Elsewhere, Outside
<1> QED BY <1>2, <1>3, <1>4, <1>5, <1>6 DEF Registers

LEMMA OthersSearch ==
  ASSUME StateInv, SearchInv, DMA \/ HardDisk \/ User \/ ResetInstruction \/ Rotate
  PROVE  Elsewhere
<1>0. Sound(fdc, calm) /\ Located(fdc)
  BY DEF SearchInv, Sound
<1>1. ASSUME NEW n, WriteCount(n) PROVE Elsewhere
  <2>1. Unseen(fdc, FDC_WriteSectorCountRegister(fdc, n))
    BY <1>0, DataUnseen
  <2> QED BY <1>0, <1>1, <2>1, UnseenSound DEF WriteCount, Program, Elsewhere, Outside
<1>2. ASSUME WriteMode PROVE Elsewhere
  <2>1. Unseen(fdc, FDC_DmaModeControl_WriteWord(fdc, ~fdc.writeMode))
    BY <1>0, DmaUnseen
  <2> QED BY <1>0, <1>2, <2>1, UnseenSound DEF WriteMode, Program, Elsewhere, Outside
<1>3. ASSUME HardDisk PROVE Elsewhere
  <2> DEFINE h == FDC_ClearHdcIRQ(fdc)
  <2>1. Unseen(fdc, h) /\ Located(h)
    BY <1>0, DataUnseen, UnseenCarries, CarriesLocated
  <2>2. phase' = "cpu" /\ calm' = calm /\ fdc' \in {h, FDC_SetIRQ(h, "HDC")}
    BY <1>3 DEF HardDisk, HardDiskCommand, HardDiskReady, Program
  <2> HIDE DEF h
  <2>3. Unseen(fdc, FDC_SetIRQ(h, "HDC"))
    BY <2>1, RequestUnseen, UnseenTwice
  <2> QED BY <1>0, <2>1, <2>2, <2>3, UnseenSound DEF Elsewhere, Outside
<1>4. ASSUME ResetInstruction PROVE Elsewhere
  <2>1. LET t == FDC_Reset(MFP_Reset(fdc), FALSE) IN Sound(t, FALSE) /\ t.CommandState = "NULL"
    BY <1>0, ResetSound DEF Located
  <2> QED BY <1>4, <2>1 DEF ResetInstruction, Elsewhere, Outside
<1>5. ASSUME NEW d \in Drives, NEW prot, NEW p \in Pos, InsertFloppy(d, prot, p) \/ EjectFloppy(d)
      PROVE  Elsewhere
  <2>1. /\ phase' = "cpu" /\ calm' = FALSE
        /\ fdc' \in {FDC_InsertFloppy(fdc, d, prot, p), FDC_EjectFloppy(fdc, d)}
    BY <1>5 DEF InsertFloppy, EjectFloppy, Program
  <2>2. Carries(fdc, fdc')
    BY <1>0, <2>1, DisksCarries
  <2>3. fdc'.CommandState = fdc.CommandState
    BY <2>1, InsertSame, EjectSame DEF StateInv, IInv, Same, Moved
  <2> QED BY <1>0, <2>1, <2>2, <2>3, CarriesSound DEF Elsewhere, Outside
<1>6. ASSUME NEW cold \in BOOLEAN, Reset_ST(cold) PROVE Elsewhere
  <2> DEFINE y == CycInt_Reset(fdc)
             m == MFP_Reset(y)
  <2>1. phase' = "rom" /\ calm' = FALSE /\ fdc' = IF cold THEN FDC_Reset(m, TRUE) ELSE m
    BY <1>6 DEF Reset_ST
  <2>2. Carries(fdc, y) /\ y.CommandState = fdc.CommandState
    BY <1>0, DataCarries DEF CycInt_Reset, Located, SearchFields
  <2>3. Located(y)
    BY <2>2, CarriesLocated
  <2> HIDE DEF y
  <2>4. Sound(FDC_Reset(m, TRUE), FALSE) /\ FDC_Reset(m, TRUE).CommandState = "NULL"
    BY <2>3, ResetSound DEF Located
  <2>5. Unseen(y, m)
    BY <2>3, DataUnseen
  <2>6. Sound(m, FALSE) /\ m.CommandState = fdc.CommandState
    BY <1>0, <2>2, <2>5, CarriesSound, UnseenSound
  <2> HIDE DEF m
  <2> QED BY <2>1, <2>4, <2>6 DEF Elsewhere, Outside
<1>7. ASSUME Rotate PROVE Elsewhere
  <2>1. /\ phase = "cpu" /\ phase' = "cpu" /\ calm' = calm /\ fdc' = Turn(fdc) /\ Timed(fdc)
        /\ fdc.timer > 0 => fdc.pos # fdc.timer
        /\ fdc.pulse => fdc.pos # Sectors
    BY <1>7 DEF Rotate
  <2>2. CASE fdc.timer # OFF
    BY <1>0, <2>1, <2>2, TurnSound DEF Elsewhere, Outside
  <2>3. CASE fdc.timer = OFF
    <3>1. fdc.Command = "NULL" /\ ~Searches(fdc)
      BY <2>1, <2>3 DEF StateInv, Alive, Searches, TypeII
    <3>2. Carries(fdc, Turn(fdc)) /\ Turn(fdc).CommandState = fdc.CommandState
          /\ Turn(fdc).Command = fdc.Command
      BY <1>0, DataCarries DEF Turn, Located, SearchFields
    <3>3. Sound(Turn(fdc), FALSE) /\ ~Searches(Turn(fdc))
      BY <1>0, <3>1, <3>2, CarriesSound DEF Searches, TypeII
    <3> QED BY <2>1, <3>2, <3>3 DEF Elsewhere, Outside, Sound
  <2> QED BY <2>2, <2>3
<1>8. 0 \in Pos
  BY DiskAssumption DEF Pos
<1> QED BY <1>1, <1>2, <1>3, <1>4, <1>5, <1>6, <1>7, <1>8 DEF DMA, User

LEMMA InitSearch == Init => SearchInv
<1> SUFFICES ASSUME Init PROVE SearchInv
  OBVIOUS
<1>1. PICK ins, prot \in [Drives -> BOOLEAN] :
        fdc = FDC_Reset(MFP_Reset(
            [Blank EXCEPT !.drives = [d \in Drives |-> [Blank.drives[d] EXCEPT
                             !.inserted = ins[d], !.protected = prot[d]]]]), TRUE)
  BY DEF Init
<1> DEFINE disks == [d \in Drives |-> [Blank.drives[d] EXCEPT
                             !.inserted = ins[d], !.protected = prot[d]]]
           b == [Blank EXCEPT !.drives = disks]
<1>2. fdc = FDC_Reset(MFP_Reset(b), TRUE)
  BY <1>1
<1> HIDE DEF disks
<1>3. SearchFields \subseteq DOMAIN b
  BY DEF SearchFields, Blank
<1> HIDE DEF b
<1>4. Sound(fdc, FALSE)
  BY <1>2, <1>3, ResetSound
<1> QED BY <1>4 DEF Init, SearchInv, Sound

(* What a step keeps of a search, and that it finds its sector.            *)
Found == calm /\ Searches(fdc) /\ fdc'.CommandState = "RNF" => ~SectorExists(fdc)

LEMMA SearchStep ==
  ASSUME AddressIP > 1, StateInv, SearchInv, [Next]_vars
  PROVE  SearchInv' /\ (Found \/ UNCHANGED vars)
<1>1. CASE Handler
  BY <1>1, HandlerSearch DEF Found
<1>2. ASSUME Elsewhere PROVE SearchInv' /\ Found
  <2>1. SearchInv'
    BY <1>2 DEF Elsewhere, Sound, SearchInv
  <2>2. fdc'.CommandState = "RNF" => ~Searches(fdc)
    BY <1>2 DEF Elsewhere, Outside, Searches
  <2> QED BY <2>1, <2>2 DEF Found
<1>3. CASE UNCHANGED vars
  BY <1>3 DEF vars, SearchInv
<1> QED BY <1>1, <1>2, <1>3, RegistersSearch, OthersSearch DEF Next

LEMMA SearchInvariant == ASSUME AddressIP > 1 PROVE Spec => []SearchInv
<1>1. StateInv /\ SearchInv /\ [Next]_vars => SearchInv'
  BY SearchStep
<1> QED BY <1>1, InitSearch, StateInvariant, PTL DEF Spec

(* With more than one index pulse to find a sector in (5 in the code), an  *)
(* undisturbed search of FDC_UpdateReadSectorsCmd or                       *)
(* FDC_UpdateWriteSectorsCmd gives up only where the track has no such     *)
(* sector, wherever the head was when it began and however late the        *)
(* handler is called within a sector.                                      *)
THEOREM SectorsAreFound == ASSUME AddressIP > 1 PROVE Spec => SectorFound
<1>1. StateInv /\ SearchInv /\ [Next]_vars => Found \/ UNCHANGED vars
  BY SearchStep
<1>2. Spec => [](StateInv /\ SearchInv)
  BY StateInvariant, SearchInvariant, PTL
<1>3. SectorFound <=> [][Found]_vars
  BY PTL DEF SectorFound, Found
<1> QED BY <1>1, <1>2, <1>3, PTL DEF Spec

-----------------------------------------------------------------------------
(* The loop of FDC_InterruptHandler_Update goes on while the state changes *)
(* at once.  How many changes can follow a state: the longest way is that  *)
(* of a command for several sectors that finds no more of them, CRC,       *)
(* MULTI, MOTOR_ON, NEXT_HEADER, RNF, STOP.                                *)
PassesLeft(st) ==
  CASE st = "CRC" -> 5
    [] st \in {"START", "MULTI"} -> 4
    [] st \in {"SPIN_UP", "HEAD_LOAD", "MOTOR_ON", "LOOP", "CHECK_HEADER", "INDEX",
               "TRANSFER_START"} -> 3
    [] st \in {"NEXT_HEADER", "TRANSFER_LOOP", "VERIFY", "HEAD_OK"} -> 2
    [] st \in {"RNF", "COMPLETE"} -> 1
    [] OTHER -> 0

LEMMA Passes ==
  /\ \A st : PassesLeft(st) \in 0 .. 5
  /\ PassesLeft("CRC") = 5 /\ PassesLeft("START") = 4 /\ PassesLeft("MULTI") = 4
  /\ PassesLeft("SPIN_UP") = 3 /\ PassesLeft("HEAD_LOAD") = 3 /\ PassesLeft("MOTOR_ON") = 3
  /\ PassesLeft("LOOP") = 3 /\ PassesLeft("CHECK_HEADER") = 3 /\ PassesLeft("INDEX") = 3
  /\ PassesLeft("TRANSFER_START") = 3
  /\ PassesLeft("NEXT_HEADER") = 2 /\ PassesLeft("TRANSFER_LOOP") = 2
  /\ PassesLeft("VERIFY") = 2 /\ PassesLeft("HEAD_OK") = 2
  /\ PassesLeft("RNF") = 1 /\ PassesLeft("COMPLETE") = 1 /\ PassesLeft("STOP") = 0
<1>1. ASSUME NEW st PROVE PassesLeft(st) \in 0 .. 5
  BY DEF PassesLeft
<1>2. /\ PassesLeft("CRC") = 5 /\ PassesLeft("START") = 4 /\ PassesLeft("MULTI") = 4
      /\ PassesLeft("SPIN_UP") = 3 /\ PassesLeft("HEAD_LOAD") = 3 /\ PassesLeft("MOTOR_ON") = 3
      /\ PassesLeft("LOOP") = 3 /\ PassesLeft("CHECK_HEADER") = 3 /\ PassesLeft("INDEX") = 3
      /\ PassesLeft("TRANSFER_START") = 3
  BY DEF PassesLeft
<1>3. /\ PassesLeft("NEXT_HEADER") = 2 /\ PassesLeft("TRANSFER_LOOP") = 2
      /\ PassesLeft("VERIFY") = 2 /\ PassesLeft("HEAD_OK") = 2
      /\ PassesLeft("RNF") = 1 /\ PassesLeft("COMPLETE") = 1 /\ PassesLeft("STOP") = 0
  BY DEF PassesLeft
<1> QED BY <1>1, <1>2, <1>3

(* A pass from state st that gives t comes nearer to the end of the loop,  *)
(* or leaves it.                                                           *)
Leads(st, t) ==
  t.Command # "NULL" /\ t.timer = OFF => PassesLeft(t.CommandState) < PassesLeft(st)

LEMMA LaterLeads ==
  ASSUME NEW from, NEW s, Located(s), NEW st PROVE Leads(from, Later(s, st))
<1>1. Later(s, st).timer = SOON
  BY DEF Later, At, Located, SearchFields
<1> QED BY <1>1 DEF Leads, SOON, OFF

LEMMA AtOnceLeads ==
  ASSUME NEW from, NEW s, Located(s), NEW st, PassesLeft(st) < PassesLeft(from)
  PROVE  Leads(from, Immediately(s, st))
  BY AtCarries DEF Leads

LEMMA HeaderLeads ==
  ASSUME NEW from, NEW s, Located(s), NEW st PROVE Leads(from, FDC_NextSectorID(s, st))
<1> DEFINE h == IF s.pos < Sectors THEN s.pos + 1 ELSE 1
           t == [s EXCEPT !.NextTR = Head(s), !.NextSR = h]
<1>1. h # OFF
  BY DiskAssumption DEF Located, Pos, OFF
<1> HIDE DEF h
<1>2. Located(t)
  BY DEF Located, SearchFields
<1> HIDE DEF t
<1>3. At(t, st, h).timer = h
  BY <1>2 DEF At, Located, SearchFields
<1> QED BY <1>1, <1>3 DEF FDC_NextSectorID, Leads, t, h

LEMMA CompleteLeads ==
  ASSUME NEW from, PassesLeft(from) > 0, NEW s, Located(s)
  PROVE  Leads(from, FDC_CmdCompleteCommon(s, TRUE))
  BY CompleteCarries, Passes DEF Leads

LEMMA EndedLeads ==
  ASSUME NEW from, PassesLeft(from) > 0, NEW s, Located(s) PROVE Leads(from, Ended(s))
  BY EndedCarries, Passes DEF Leads

LEMMA StartMotorLeads ==
  ASSUME NEW s, Located(s), NEW next \in {"MOTOR_ON", "HEAD_LOAD"}, NEW p \in Pos
  PROVE  Leads("START", StartMotor(s, next, p))
  BY StartMotorCarries, Passes DEF Leads

LEMMA SearchLeads ==
  ASSUME NEW from, PassesLeft(from) > 1, NEW s, Located(s) PROVE Leads(from, SearchSector(s))
<1>1. Leads(from, Immediately(s, "RNF"))
  BY AtOnceLeads, Passes
<1> QED BY <1>1, LaterLeads, HeaderLeads DEF SearchSector

(* The commands of type I. *)
LEMMA VerifyLeads ==
  ASSUME NEW s, Located(s), s.CommandState \in Verifying PROVE Leads(s.CommandState, Verify(s))
<1> DEFINE from == s.CommandState
<1>1. ASSUME NEW x, Located(x) PROVE Leads(from, VerifyNextHeader(x))
  <2>1. Located(NotFound(x))
    BY <1>1, DataCarries, CarriesLocated
  <2> QED BY <1>1, <2>1, LaterLeads, HeaderLeads DEF VerifyNextHeader
<1>2. CASE from = "VERIFY"
  BY <1>2, LaterLeads DEF Verify
<1>3. CASE from = "HEAD_OK"
  <2>1. Located([s EXCEPT !.IndexPulse_Counter = 0])
    BY DataCarries, CarriesLocated
  <2> QED BY <1>1, <1>3, <2>1 DEF Verify
<1>4. CASE from = "NEXT_HEADER"
  BY <1>1, <1>4 DEF Verify
<1>5. CASE from = "CHECK_HEADER"
  <2>1. Located([s EXCEPT !.STR = @ \ {"RNF"}])
    BY DataCarries, CarriesLocated
  <2>2. Leads(from, Later([s EXCEPT !.STR = @ \ {"RNF"}], "COMPLETE"))
    BY <2>1, LaterLeads
  <2>3. Leads(from, Immediately(s, "NEXT_HEADER"))
    BY <1>5, AtOnceLeads, Passes
  <2> QED BY <1>5, <2>2, <2>3 DEF Verify
<1>6. CASE from = "COMPLETE"
  <2>1. PassesLeft(from) > 0
    BY <1>6, Passes
  <2>2. Leads(from, FDC_CmdCompleteCommon(s, TRUE))
    BY <2>1, CompleteLeads
  <2> QED BY <1>6, <2>2 DEF Verify
<1> QED BY <1>2, <1>3, <1>4, <1>5, <1>6 DEF Verifying

LEMMA RestoreLoopLeads ==
  ASSUME NEW from \in {"SPIN_UP", "MOTOR_ON", "LOOP"}, NEW s, Located(s)
  PROVE  Leads(from, RestoreLoop(s))
<1> DEFINE t == [s EXCEPT !.TR = @ - 1]
           u == IF Selected(s) THEN MoveHead(t, -1) ELSE t
           v == [s EXCEPT !.TR = 0]
<1>1. \/ RestoreLoop(s) = FDC_CmdCompleteCommon(NotFound(s), TRUE)
      \/ RestoreLoop(s) = Immediately(v, "VERIFY")
      \/ RestoreLoop(s) = Later(u, "LOOP")
  BY DEF RestoreLoop
<1>2. Carries(s, t) /\ Located(v)
  BY RegisterCarries, CarriesLocated
<1> HIDE DEF t, v
<1>3. Located(u)
  BY <1>2, MoveHeadCarries, CarriesLocated
<1> HIDE DEF u
<1>4. Located(NotFound(s))
  BY DataCarries, CarriesLocated
<1>5. PassesLeft(from) = 3 /\ PassesLeft(from) > 0
  BY Passes
<1>6. Leads(from, FDC_CmdCompleteCommon(NotFound(s), TRUE))
  BY <1>4, <1>5, CompleteLeads
<1>7. Leads(from, Immediately(v, "VERIFY")) /\ Leads(from, Later(u, "LOOP"))
  BY <1>2, <1>3, <1>5, AtOnceLeads, LaterLeads, Passes
<1> QED BY <1>1, <1>6, <1>7

LEMMA SeekTrackLeads ==
  ASSUME NEW from \in {"SPIN_UP", "MOTOR_ON"}, NEW s, Located(s) PROVE Leads(from, SeekTrack(s))
<1> DEFINE dir == IF s.DR < s.TR THEN -1 ELSE 1
           t == [s EXCEPT !.StepDirection = dir, !.TR = Wrap(@ + dir)]
           u == IF dir = -1 THEN [t EXCEPT !.TR = 0] ELSE t
<1>1. \/ SeekTrack(s) = Immediately(s, "VERIFY") \/ SeekTrack(s) = Later(t, s.CommandState)
      \/ SeekTrack(s) = Later(MoveHead(t, dir), s.CommandState)
      \/ SeekTrack(s) = Immediately(u, "VERIFY")
  BY DEF SeekTrack
<1> HIDE DEF dir
<1>2. Carries(s, t)
  BY DataCarries
<1> HIDE DEF t
<1>3. Located(t) /\ Located(u) /\ Located(MoveHead(t, dir))
  BY <1>2, RegisterCarries, CarriesLocated, MoveHeadCarries
<1> HIDE DEF u
<1>4. PassesLeft("VERIFY") < PassesLeft(from)
  BY Passes
<1>5. Leads(from, Immediately(s, "VERIFY")) /\ Leads(from, Immediately(u, "VERIFY"))
  BY <1>3, <1>4, AtOnceLeads
<1>6. \A st : Leads(from, Later(t, st)) /\ Leads(from, Later(MoveHead(t, dir), st))
  BY <1>3, LaterLeads
<1> QED BY <1>1, <1>5, <1>6

LEMMA StepOnceLeads ==
  ASSUME NEW from \in {"SPIN_UP", "MOTOR_ON"}, NEW s, Located(s) PROVE Leads(from, StepOnce(s))
<1> DEFINE dir == s.StepDirection
           t == IF s.CR.multi THEN [s EXCEPT !.TR = Wrap(@ + dir)] ELSE s
<1>1. \/ StepOnce(s) = Later(t, "VERIFY") \/ StepOnce(s) = Immediately(t, "VERIFY")
      \/ StepOnce(s) = Later(MoveHead(t, dir), "VERIFY")
  BY DEF StepOnce
<1>2. Carries(s, t)
  BY RegisterCarries, DataCarries
<1> HIDE DEF t, dir
<1>3. Located(t) /\ Located(MoveHead(t, dir))
  BY <1>2, CarriesLocated, MoveHeadCarries
<1>4. PassesLeft("VERIFY") < PassesLeft(from)
  BY Passes
<1>5. Leads(from, Immediately(t, "VERIFY"))
  BY <1>3, <1>4, AtOnceLeads
<1> QED BY <1>1, <1>3, <1>5, LaterLeads

LEMMA PositioningLeads ==
  ASSUME NEW s, Located(s), Proper(s), s.Command \in {"RESTORE", "SEEK", "STEP"},
         NEW p \in Pos, NEW out, NEW old
  PROVE  Leads(s.CommandState, UpdateCommand(s, p, out, old))
<1> DEFINE from == s.CommandState
           t == UpdateCommand(s, p, out, old)
           u == NotReplaceable(s)
           v == [u EXCEPT !.TR = RegMax]
<1>1. from \in Positioning \cup {"LOOP"} /\ (from = "LOOP" => s.Command = "RESTORE")
  BY StateSets DEF Proper, Positioning
<1>2. \/ t = FDC_UpdateRestoreCmd(s, p) /\ s.Command = "RESTORE"
      \/ t = FDC_UpdateSeekCmd(s, p) /\ s.Command # "RESTORE"
      \/ t = FDC_UpdateStepCmd(s, p) /\ s.Command # "RESTORE"
  BY DEF UpdateCommand
<1>3. Located(u)
  BY DataCarries, CarriesLocated
<1>4. Located(v)
  BY <1>3, RegisterCarries, CarriesLocated
<1>5. CASE from = "START"
  <2>1. t = StartMotor(s, "MOTOR_ON", p)
    BY <1>2, <1>5 DEF FDC_UpdateRestoreCmd, FDC_UpdateSeekCmd, FDC_UpdateStepCmd, SpunUp, SpinningUp
  <2> QED BY <1>5, <2>1, StartMotorLeads
<1>6. CASE SpinningUp(s)
  <2>1. t = Later(s, "SPIN_UP")
    BY <1>2, <1>6 DEF FDC_UpdateRestoreCmd, FDC_UpdateSeekCmd, FDC_UpdateStepCmd, SpunUp, SpinningUp
  <2> QED BY <2>1, LaterLeads
<1>7. CASE SpunUp(s)
  <2>1. t = RestoreLoop(v) \/ t = SeekTrack(u) \/ t = StepOnce(u)
    BY <1>2, <1>7 DEF FDC_UpdateRestoreCmd, FDC_UpdateSeekCmd, FDC_UpdateStepCmd, SpunUp, SpinningUp
  <2>2. from \in {"SPIN_UP", "MOTOR_ON"}
    BY <1>7 DEF SpunUp
  <2> HIDE DEF u, v
  <2>3. Leads(from, RestoreLoop(v)) /\ Leads(from, SeekTrack(u)) /\ Leads(from, StepOnce(u))
    BY <1>3, <1>4, <2>2, RestoreLoopLeads, SeekTrackLeads, StepOnceLeads
  <2> QED BY <2>1, <2>3
<1>8. CASE from = "LOOP"
  <2>1. t = RestoreLoop(s)
    BY <1>1, <1>2, <1>8 DEF FDC_UpdateRestoreCmd, SpunUp, SpinningUp
  <2> QED BY <1>8, <2>1, RestoreLoopLeads
<1>9. CASE from \in Verifying
  <2>1. t = Verify(s)
    BY <1>2, <1>9 DEF FDC_UpdateRestoreCmd, FDC_UpdateSeekCmd, FDC_UpdateStepCmd,
                      SpunUp, SpinningUp, Verifying
  <2> QED BY <1>9, <2>1, VerifyLeads
<1> QED BY <1>1, <1>5, <1>6, <1>7, <1>8, <1>9 DEF Positioning, SpunUp, SpinningUp, Verifying

(* The commands of types II and III.                                       *)
LEMMA PreparedLeads ==
  ASSUME NEW from, NEW s, Located(s)
  PROVE  /\ \A st : Leads(from, Later(NotReplaceable(s), st))
         /\ Leads(from, AwaitIndex(s)) /\ Leads(from, AwaitIndex(NotReplaceable(s)))
<1>1. Located(NotReplaceable(s))
  BY DataCarries, CarriesLocated
<1> QED BY <1>1, LaterLeads DEF AwaitIndex

LEMMA BufferLeads ==
  ASSUME NEW from, NEW s, Located(s), NEW n
  PROVE  /\ \A st : Leads(from, Later([s EXCEPT !.Buffer = n], st))
         /\ PassesLeft(from) > 1 => Leads(from, Immediately([s EXCEPT !.Buffer = n], "RNF"))
<1>1. Located([s EXCEPT !.Buffer = n])
  BY DataCarries, CarriesLocated
<1>2. PassesLeft(from) > 1 => PassesLeft("RNF") < PassesLeft(from)
  BY Passes
<1> QED BY <1>1, <1>2, LaterLeads, AtOnceLeads

LEMMA TransferReadLeads ==
  ASSUME NEW from, NEW s, Located(s), NEW last PROVE Leads(from, TransferRead(s, last))
<1> DEFINE v == FDC_DMA_FIFO_Push(s)
           n == Max({v.Buffer - 1, 0})
           t == [v EXCEPT !.Buffer = n]
           st == IF t.Buffer > 0 THEN "TRANSFER_LOOP" ELSE last
<1>1. TransferRead(s, last) = Later(t, st)
  BY DEF TransferRead
<1>2. Located(v)
  BY DmaUnseen, UnseenCarries, CarriesLocated
<1> HIDE DEF v, n
<1>3. Located(t)
  BY <1>2, DataCarries, CarriesLocated
<1> HIDE DEF t, st
<1> QED BY <1>1, <1>3, LaterLeads

LEMMA TransferWriteLeads ==
  ASSUME NEW from, NEW s, Located(s), NEW t, Located(t), Leads(from, t)
  PROVE  Leads(from, TransferWrite(s, t))
<1> DEFINE v == FDC_DMA_FIFO_Pull(s)
           w == [v EXCEPT !.Buffer = @ + 1, !.BytesToTransfer = @ - 1]
           x == [t EXCEPT !.BytesToTransfer = @ - 1]
<1>1. TransferWrite(s, t) = Later(w, "TRANSFER_LOOP") \/ TransferWrite(s, t) = x
  BY DEF TransferWrite
<1>2. Located(v)
  BY DmaUnseen, UnseenCarries, CarriesLocated
<1> HIDE DEF v
<1>3. Located(w)
  BY <1>2 DEF Located, SearchFields
<1> HIDE DEF w
<1>4. x.Command = t.Command /\ x.timer = t.timer /\ x.CommandState = t.CommandState
  BY DEF Located, SearchFields
<1> HIDE DEF x
<1> QED BY <1>1, <1>3, <1>4, LaterLeads DEF Leads

LEMMA StartWriteLeads ==
  ASSUME NEW from, PassesLeft(from) > 2, NEW s, Located(s), NEW n
  PROVE  Leads(from, StartWrite(s, n))
<1>1. StartWrite(s, n).CommandState = "TRANSFER_LOOP"
  BY StartWriteCarries
<1> QED BY <1>1, Passes DEF Leads

LEMMA AnotherLeads ==
  ASSUME NEW s, Located(s) PROVE Leads("MULTI", NextSector(s))
<1> DEFINE t == [s EXCEPT !.SR = Wrap(@ + 1)]
<1>1. Located(t)
  BY DEF Located, SearchFields
<1> HIDE DEF t
<1>2. Leads("MULTI", Immediately(t, "MOTOR_ON"))
  BY <1>1, AtOnceLeads, Passes
<1> QED BY <1>2, LaterLeads DEF NextSector, t

LEMMA PickAddressLeads ==
  ASSUME NEW from, NEW s, Located(s), NEW old PROVE Leads(from, ReadAddress(s, old))
<1> DEFINE u == [s EXCEPT !.SR = Head(s), !.Buffer = IdBytes]
           v == [s EXCEPT !.SR = old, !.Buffer = 0]
<1>1. Located(u) /\ Located(v)
  BY DEF Located, SearchFields
<1> HIDE DEF u, v
<1> QED BY <1>1, LaterLeads DEF ReadAddress, u, v

LEMMA SectorsLead ==
  ASSUME NEW s, Located(s), Proper(s), s.Command \in TypeII, NEW p \in Pos, NEW out, NEW old
  PROVE  Leads(s.CommandState, UpdateCommand(s, p, out, old))
<1> DEFINE from == s.CommandState
           t == UpdateCommand(s, p, out, old)
<1>1. from \in Starting \cup {"NEXT_HEADER", "CHECK_HEADER", "TRANSFER_START", "TRANSFER_LOOP",
                              "CRC", "MULTI", "RNF", "COMPLETE"}
  BY StateSets DEF Proper
<1>2. \/ t = FDC_UpdateReadSectorsCmd(s, p, out) \/ t = UnprotectedWrite(s, p, out)
      \/ t = FDC_CmdCompleteCommon(s, TRUE)
  BY DEF UpdateCommand, FDC_UpdateWriteSectorsCmd, TypeII
<1>3. CASE t = FDC_CmdCompleteCommon(s, TRUE)
  <2>1. PassesLeft(from) > 0
    BY <1>1, Passes DEF Starting
  <2>2. Leads(from, FDC_CmdCompleteCommon(s, TRUE))
    BY <2>1, CompleteLeads
  <2> QED BY <1>3, <2>2
<1> SUFFICES ASSUME t = FDC_UpdateReadSectorsCmd(s, p, out) \/ t = UnprotectedWrite(s, p, out)
             PROVE  Leads(from, t)
  BY <1>2, <1>3
<1> HIDE DEF t
<1> USE DEF SpinningUp, HeadLoading, HeadLoaded, NoSpinUpLeft
<1>4. CASE from = "START"
  <2>1. t = StartMotor(s, "HEAD_LOAD", p)
    BY <1>4 DEF FDC_UpdateReadSectorsCmd, UnprotectedWrite
  <2> QED BY <1>4, <2>1, StartMotorLeads
<1>5. CASE SpinningUp(s) \/ HeadLoading(s)
  <2>1. t = Later(s, "SPIN_UP") \/ t = Later(s, "MOTOR_ON")
    BY <1>5 DEF FDC_UpdateReadSectorsCmd, UnprotectedWrite
  <2> QED BY <2>1, LaterLeads
<1>6. CASE HeadLoaded(s) \/ from = "MOTOR_ON"
  <2> DEFINE r == ResetSearch(s)
  <2>1. t = Immediately(r, "NEXT_HEADER") \/ t = SearchSector(r)
    BY <1>6 DEF FDC_UpdateReadSectorsCmd, UnprotectedWrite, FirstSearch
  <2>2. Located(r)
    BY DataCarries, CarriesLocated
  <2> HIDE DEF r
  <2>3. PassesLeft(from) = 3 /\ PassesLeft(from) > 1
    BY <1>6, Passes
  <2>4. Leads(from, Immediately(r, "NEXT_HEADER"))
    BY <2>2, <2>3, AtOnceLeads, Passes
  <2> QED BY <2>1, <2>2, <2>3, <2>4, SearchLeads
<1>7. CASE from = "NEXT_HEADER"
  <2>1. t = SearchSector(s)
    BY <1>7 DEF FDC_UpdateReadSectorsCmd, UnprotectedWrite
  <2>2. PassesLeft(from) > 1
    BY <1>7, Passes
  <2> QED BY <2>1, <2>2, SearchLeads
<1>8. CASE from = "CHECK_HEADER"
  <2>1. t = Later(s, "TRANSFER_START") \/ t = Immediately(s, "NEXT_HEADER")
    BY <1>8 DEF FDC_UpdateReadSectorsCmd, UnprotectedWrite, CheckHeader
  <2>2. PassesLeft("NEXT_HEADER") < PassesLeft(from)
    BY <1>8, Passes
  <2> QED BY <2>1, <2>2, LaterLeads, AtOnceLeads
<1>9. CASE from = "TRANSFER_START"
  <2>1. \/ t = Later([s EXCEPT !.Buffer = SectorBytes], "TRANSFER_LOOP")
        \/ t = Immediately([s EXCEPT !.Buffer = 0], "RNF")
        \/ t = StartWrite(s, SectorBytes)
    BY <1>9 DEF FDC_UpdateReadSectorsCmd, UnprotectedWrite
  <2>2. PassesLeft(from) > 1 /\ PassesLeft(from) > 2
    BY <1>9, Passes
  <2>3. /\ Leads(from, Later([s EXCEPT !.Buffer = SectorBytes], "TRANSFER_LOOP"))
        /\ Leads(from, Immediately([s EXCEPT !.Buffer = 0], "RNF"))
    BY <2>2, BufferLeads
  <2>4. Leads(from, StartWrite(s, SectorBytes))
    BY <2>2, StartWriteLeads
  <2> QED BY <2>1, <2>3, <2>4
<1>10. CASE from = "TRANSFER_LOOP"
  <2>1. t = TransferRead(s, "CRC") \/ t = TransferWrite(s, Later(s, "CRC"))
    BY <1>10 DEF FDC_UpdateReadSectorsCmd, UnprotectedWrite
  <2>2. Leads(from, TransferRead(s, "CRC"))
    BY TransferReadLeads
  <2>3. Leads(from, TransferWrite(s, Later(s, "CRC")))
    BY LaterLeads, AtCarries, CarriesLocated, TransferWriteLeads
  <2> QED BY <2>1, <2>2, <2>3
<1>11. CASE from = "CRC"
  <2>1. t = Immediately(s, "MULTI") \/ t = Immediately(s, "RNF")
    BY <1>11 DEF FDC_UpdateReadSectorsCmd, UnprotectedWrite
  <2>2. PassesLeft("MULTI") < PassesLeft(from) /\ PassesLeft("RNF") < PassesLeft(from)
    BY <1>11, Passes
  <2> QED BY <2>1, <2>2, AtOnceLeads
<1>12. CASE from = "MULTI"
  <2>1. t = NextSector(s)
    BY <1>12 DEF FDC_UpdateReadSectorsCmd, UnprotectedWrite
  <2> QED BY <1>12, <2>1, AnotherLeads
<1>13. CASE from \in {"RNF", "COMPLETE"}
  <2>1. t = Ended(s)
    BY <1>13 DEF FDC_UpdateReadSectorsCmd, UnprotectedWrite
  <2>2. PassesLeft(from) > 0
    BY <1>13, Passes
  <2> QED BY <2>1, <2>2, EndedLeads
<1>14. from \in Starting => \/ from \in {"START", "MOTOR_ON"}
                            \/ SpinningUp(s) \/ HeadLoading(s) \/ HeadLoaded(s)
  BY StartingCases
<1> QED BY <1>1, <1>4, <1>5, <1>6, <1>7, <1>8, <1>9, <1>10, <1>11, <1>12, <1>13, <1>14

LEMMA TracksLead ==
  ASSUME NEW s, Located(s), Proper(s), s.Command \in TypeIII, NEW p \in Pos, NEW out, NEW old
  PROVE  Leads(s.CommandState, UpdateCommand(s, p, out, old))
<1> DEFINE from == s.CommandState
           t == UpdateCommand(s, p, out, old)
           u == NotReplaceable(s)
<1>1. /\ s.Command = "READADDRESS"
         => from \in Starting \cup {"NEXT_HEADER", "TRANSFER_START", "TRANSFER_LOOP", "RNF",
                                    "COMPLETE"}
      /\ s.Command # "READADDRESS"
         => from \in Starting \cup {"INDEX", "TRANSFER_LOOP", "COMPLETE"}
  BY StateSets DEF Proper, TypeIII
<1>2. \/ s.Command = "READADDRESS" /\ t = FDC_UpdateReadAddressCmd(s, p, old)
      \/ s.Command # "READADDRESS" /\ t = FDC_UpdateReadTrackCmd(s, p)
      \/ s.Command # "READADDRESS" /\ t = FDC_UpdateWriteTrackCmd(s, p, out)
  BY DEF UpdateCommand, TypeIII
<1> SUFFICES Leads(from, t)
  OBVIOUS
<1> HIDE DEF t
<1> USE DEF SpinningUp, HeadLoading, HeadLoaded, NoSpinUpLeft
<1>3. CASE from = "START"
  <2>1. t = StartMotor(s, "HEAD_LOAD", p)
    BY <1>2, <1>3 DEF FDC_UpdateReadAddressCmd, FDC_UpdateReadTrackCmd, FDC_UpdateWriteTrackCmd
  <2> QED BY <1>3, <2>1, StartMotorLeads
<1>4. CASE SpinningUp(s) \/ HeadLoading(s)
  <2>1. t = Later(s, "SPIN_UP") \/ t = Later(u, "MOTOR_ON")
    BY <1>2, <1>4 DEF FDC_UpdateReadAddressCmd, FDC_UpdateReadTrackCmd, FDC_UpdateWriteTrackCmd
  <2> QED BY <2>1, LaterLeads, PreparedLeads
<1>5. CASE HeadLoaded(s) \/ from = "MOTOR_ON"
  <2> DEFINE r == ResetSearch(s)
  <2>1. t = Immediately(r, "NEXT_HEADER") \/ t = AwaitIndex(u) \/ t = AwaitIndex(s)
    BY <1>2, <1>5 DEF FDC_UpdateReadAddressCmd, FDC_UpdateReadTrackCmd, FDC_UpdateWriteTrackCmd
  <2>2. Located(r)
    BY DataCarries, CarriesLocated
  <2> HIDE DEF r
  <2>3. PassesLeft("NEXT_HEADER") < PassesLeft(from)
    BY <1>5, Passes
  <2>4. Leads(from, Immediately(r, "NEXT_HEADER"))
    BY <2>2, <2>3, AtOnceLeads
  <2> QED BY <2>1, <2>4, PreparedLeads
<1>6. CASE from = "NEXT_HEADER"
  <2>1. \/ t = Immediately(s, "RNF") \/ t = Later(s, "NEXT_HEADER")
        \/ t = FDC_NextSectorID(s, "TRANSFER_START")
    BY <1>1, <1>2, <1>6 DEF FDC_UpdateReadAddressCmd, Starting
  <2>2. PassesLeft("RNF") < PassesLeft(from)
    BY <1>6, Passes
  <2> QED BY <2>1, <2>2, LaterLeads, AtOnceLeads, HeaderLeads
<1>7. CASE from = "TRANSFER_START"
  <2>1. t = ReadAddress(s, old)
    BY <1>1, <1>2, <1>7 DEF FDC_UpdateReadAddressCmd, Starting
  <2> QED BY <2>1, PickAddressLeads
<1>8. CASE from = "INDEX"
  <2>1. \/ t = Later([s EXCEPT !.Buffer = TrackBytes], "TRANSFER_LOOP")
        \/ t = FDC_CmdCompleteCommon(s, TRUE) \/ t = StartWrite(s, TrackBytes)
    BY <1>1, <1>2, <1>8 DEF FDC_UpdateReadTrackCmd, FDC_UpdateWriteTrackCmd, Starting
  <2>2. PassesLeft(from) > 0 /\ PassesLeft(from) > 2
    BY <1>8, Passes
  <2>3. Leads(from, Later([s EXCEPT !.Buffer = TrackBytes], "TRANSFER_LOOP"))
    BY BufferLeads
  <2>4. Leads(from, FDC_CmdCompleteCommon(s, TRUE)) /\ Leads(from, StartWrite(s, TrackBytes))
    BY <2>2, CompleteLeads, StartWriteLeads
  <2> QED BY <2>1, <2>3, <2>4
<1>9. CASE from = "TRANSFER_LOOP"
  <2>1. t = TransferRead(s, "COMPLETE") \/ t = TransferWrite(s, Immediately(s, "COMPLETE"))
    BY <1>2, <1>9 DEF FDC_UpdateReadAddressCmd, FDC_UpdateReadTrackCmd, FDC_UpdateWriteTrackCmd
  <2>2. Leads(from, TransferRead(s, "COMPLETE"))
    BY TransferReadLeads
  <2>3. PassesLeft("COMPLETE") < PassesLeft(from)
    BY <1>9, Passes
  <2>4. Leads(from, Immediately(s, "COMPLETE")) /\ Located(Immediately(s, "COMPLETE"))
    BY <2>3, AtOnceLeads, AtCarries, CarriesLocated
  <2> QED BY <2>1, <2>2, <2>4, TransferWriteLeads
<1>10. CASE from \in {"RNF", "COMPLETE"}
  <2>1. t = Ended(s)
    BY <1>1, <1>2, <1>10 DEF FDC_UpdateReadAddressCmd, FDC_UpdateReadTrackCmd,
                             FDC_UpdateWriteTrackCmd, Starting
  <2>2. PassesLeft(from) > 0
    BY <1>10, Passes
  <2> QED BY <2>1, <2>2, EndedLeads
<1>11. from \in Starting => \/ from \in {"START", "MOTOR_ON"}
                            \/ SpinningUp(s) \/ HeadLoading(s) \/ HeadLoaded(s)
  BY StartingCases
<1> QED BY <1>1, <1>3, <1>4, <1>5, <1>6, <1>7, <1>8, <1>9, <1>10, <1>11

(* The motor is stopped, or will be.                                       *)
LEMMA MotorStopLeads ==
  ASSUME NEW from, NEW s, Located(s) PROVE Leads(from, FDC_UpdateMotorStop(s))
<1> DEFINE t == IF s.CommandState = "STOP" THEN [s EXCEPT !.IndexPulse_Counter = 0] ELSE s
           off == [t EXCEPT !.IndexPulse_Counter = 0, !.STR = @ \ {"MOTOR_ON"},
                            !.Command = "NULL", !.CommandState = "NULL"]
<1>1. \/ FDC_UpdateMotorStop(s) = Later(t, "STOP_WAIT")
      \/ FDC_UpdateMotorStop(s) = off \/ FDC_UpdateMotorStop(s) = ForgetPosition(off, t.DriveSel)
  BY DEF FDC_UpdateMotorStop
<1>2. Located(t)
  BY DataCarries, CarriesLocated
<1> HIDE DEF t
<1>3. off.Command = "NULL" /\ SearchFields \subseteq DOMAIN off
  BY <1>2 DEF Located, SearchFields
<1> HIDE DEF off
<1>4. ForgetPosition(off, t.DriveSel).Command = "NULL"
  BY <1>3 DEF ForgetPosition, SetPosition, SearchFields
<1>5. Leads(from, Later(t, "STOP_WAIT"))
  BY <1>2, LaterLeads
<1> QED BY <1>1, <1>3, <1>4, <1>5 DEF Leads

LEMMA CommandLeads ==
  ASSUME NEW s, Located(s), Proper(s), NEW p \in Pos, NEW out, NEW old
  PROVE  Leads(s.CommandState, UpdateCommand(s, p, out, old))
<1>1. CASE s.Command = "NULL"
  BY <1>1 DEF UpdateCommand, Leads
<1>2. CASE s.Command = "MOTOR_STOP"
  BY <1>2, MotorStopLeads DEF UpdateCommand
<1>3. CASE s.Command \in {"RESTORE", "SEEK", "STEP"}
  BY <1>3, PositioningLeads
<1> QED BY <1>1, <1>2, <1>3, SectorsLead, TracksLead DEF Proper, CommandNames

(* Where the state of a command changes at once, and the loop of           *)
(* FDC_InterruptHandler_Update goes on, the command comes nearer to a      *)
(* state that waits or ends: the loop makes at most six passes, whatever   *)
(* the command, the drive and its disk are.  This is why HandlerReturns    *)
(* needs no more than that the handler is executed.                        *)
HandlerDescends ==
  [][ phase' = "handler"
        => PassesLeft(fdc'.CommandState) < PassesLeft(fdc.CommandState) ]_vars

(* The loop has no bound of its own (fdc.c:1809), and needs none: every    *)
(* command, in every state it can be in, ends it.                          *)
THEOREM LoopAlwaysDescends == ASSUME AddressIP > 1 PROVE Spec => HandlerDescends
<1> DEFINE Descends ==
      phase' = "handler" => PassesLeft(fdc'.CommandState) < PassesLeft(fdc.CommandState)
<1>1. Spec => [](StateInv /\ SearchInv)
  BY SearchInvariant, StateInvariant, PTL
<1>2. ASSUME StateInv, SearchInv, Handler PROVE Descends
  <2>1. PICK p, out, old : p \in Pos /\ InterruptHandler_Update(p, out, old)
    BY <1>2 DEF Handler, DrawnPos, SearchInv, Located
  <2> DEFINE w == FDC_IndexPulse_Update([fdc EXCEPT !.timer = OFF], p)
  <2>2. Located(w) /\ Proper(w) /\ w.CommandState = fdc.CommandState
    <3>1. Located(fdc) /\ Good(fdc) /\ Held(fdc)
      BY <1>2 DEF SearchInv, StateInv, IInv, Good
    <3> QED BY <2>1, <3>1, AccessBeforePass
  <2> HIDE DEF w
  <2>3. fdc' = UpdateCommand(w, p, out, old)
    BY <2>1 DEF InterruptHandler_Update, UpdatePass, w
  <2>4. Leads(fdc.CommandState, fdc')
    BY <2>1, <2>2, <2>3, CommandLeads
  <2> QED BY <2>1, <2>4 DEF InterruptHandler_Update, Leads
<1>3. ASSUME StateInv, Next, ~Handler PROVE phase' # "handler"
  BY <1>3, RegistersState, OthersState DEF Next
<1>4. StateInv /\ SearchInv /\ [Next]_vars => Descends \/ UNCHANGED vars
  BY <1>2, <1>3
<1> QED BY <1>1, <1>4, PTL DEF Spec, HandlerDescends
=============================================================================
