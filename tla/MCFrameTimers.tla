---------------------------- MODULE MCFrameTimers ----------------------------
(* Frames of 5, 4 and 3 lines of 24, 20 and 16 cycles.  The VBL offset plus *)
(* the lateness of a handler may reach a line of 71 Hz, as it may in        *)
(* reality (64 + 160 cycles of 224), and no other.                          *)
EXTENDS FrameTimersSpec

ByFreq(a, b, c) == [f \in Freq |-> IF f = 50 THEN a ELSE IF f = 60 THEN b ELSE c]

MCLines == ByFreq(5, 4, 3)
MCCycles == ByFreq(24, 20, 16)
MCLineEnd == ByFreq(16, 12, 12)
MCRestartLine == [f \in {50, 60} |-> MCLines[f] - 3]
=============================================================================
