---------------------------- MODULE MCMFPTimers ----------------------------
(* Model-checking instances of MFPTimersSpec: a shrunk clock, a data       *)
(* register that counts to 4, prescalers of 1 and 2.                       *)
EXTENDS MFPTimersSpec

MCDiv == [c \in 1 .. 7 |-> IF c = 1 THEN 1 ELSE 2]
=============================================================================
