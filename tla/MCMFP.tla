------------------------------- MODULE MCMFP -------------------------------
(* Model-checking instances of MFPSpec. *)
EXTENDS MFPSpec

(* All bits off, all bits on. *)
AllOrNothing == {{}, Channels}

(* Every value of the registers. *)
AnyValue == SUBSET Channels
=============================================================================
