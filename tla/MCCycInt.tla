------------------------------ MODULE MCCycInt ------------------------------
(* Model-checking instances of CycIntSpec, with a shrunk internal clock (1 *)
(* internal cycle per CPU cycle, 5 per MFP cycle) and a shrunk INT_MAX.    *)
EXTENDS CycIntSpec

(* The video part asks for the time of two instructions. *)
MCLineDelay == {<<8, "CPU">>}

(* 10 and 15 internal cycles.  With the offset below, the second is more   *)
(* than the 32 bit counter of the model holds.                             *)
MCDelays == {<<2, "MFP">>, <<3, "MFP">>}

(* A timer is restarted that was late: 4 internal cycles and 9 are left of *)
(* the delays above.                                                       *)
MCLateOffset == {-6}

MCLineChanges == {-4}
=============================================================================
