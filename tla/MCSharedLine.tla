---------------------------- MODULE MCSharedLine ----------------------------
(* Model-checking instance of SharedLine: bytes of two bits. *)
EXTENDS SharedLine

MCControl ==
  {[divide |-> 3, word |-> 5, tx |-> 0, rie |-> FALSE],
   [divide |-> 2, word |-> 5, tx |-> 0, rie |-> TRUE]}
=============================================================================
