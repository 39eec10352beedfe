---------------------------- MODULE MCSerialLink ----------------------------
(* Model-checking instance of SerialLink: bytes of two bits. *)
EXTENDS SerialLink

Value(divide, word, tx, rie) == [divide |-> divide, word |-> word, tx |-> tx, rie |-> rie]

(* Master reset; 8N1 at 7812.5 baud with the interrupt of the receiver. *)
MCReceive == {Value(3, 5, 0, FALSE), Value(2, 5, 0, TRUE)}

(* Master reset; 8N1 with the interrupt of the transmitter; 7 bits with    *)
(* odd parity, and a break; two stop bits.                                 *)
MCSend == {Value(3, 5, 0, FALSE), Value(2, 5, 1, FALSE), Value(2, 3, 3, FALSE), Value(2, 4, 0, FALSE)}

NoByte == {}
MCTwoBytes == {<<0, 0>>, <<0, 1>>}
MCDelays == {1}
=============================================================================
