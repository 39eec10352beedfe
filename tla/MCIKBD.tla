------------------------------- MODULE MCIKBD -------------------------------
(* Module IKBD with a ring of few bytes and some of the bytes a program    *)
(* sends: at least one of every group of commands, and a parameter.        *)
EXTENDS IKBD
=============================================================================
