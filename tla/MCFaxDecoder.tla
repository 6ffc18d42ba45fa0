---------------------------- MODULE MCFaxDecoder ----------------------------
(* Lines of twenty samples, which tenths and quarters divide as they divide  *)
(* the 6000 of the code; a picture of one line, with the checks one line and *)
(* the limit three lines later; two failing phases, one cheat.               *)
EXTENDS FaxDecoder
=============================================================================
