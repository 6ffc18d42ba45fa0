----------------------------- MODULE MCAudioOut -----------------------------
(* A decoder rate of two frames a chunk and a card rate of four, a ring of  *)
(* four frames, so that one chunk can overflow it, callbacks of three       *)
(* frames, and one selection of another output device.                      *)
EXTENDS AudioOut
=============================================================================
