----------------------------- MODULE MCDevices -----------------------------
(* A file of five frames read in blocks of two, so that its end comes at     *)
(* every place of a block, and rings that can be full; an outputRate of the  *)
(* stick that is small, fits, or never will be reached; a sampleCnt that is  *)
(* negative, small or large at first; a server with two frequencies and two  *)
(* gains that may close, and be connected to again, at any time.             *)
EXTENDS Devices
GarbageMC == {-9, 0, 3, 9}
=============================================================================
